------------------------- MODULE LiveSessionProofs -------------------------
(***************************************************************************)
(* Proofs about a live session, for any sessions, agents, variants, faults *)
(* and requests in flight.  Six invariants, each with a lemma per action:  *)
(*   Typed     what everything is                                          *)
(*   Worked    who may have an event in hand                               *)
(*   Waited    who may be waiting                                          *)
(*   Fitting   what an agent does with an event, and whose decision it is  *)
(*   Unspoilt  a session not generated yet has left no trace               *)
(*   Closed    what the journal of a decided session can still be told     *)
(* Worked and Waited rest on Typed, Fitting on Worked, the last two on all *)
(* but Waited.                                                             *)
(***************************************************************************)
EXTENDS LiveSession, SequenceTheorems, FiniteSetTheorems, WellFoundedInduction, TLAPS

\* The types of what the model keeps.
Known   == Sessions \union {None}
Entries == [ev : Events, leased : BOOLEAN]

Places == {"idle", "parked", "scaffolding", "hungup", "holding", "cutoff", "cleanup"}
Hands  == [at : Places, ev : Events \union {None}]

\* An agent has an event in hand when it is neither idle nor waiting for one.
Sound(hand) == (hand.ev = None) <=> (hand.at \in {"idle", "parked"})

Phases == FencedPhases \union
    {"new", "generate_requested", "generating", "cycling", "variants_ready", "agent_error"}

Snapshots ==
    [known : BOOLEAN, phase : Phases, canceled : BOOLEAN, finished : BOOLEAN,
     arrived : 0 .. Count, rev : Nat, pending : Events \union {None}]

States  == {"PICKING", "GENERATING", "CYCLING", "SAVING"}
Records == [id : Known, st : States, arrived : 0 .. Count, file : BOOLEAN]
Pulls   == [id : Sessions, why : {"component", "done", "orphan", "restore"}]

Pages ==
    [cur : Known, st : States, arrived : 0 .. Count, file : BOOLEAN, conn : BOOLEAN,
     pulls : SUBSET Pulls, capture : Known, rev : Nat, stored : Records,
     handled : Known, deciding : Known, awaiting : Known, token : BOOLEAN]

Requests ==
    [kind : {"generate", "checkpoint", "accept", "discard", "variant_mount_failed"},
     id : Sessions, variant : 0 .. Count, orphaned : BOOLEAN,
     phase : {"", "generating", "cycling"}, arrived : 0 .. Count, rev : Nat,
     gated : BOOLEAN, heard : BOOLEAN, valid : BOOLEAN]

Typed ==
    /\ snap \in [Sessions -> Snapshots]
    /\ up \in BOOLEAN
    /\ queue \in Seq(Entries)
    /\ parked \in Seq(Agents)
    /\ agent \in [Agents -> Hands]
    /\ \A a \in Agents : Sound(agent[a])
    /\ source \in [Sessions -> 0 .. Count]
    /\ settled \subseteq Sessions
    /\ page \in Pages
    /\ net \subseteq Requests
    /\ \A r \in net : r.kind = "checkpoint" => r.phase # ""
    /\ faults \in 0 .. MaxFaults
    /\ mounted \subseteq Sessions

-----------------------------------------------------------------------------
\* Sequences with something taken out of them.

LEMMA LeastMember == ASSUME NEW T, T \subseteq Nat, T # {} PROVE \E x \in T : \A y \in T : x <= y
  <1>1. \E x \in T : \A y \in T : ~(<<y,x>> \in OpToRel(<, Nat))
    BY NatLessThanWellFounded, WFMin
  <1>2. PICK x \in T : \A y \in T : ~(<<y, x>> \in OpToRel(<, Nat))
    BY <1>1
  <1>3. \A y \in T : ~(y < x)
    BY <1>2 DEF OpToRel
  <1>4. QED
    BY <1>3

\* r is q without some of its entries.
Thinned(r, q) ==
    \E h \in [1 .. Len(r) -> 1 .. Len(q)] :
        /\ \A i \in 1 .. Len(r) : r[i] = q[h[i]]
        /\ \A i, j \in 1 .. Len(r) : h[i] = h[j] => i = j

LEMMA ThinnedSelf == ASSUME NEW S, NEW q \in Seq(S) PROVE Thinned(q, q)
  <1> DEFINE h == [i \in 1 .. Len(q) |-> i]
  <1>1. /\ h \in [1 .. Len(q) -> 1 .. Len(q)]
        /\ \A i \in 1 .. Len(q) : q[i] = q[h[i]]
        /\ \A i, j \in 1 .. Len(q) : h[i] = h[j] => i = j
    OBVIOUS
  <1> QED
    BY <1>1 DEF Thinned

LEMMA RemoveAtThins ==
    ASSUME NEW S, NEW q \in Seq(S), NEW k \in 1 .. Len(q)
    PROVE  RemoveAt(q, k) \in Seq(S) /\ Thinned(RemoveAt(q, k), q)
  <1> DEFINE left  == SubSeq(q, 1, k - 1)
             right == SubSeq(q, k + 1, Len(q))
             r     == RemoveAt(q, k)
  <1>0. Len(q) \in Nat /\ \A j \in 1 .. Len(q) : q[j] \in S
    BY ElementOfSeq
  <1>1. /\ left \in Seq(S) /\ Len(left) = k - 1
        /\ \A j \in 1 .. k - 1 : left[j] = q[j]
    <2>1. \A j \in 1 .. k - 1 : q[j] \in S
      BY <1>0
    <2> QED
      BY <1>0, <2>1, SubSeqProperties
  <1>2. /\ right \in Seq(S) /\ Len(right) = Len(q) - k
        /\ \A j \in 1 .. Len(q) - k : right[j] = q[k + j]
    <2>1. \A j \in k + 1 .. Len(q) : q[j] \in S
      BY <1>0
    <2> QED
      BY <1>0, <2>1, SubSeqProperties
  <1>3. r = left \o right
    BY DEF RemoveAt
  <1> HIDE DEF left, right, r
  <1>4. /\ r \in Seq(S) /\ Len(r) = Len(q) - 1
        /\ \A j \in 1 .. Len(q) - 1 :
              r[j] = IF j <= k - 1 THEN left[j] ELSE right[j - (k - 1)]
    <2>1. /\ left \o right \in Seq(S)
          /\ Len(left \o right) = Len(left) + Len(right)
          /\ \A i \in 1 .. Len(left) + Len(right) :
                (left \o right)[i] = IF i <= Len(left) THEN left[i] ELSE right[i - Len(left)]
      BY <1>1, <1>2, ConcatProperties
    <2>2. Len(left) + Len(right) = Len(q) - 1
      BY <1>0, <1>1, <1>2
    <2> QED
      BY <1>1, <1>3, <2>1, <2>2
  <1>5. \A j \in 1 .. Len(q) - 1 : r[j] = q[IF j < k THEN j ELSE j + 1]
    <2>1. SUFFICES ASSUME NEW j \in 1 .. Len(q) - 1
                   PROVE  r[j] = q[IF j < k THEN j ELSE j + 1]
      OBVIOUS
    <2>2. CASE j < k
      BY <1>0, <1>1, <1>4, <2>2
    <2>3. CASE ~(j < k)
      <3>1. j - (k - 1) \in 1 .. Len(q) - k /\ k + (j - (k - 1)) = j + 1
        BY <1>0, <2>3
      <3> QED
        BY <1>0, <1>2, <1>4, <2>3, <3>1
    <2> QED
      BY <2>2, <2>3
  <1> DEFINE h == [j \in 1 .. Len(r) |-> IF j < k THEN j ELSE j + 1]
  <1>6. /\ h \in [1 .. Len(r) -> 1 .. Len(q)]
        /\ \A i \in 1 .. Len(r) : r[i] = q[h[i]]
        /\ \A i, j \in 1 .. Len(r) : h[i] = h[j] => i = j
    BY <1>0, <1>4, <1>5
  <1>7. Thinned(r, q)
    BY <1>6 DEF Thinned
  <1> QED
    BY <1>4, <1>7 DEF r

\* What Without keeps of the first n elements.
KeptUpTo(g, N, seq, gone) ==
    /\ DOMAIN g = 0 .. N
    /\ g[0] = <<>>
    /\ \A n \in 1 .. N :
          g[n] = IF seq[n] \in gone THEN g[n - 1] ELSE Append(g[n - 1], seq[n])

LEMMA KeptExists ==
    ASSUME NEW seq, NEW gone
    PROVE  \A N \in Nat : \E g : KeptUpTo(g, N, seq, gone)
  <1> DEFINE T == {N \in Nat : ~\E g : KeptUpTo(g, N, seq, gone)}
  <1>1. SUFFICES ASSUME T # {} PROVE FALSE
    OBVIOUS
  <1>2. PICK m \in T : \A k \in T : m <= k
    <2>1. T \subseteq Nat
      OBVIOUS
    <2> QED
      BY <1>1, <2>1, LeastMember
  <1>3. m # 0
    <2> DEFINE g == [n \in 0 .. 0 |-> <<>>]
    <2>1. KeptUpTo(g, 0, seq, gone)
      BY DEF KeptUpTo
    <2> HIDE DEF g
    <2> QED
      BY <1>2, <2>1
  <1>4. m - 1 \in Nat /\ m - 1 \notin T
    BY <1>2, <1>3
  <1>5. PICK g : KeptUpTo(g, m - 1, seq, gone)
    BY <1>4
  <1> DEFINE last == IF seq[m] \in gone THEN g[m - 1] ELSE Append(g[m - 1], seq[m])
             f    == [n \in 0 .. m |-> IF n = m THEN last ELSE g[n]]
  <1>6. KeptUpTo(f, m, seq, gone)
    <2>1. DOMAIN f = 0 .. m /\ f[m] = last /\ \A n \in 0 .. m - 1 : f[n] = g[n]
      BY <1>4
    <2> HIDE DEF f
    <2>2. f[0] = <<>>
      BY <1>4, <1>5, <2>1 DEF KeptUpTo
    <2>3. \A n \in 1 .. m :
             f[n] = IF seq[n] \in gone THEN f[n - 1] ELSE Append(f[n - 1], seq[n])
      <3>1. SUFFICES ASSUME NEW n \in 1 .. m
                     PROVE  f[n] = IF seq[n] \in gone THEN f[n - 1]
                                   ELSE Append(f[n - 1], seq[n])
        OBVIOUS
      <3>2. n - 1 \in 0 .. m - 1 /\ f[n - 1] = g[n - 1]
        BY <1>4, <2>1
      <3>3. CASE n = m
        BY <2>1, <3>2, <3>3
      <3>4. CASE n # m
        <4>1. n \in 1 .. m - 1 /\ n \in 0 .. m - 1
          BY <1>4, <3>4
        <4> QED
          BY <1>5, <2>1, <3>2, <4>1 DEF KeptUpTo
      <3> QED
        BY <3>3, <3>4
    <2> QED
      BY <2>1, <2>2, <2>3 DEF KeptUpTo
  <1> QED
    <2> HIDE DEF f
    <2>1. \E x : KeptUpTo(x, m, seq, gone)
      BY <1>6
    <2> QED
      BY <1>2, <2>1

LEMMA WithoutIs ==
    ASSUME NEW S, NEW seq \in Seq(S), NEW gone
    PROVE  \E g : KeptUpTo(g, Len(seq), seq, gone) /\ Without(seq, gone) = g[Len(seq)]
  <1> DEFINE Body(f) ==
                 [n \in 0 .. Len(seq) |->
                     IF n = 0 THEN <<>>
                     ELSE IF seq[n] \in gone THEN f[n - 1] ELSE Append(f[n - 1], seq[n])]
             K == CHOOSE f : f = Body(f)
  <1>0. Len(seq) \in Nat
    OBVIOUS
  <1>1. PICK g : KeptUpTo(g, Len(seq), seq, gone)
    BY <1>0, KeptExists
  <1>2. \E f : f = Body(f)
    <2>0. PICK b : b = [n \in 0 .. Len(seq) |-> g[n]]
      OBVIOUS
    <2>1. DOMAIN b = 0 .. Len(seq) /\ \A n \in 0 .. Len(seq) : b[n] = g[n]
      BY <2>0
    <2>2. \A n \in 0 .. Len(seq) : Body(b)[n] = b[n]
      <3>1. SUFFICES ASSUME NEW n \in 0 .. Len(seq) PROVE Body(b)[n] = b[n]
        OBVIOUS
      <3>2. CASE n = 0
        BY <1>1, <2>1, <3>2 DEF KeptUpTo
      <3>3. CASE n # 0
        <4>1. n \in 1 .. Len(seq) /\ n - 1 \in 0 .. Len(seq)
          BY <1>0, <3>3
        <4>2. b[n] = g[n] /\ b[n - 1] = g[n - 1]
          BY <2>1, <4>1
        <4>3. g[n] = IF seq[n] \in gone THEN g[n - 1] ELSE Append(g[n - 1], seq[n])
          BY <1>1, <4>1 DEF KeptUpTo
        <4> QED
          BY <3>3, <4>2, <4>3
      <3> QED
        BY <3>2, <3>3
    <2>3. b = [n \in 0 .. Len(seq) |-> b[n]]
      BY <2>0, <2>1
    <2>4. Body(b) = [n \in 0 .. Len(seq) |-> Body(b)[n]]
      OBVIOUS
    <2>5. b = Body(b)
      <3> HIDE DEF Body
      <3> QED
        BY <2>2, <2>3, <2>4
    <2> QED
      BY <2>5
  <1>3. K = Body(K)
    <2> HIDE DEF Body
    <2> QED
      BY <1>2
  <1>4. Without(seq, gone) = K[Len(seq)]
    BY DEF Without
  <1>5. KeptUpTo(K, Len(seq), seq, gone)
    <2> HIDE DEF K
    <2>1. DOMAIN K = 0 .. Len(seq)
      BY <1>3
    <2>2. K[0] = <<>>
      BY <1>0, <1>3
    <2>3. \A n \in 1 .. Len(seq) :
             K[n] = IF seq[n] \in gone THEN K[n - 1] ELSE Append(K[n - 1], seq[n])
      <3>1. SUFFICES ASSUME NEW n \in 1 .. Len(seq)
                     PROVE  K[n] = IF seq[n] \in gone THEN K[n - 1]
                                   ELSE Append(K[n - 1], seq[n])
        OBVIOUS
      <3>2. n \in 0 .. Len(seq) /\ n # 0
        BY <1>0
      <3>3. Body(K)[n] = IF seq[n] \in gone THEN K[n - 1] ELSE Append(K[n - 1], seq[n])
        BY <3>2
      <3> HIDE DEF Body
      <3> QED
        BY <1>3, <3>3
    <2> QED
      BY <2>1, <2>2, <2>3 DEF KeptUpTo
  <1> QED
    <2> HIDE DEF K
    <2> QED
      BY <1>4, <1>5

LEMMA WithoutThins ==
    ASSUME NEW S, NEW seq \in Seq(S), NEW gone
    PROVE  /\ Without(seq, gone) \in Seq(S)
           /\ Thinned(Without(seq, gone), seq)
           /\ \A i \in 1 .. Len(Without(seq, gone)) : Without(seq, gone)[i] \notin gone
  <1>1. PICK g : KeptUpTo(g, Len(seq), seq, gone) /\ Without(seq, gone) = g[Len(seq)]
    BY WithoutIs
  <1>2. Len(seq) \in Nat /\ \A n \in 1 .. Len(seq) : seq[n] \in S
    BY ElementOfSeq
  <1> DEFINE Good(n) ==
        /\ g[n] \in Seq(S)
        /\ \A i \in 1 .. Len(g[n]) : g[n][i] \notin gone
        /\ \E h \in [1 .. Len(g[n]) -> 1 .. n] :
              /\ \A i \in 1 .. Len(g[n]) : g[n][i] = seq[h[i]]
              /\ \A i, j \in 1 .. Len(g[n]) : h[i] = h[j] => i = j
             T == {n \in 0 .. Len(seq) : ~Good(n)}
  <1>3. T = {}
    <2>1. SUFFICES ASSUME T # {} PROVE FALSE
      OBVIOUS
    <2>2. PICK m \in T : \A k \in T : m <= k
      <3>1. T \subseteq Nat
        BY <1>2
      <3> HIDE DEF T
      <3> QED
        BY <2>1, <3>1, LeastMember
    <2>3. m # 0
      <3>1. Good(0)
        <4>1. g[0] = <<>> /\ Len(<<>>) = 0 /\ <<>> \in Seq(S)
          BY <1>1 DEF KeptUpTo
        <4>2. \E h : h \in [1 .. 0 -> 1 .. 0]
          <5>1. [i \in 1 .. 0 |-> i] \in [1 .. 0 -> 1 .. 0]
            OBVIOUS
          <5> QED
            BY <5>1
        <4>3. PICK h : h \in [1 .. 0 -> 1 .. 0]
          BY <4>2
        <4>4. /\ \A i \in 1 .. 0 : g[0][i] = seq[h[i]] /\ g[0][i] \notin gone
              /\ \A i, j \in 1 .. 0 : h[i] = h[j] => i = j
          OBVIOUS
        <4>5. Len(g[0]) = 0 /\ g[0] \in Seq(S)
          BY <4>1
        <4> QED
          BY <4>3, <4>4, <4>5
      <3> HIDE DEF Good
      <3> QED
        BY <2>2, <3>1
    <2>4. m \in 1 .. Len(seq) /\ m - 1 \in 0 .. Len(seq) /\ Good(m - 1)
      <3>1. m \in 1 .. Len(seq) /\ m - 1 \in 0 .. Len(seq)
        BY <1>2, <2>2, <2>3
      <3>2. m - 1 \notin T
        <4> HIDE DEF T
        <4> QED
          BY <1>2, <2>2, <3>1
      <3> HIDE DEF Good
      <3> QED
        BY <3>1, <3>2
    <2>5. g[m] = IF seq[m] \in gone THEN g[m - 1] ELSE Append(g[m - 1], seq[m])
      BY <1>1, <2>4 DEF KeptUpTo
    <2>6. PICK p : p = g[m - 1]
      OBVIOUS
    <2>7. PICK h \in [1 .. Len(p) -> 1 .. m - 1] :
             /\ \A i \in 1 .. Len(p) : p[i] = seq[h[i]]
             /\ \A i, j \in 1 .. Len(p) : h[i] = h[j] => i = j
      BY <2>4, <2>6
    <2>8. p \in Seq(S) /\ Len(p) \in Nat /\ \A i \in 1 .. Len(p) : p[i] \notin gone
      BY <2>4, <2>6
    <2>9. CASE seq[m] \in gone
      <3>1. g[m] = p
        BY <2>5, <2>6, <2>9
      <3>2. h \in [1 .. Len(p) -> 1 .. m]
        BY <2>4
      <3>3. Good(m)
        BY <2>7, <2>8, <3>1, <3>2
      <3> HIDE DEF Good
      <3> QED
        BY <2>2, <3>3
    <2>10. CASE seq[m] \notin gone
      <3>1. PICK q : q = Append(p, seq[m])
        OBVIOUS
      <3>2. /\ q \in Seq(S) /\ Len(q) = Len(p) + 1
            /\ \A i \in 1 .. Len(p) : q[i] = p[i]
            /\ q[Len(p) + 1] = seq[m]
        BY <1>2, <2>4, <2>8, <3>1, AppendProperties
      <3>3. PICK f : f = [i \in 1 .. Len(p) + 1 |-> IF i = Len(p) + 1 THEN m ELSE h[i]]
        OBVIOUS
      <3>4. \A i \in 1 .. Len(p) + 1 : i = Len(p) + 1 \/ i \in 1 .. Len(p)
        BY <2>8
      <3>5. /\ f[Len(p) + 1] = m
            /\ \A i \in 1 .. Len(p) : f[i] = h[i] /\ f[i] \in 1 .. m - 1 /\ f[i] # m
        BY <2>7, <2>8, <3>3
      <3>6. f \in [1 .. Len(q) -> 1 .. m]
        BY <2>4, <2>8, <3>2, <3>3, <3>4, <3>5
      <3>7. \A i \in 1 .. Len(q) : q[i] = seq[f[i]] /\ q[i] \notin gone
        <4>1. SUFFICES ASSUME NEW i \in 1 .. Len(q) PROVE q[i] = seq[f[i]] /\ q[i] \notin gone
          OBVIOUS
        <4>2. CASE i = Len(p) + 1
          BY <2>10, <3>2, <3>5, <4>2
        <4>3. CASE i \in 1 .. Len(p)
          BY <2>7, <2>8, <3>2, <3>5, <4>3
        <4> QED
          BY <3>2, <3>4, <4>2, <4>3
      <3>8. \A i, j \in 1 .. Len(q) : f[i] = f[j] => i = j
        BY <2>7, <3>2, <3>4, <3>5
      <3>9. g[m] = q
        BY <2>5, <2>6, <2>10, <3>1
      <3>10. Good(m)
        BY <3>2, <3>6, <3>7, <3>8, <3>9
      <3> HIDE DEF Good
      <3> QED
        BY <2>2, <3>10
    <2> QED
      BY <2>9, <2>10
  <1>4. Good(Len(seq))
    <2> HIDE DEF Good
    <2> QED
      BY <1>2, <1>3
  <1> QED
    BY <1>1, <1>4 DEF Thinned

-----------------------------------------------------------------------------
\* What the journal's entries make of a snapshot.

LEMMA SnapshotsTyped ==
    ASSUME NEW sn \in Snapshots, NEW e \in Events
    PROVE  /\ Touched(sn) \in Snapshots
           /\ Generated(sn, e) \in Snapshots
           /\ Accepted(sn, e) \in Snapshots
           /\ DiscardRequested(sn, e) \in Snapshots
           /\ Discarded(sn) \in Snapshots
           /\ Completed(sn) \in Snapshots
           /\ MountFailed(sn, e) \in Snapshots
           /\ \A c \in BOOLEAN : AgentDone(sn, c) \in Snapshots
           /\ \A t : AgentFailed(sn, t) \in Snapshots
           /\ \A c \in Requests : c.phase # "" => Checkpointed(sn, c) \in Snapshots
  <1>0. /\ Touched(sn) \in Snapshots
        /\ {"generate_requested", "accept_requested", "discard_requested", "discarded",
            "completed", "carbonize_required", "variants_ready", "agent_error",
            "generating", "cycling"} \subseteq Phases
    BY DEF Touched, Snapshots, Phases, FencedPhases, CompletedPhases
  <1>1. PICK t : t = Touched(sn)
    OBVIOUS
  <1>2. t \in Snapshots
    BY <1>0, <1>1
  <1>3. Generated(sn, e) \in Snapshots
    BY <1>0, <1>1, <1>2 DEF Generated, Snapshots
  <1>4. Accepted(sn, e) \in Snapshots
    BY <1>0, <1>1, <1>2 DEF Accepted, Snapshots
  <1>5. DiscardRequested(sn, e) \in Snapshots
    BY <1>0, <1>1, <1>2 DEF DiscardRequested, Snapshots
  <1>6. Discarded(sn) \in Snapshots
    BY <1>0, <1>1, <1>2 DEF Discarded, Snapshots
  <1>7. Completed(sn) \in Snapshots
    BY <1>0, <1>1, <1>2 DEF Completed, Snapshots
  <1>8. MountFailed(sn, e) \in Snapshots
    BY <1>0, <1>1, <1>2 DEF MountFailed, Snapshots
  <1>9. \A c \in BOOLEAN : AgentDone(sn, c) \in Snapshots
    <2>1. PICK n \in 0 .. Count : n = Count
      BY CountAssumption
    <2>2. \A ph \in Phases : [t EXCEPT !.phase = ph, !.finished = TRUE, !.arrived = n,
                                       !.pending = None] \in Snapshots
      BY <1>2 DEF Snapshots
    <2> QED
      BY <1>0, <1>1, <1>2, <2>1, <2>2 DEF AgentDone
  <1>10. \A u : AgentFailed(sn, u) \in Snapshots
    BY <1>0, <1>1, <1>2 DEF AgentFailed, Snapshots
  <1>11. \A c \in Requests : c.phase # "" => Checkpointed(sn, c) \in Snapshots
    BY <1>0, <1>1, <1>2 DEF Checkpointed, Snapshots, Requests
  <1> QED
    BY <1>0, <1>3, <1>4, <1>5, <1>6, <1>7, <1>8, <1>9, <1>10, <1>11

-----------------------------------------------------------------------------
\* What the page makes of itself.

LEMMA NothingSavedTyped == NothingSaved \in Records
  BY CountAssumption DEF NothingSaved, Records, Known, States

LEMMA SavedTyped == ASSUME NEW p \in Pages PROVE Saved(p) \in Pages
  BY DEF Saved, Pages, Records

LEMMA CleanedTyped == ASSUME NEW p \in Pages PROVE Cleaned(p) \in Pages
  <1>1. PICK n \in Records : n = NothingSaved
    BY NothingSavedTyped
  <1>2. Cleaned(p) = [p EXCEPT !.cur = None, !.st = "PICKING", !.arrived = 0, !.file = FALSE,
                               !.stored = n]
    BY <1>1 DEF Cleaned
  <1>3. None \in Known /\ "PICKING" \in States /\ 0 \in 0 .. Count
    BY CountAssumption DEF Known, States
  <1> QED
    BY <1>2, <1>3 DEF Pages

LEMMA LetGoTyped == ASSUME NEW p \in Pages PROVE LetGo(p) \in Pages
  <1>1. [p EXCEPT !.handled = IF p.cur = None THEN @ ELSE p.cur] \in Pages
    BY DEF Pages
  <1> QED
    BY <1>1, CleanedTyped DEF LetGo

LEMMA PullingTyped ==
    ASSUME NEW p \in Pages, NEW id \in Sessions, NEW why \in {"component", "done", "orphan", "restore"}
    PROVE  Pulling(p, id, why) \in Pages
  <1>1. [id |-> id, why |-> why] \in Pulls
    BY DEF Pulls
  <1> QED
    BY <1>1 DEF Pulling, Pages

LEMMA NextRevisionTyped == ASSUME NEW p \in Pages PROVE NextRevision(p) \in Pages
  BY DEF NextRevision, Pages

LEMMA AcceptConfirmedTyped ==
    ASSUME NEW p \in Pages, NEW id \in Sessions PROVE AcceptConfirmed(p, id) \in Pages
  <1>1. LetGo(p) \in Pages
    BY LetGoTyped
  <1>2. [LetGo(p) EXCEPT !.deciding = None, !.awaiting = id] \in Pages
    BY <1>1 DEF Pages, Known
  <1> QED
    BY <1>2 DEF AcceptConfirmed

LEMMA AcceptFailedTyped ==
    ASSUME NEW p \in Pages, NEW id \in Sessions PROVE AcceptFailed(p, id) \in Pages
  BY DEF AcceptFailed, Pages, Known, States

LEMMA HearsTyped ==
    ASSUME NEW p \in Pages, NEW id \in Sessions
    PROVE  /\ HearDone(p, id) \in Pages
           /\ HearDiscarded(p, id) \in Pages
           /\ HearAccepted(p, id) \in Pages
           /\ HearError(p, id) \in Pages
  <1>1. HearDone(p, id) \in Pages
    <2>1. PICK told : told = IF p.cur = id THEN [p EXCEPT !.file = TRUE] ELSE p
      OBVIOUS
    <2>2. told \in Pages
      BY <2>1 DEF Pages
    <2>3. [told EXCEPT !.st = IF @ = "GENERATING" THEN "CYCLING" ELSE @] \in Pages
      BY <2>2 DEF Pages, States
    <2>4. Pulling(told, id, "component") \in Pages /\ Pulling(told, id, "done") \in Pages
      BY <2>2, PullingTyped
    <2> QED
      BY <2>1, <2>2, <2>3, <2>4 DEF HearDone
  <1>2. HearDiscarded(p, id) \in Pages
    BY LetGoTyped DEF HearDiscarded
  <1>3. HearAccepted(p, id) \in Pages
    <2>1. PICK told : told = [p EXCEPT !.awaiting = IF @ = id THEN None ELSE @]
      OBVIOUS
    <2>2. told \in Pages
      BY <2>1 DEF Pages, Known
    <2>3. PICK over : over = [told EXCEPT !.deciding = None]
      OBVIOUS
    <2>4. over \in Pages
      BY <2>2, <2>3 DEF Pages, Known
    <2>5. LetGo(over) \in Pages
      BY <2>4, LetGoTyped
    <2> QED
      BY <2>1, <2>2, <2>3, <2>4, <2>5 DEF HearAccepted
  <1>4. HearError(p, id) \in Pages
    <2>1. AcceptFailed(p, id) \in Pages /\ LetGo(p) \in Pages
      BY AcceptFailedTyped, LetGoTyped
    <2>2. [AcceptFailed(p, id) EXCEPT !.awaiting = None] \in Pages
      BY <2>1 DEF Pages, Known
    <2>3. [p EXCEPT !.awaiting = None] \in Pages
      BY DEF Pages, Known
    <2>4. [p EXCEPT !.st = "PICKING", !.stored = IF @.id = id THEN NothingSaved ELSE @] \in Pages
      <3>1. PICK n : n = IF p.stored.id = id THEN NothingSaved ELSE p.stored
        OBVIOUS
      <3>2. n \in Records
        BY <3>1, NothingSavedTyped DEF Pages
      <3>3. [p EXCEPT !.st = "PICKING", !.stored = n] \in Pages
        BY <3>2 DEF Pages, States
      <3> QED
        BY <3>1, <3>3
    <2> QED
      BY <2>1, <2>2, <2>3, <2>4 DEF HearError
  <1> QED
    BY <1>1, <1>2, <1>3, <1>4

LEMMA RestoredTyped ==
    ASSUME NEW p \in Pages, NEW saved \in Records, saved.id # None, NEW summaries,
           snap \in [Sessions -> Snapshots]
    PROVE  Restored(p, saved, summaries) \in Pages
  <1>1. PICK id \in Sessions : id = saved.id
    BY DEF Records, Known
  <1>2. PICK file \in BOOLEAN : file = (saved.file \/ (id \in summaries /\ snap[id].finished))
    OBVIOUS
  <1>3. PICK arrived : arrived = IF saved.arrived > 0 THEN saved.arrived
                                 ELSE IF id \in mounted /\ file THEN Count
                                 ELSE IF id \in summaries THEN snap[id].arrived ELSE 0
    OBVIOUS
  <1>4. arrived \in 0 .. Count
    BY <1>1, <1>3, CountAssumption DEF Records, Snapshots
  <1>5. PICK why : why = IF id \in mounted THEN "component"
                         ELSE IF saved.st = "CYCLING" THEN "orphan" ELSE "restore"
    OBVIOUS
  <1>6. PICK q : q = [p EXCEPT !.cur = id, !.st = "GENERATING", !.arrived = arrived, !.file = file]
    OBVIOUS
  <1>7. q \in Pages
    BY <1>1, <1>2, <1>4, <1>6 DEF Pages, Known, States
  <1>8. Saved(q) \in Pages
    BY <1>7, SavedTyped
  <1>9. Pulling(Saved(q), id, why) \in Pages
    BY <1>5, <1>8, PullingTyped
  <1>10. Restored(p, saved, summaries) = IF file THEN Pulling(Saved(q), id, why) ELSE Saved(q)
    BY <1>1, <1>2, <1>3, <1>5, <1>6 DEF Restored
  <1> QED
    BY <1>8, <1>9, <1>10

LEMMA CaughtUpTyped ==
    ASSUME NEW p \in Pages, NEW summaries \in SUBSET Sessions
    PROVE  CaughtUp(p, summaries) \in Pages
  <1>1. [p EXCEPT !.file = TRUE] \in Pages
    BY DEF Pages
  <1>2. CASE p.cur \in summaries
    <2>1. p.cur \in Sessions
      BY <1>2
    <2>2. \A w \in {"component", "done"} : Pulling([p EXCEPT !.file = TRUE], p.cur, w) \in Pages
      BY <1>1, <2>1, PullingTyped
    <2> QED
      BY <2>2 DEF CaughtUp
  <1>3. CASE p.cur \notin summaries
    BY <1>3 DEF CaughtUp
  <1> QED
    BY <1>2, <1>3

LEMMA AdoptedTyped ==
    ASSUME NEW p \in Pages, NEW summaries \in SUBSET Sessions, snap \in [Sessions -> Snapshots]
    PROVE  \A r \in Adopted(p, summaries) : r \in Records /\ r.id # None
  <1>1. \A id \in Sessions : AdoptionOf(id) \in Records /\ AdoptionOf(id).id # None
    BY SessionsAssumption DEF AdoptionOf, Records, Snapshots, Known, States
  <1> QED
    BY <1>1 DEF Adopted

LEMMA ReloadedTyped ==
    ASSUME page \in Pages PROVE Reloaded \in Pages
  <1>1. FreshPage \in Pages
    BY NothingSavedTyped, CountAssumption DEF FreshPage, Pages, Known, States
  <1> QED
    BY <1>1 DEF Reloaded, Pages

LEMMA ResumedTyped ==
    ASSUME page \in Pages, source \in [Sessions -> 0 .. Count], NEW id \in Sessions
    PROVE  ResumedFromWrapper(id) \in Pages
  <1>1. Reloaded \in Pages
    BY ReloadedTyped
  <1> QED
    BY <1>1 DEF ResumedFromWrapper, Pages, Known, States

LEMMA RequestTyped ==
    ASSUME page \in Pages,
           NEW k \in {"generate", "checkpoint", "accept", "discard", "variant_mount_failed"},
           NEW id \in Sessions
    PROVE  Request(k, id) \in Requests
  <1>1. PICK g \in BOOLEAN : g = (CreationUnderWay /\ k # "generate")
    OBVIOUS
  <1> QED
    BY <1>1, CountAssumption DEF Request, Requests, Pages

LEMMA CheckpointOfTyped ==
    ASSUME page \in Pages, NEW p \in Pages, p.cur # None
    PROVE  /\ CheckpointOf(p) \in Requests
           /\ CheckpointOf(p).phase # ""
           /\ CheckpointOf(p).kind = "checkpoint"
           /\ CheckpointOf(p).id = p.cur
           /\ CheckpointOf(p).arrived = p.arrived
  <1>1. p.cur \in Sessions
    BY DEF Pages, Known
  <1>2. PICK q : q = Request("checkpoint", p.cur)
    OBVIOUS
  <1>3. q \in Requests /\ q.kind = "checkpoint" /\ q.id = p.cur
    BY <1>1, <1>2, RequestTyped DEF Request
  <1>4. CheckpointOf(p) = [q EXCEPT !.phase = IF p.st = "CYCLING" THEN "cycling" ELSE "generating",
                                    !.arrived = p.arrived, !.rev = p.rev]
    BY <1>2 DEF CheckpointOf
  <1> QED
    BY <1>3, <1>4 DEF Requests, Pages

-----------------------------------------------------------------------------
\* The queue.

LEMMA EventOfTyped ==
    ASSUME NEW t \in {"generate", "accept", "discard", "variant_mount_failed"},
           NEW id \in Sessions, NEW v \in 0 .. Count
    PROVE  EventOf(t, id, v) \in Events
  BY DEF EventOf, Events

LEMMA EnqueuedIs ==
    ASSUME NEW q \in Seq(Entries), NEW e \in Events
    PROVE  /\ Enqueued(q, e) \in Seq(Entries)
           /\ \A i \in 1 .. Len(q) : i \in 1 .. Len(Enqueued(q, e)) /\ Enqueued(q, e)[i] = q[i]
           /\ \/ Len(Enqueued(q, e)) = Len(q)
              \/ /\ Len(Enqueued(q, e)) = Len(q) + 1
                 /\ Enqueued(q, e)[Len(q) + 1] = [ev |-> e, leased |-> FALSE]
                 /\ \A i \in 1 .. Len(q) : ~SameEvent(q[i].ev, e)
  <1>1. PICK x : x = [ev |-> e, leased |-> FALSE]
    OBVIOUS
  <1>2. x \in Entries
    BY <1>1 DEF Entries
  <1>3. CASE \E i \in DOMAIN q : SameEvent(q[i].ev, e)
    BY <1>3 DEF Enqueued
  <1>4. CASE ~\E i \in DOMAIN q : SameEvent(q[i].ev, e)
    <2>1. Enqueued(q, e) = Append(q, x)
      BY <1>1, <1>4 DEF Enqueued
    <2>2. \A i \in 1 .. Len(q) : i \in 1 .. Len(q) + 1
      OBVIOUS
    <2> QED
      BY <1>1, <1>2, <1>4, <2>1, <2>2, AppendProperties
  <1> QED
    BY <1>3, <1>4

LEMMA RetiredIs ==
    ASSUME NEW q \in Seq(Entries), NEW id
    PROVE  /\ Retired(q, id) \in Seq(Entries)
           /\ Thinned(Retired(q, id), q)
           /\ \A i \in 1 .. Len(Retired(q, id)) :
                 ~(Retired(q, id)[i].ev.id = id /\ Retired(q, id)[i].ev.type = "generate")
  <1> DEFINE gone == {q[i] : i \in {j \in DOMAIN q : q[j].ev.id = id /\ q[j].ev.type = "generate"}}
  <1>1. PICK r : r = Retired(q, id)
    OBVIOUS
  <1>2. r = Without(q, gone)
    BY <1>1 DEF Retired
  <1>3. r \in Seq(Entries) /\ Thinned(r, q) /\ \A i \in 1 .. Len(r) : r[i] \notin gone
    <2> HIDE DEF gone
    <2> QED
      BY <1>2, WithoutThins
  <1>4. \A i \in 1 .. Len(r) : ~(r[i].ev.id = id /\ r[i].ev.type = "generate")
    BY <1>3 DEF Thinned
  <1> QED
    BY <1>1, <1>3, <1>4

\* What the agents have in hand, and the queue, after free entries of q were
\* handed out to some of them: served tells which.
Handing(q, ags, q2, ags2, served) ==
    /\ q2 \in Seq(Entries) /\ Len(q2) = Len(q)
    /\ \A i \in 1 .. Len(q) : q2[i].ev = q[i].ev /\ (q[i].leased => q2[i].leased)
    /\ ags2 \in [Agents -> Hands]
    /\ \A a \in Agents :
          \/ served[a] = 0 /\ ags2[a] = ags[a]
          \/ /\ served[a] \in 1 .. Len(q) /\ ~q[served[a]].leased
             /\ ags2[a] = Handed(q[served[a]].ev) /\ q2[served[a]].leased
    /\ \A a, b \in Agents : served[a] = served[b] /\ served[a] # 0 => a = b

HandedOut(q, ags, q2, ags2) == \E served : Handing(q, ags, q2, ags2, served)

LEMMA HandedTyped ==
    ASSUME NEW e \in Events
    PROVE  /\ Handed(e) \in Hands /\ Handed(e).ev = e /\ Handed(e).ev # None
           /\ Handed(e).at = IF e.type = "generate" /\ ~e.ready THEN "scaffolding" ELSE "holding"
  BY SessionsAssumption DEF Handed, Hands, Places

LEMMA LeasedIs ==
    ASSUME NEW q \in Seq(Entries), NEW given
    PROVE  /\ Leased(q, given) \in Seq(Entries) /\ Len(Leased(q, given)) = Len(q)
           /\ \A i \in 1 .. Len(q) :
                 /\ Leased(q, given)[i].ev = q[i].ev
                 /\ Leased(q, given)[i].leased = (q[i].leased \/ i \in given)
  <1>1. PICK r : r = Leased(q, given)
    OBVIOUS
  <1>2. Len(q) \in Nat /\ DOMAIN q = 1 .. Len(q) /\ \A i \in 1 .. Len(q) : q[i] \in Entries
    BY ElementOfSeq
  <1>3. r = [i \in 1 .. Len(q) |-> [q[i] EXCEPT !.leased = @ \/ i \in given]]
    BY <1>1, <1>2 DEF Leased
  <1>4. \A i \in 1 .. Len(q) :
           /\ r[i] \in Entries /\ r[i].ev = q[i].ev
           /\ r[i].leased = (q[i].leased \/ i \in given)
    BY <1>2, <1>3 DEF Entries
  <1>5. r \in Seq(Entries) /\ Len(r) = Len(q)
    <2>1. r \in [1 .. Len(q) -> Entries]
      BY <1>3, <1>4
    <2> QED
      BY <1>2, <1>3, <2>1, SeqDef
  <1> QED
    BY <1>1, <1>4, <1>5

LEMMA FlushHandsOut ==
    ASSUME NEW q \in Seq(Entries), NEW ags \in [Agents -> Hands], parked \in Seq(Agents),
           Flush(q, ags)
    PROVE  HandedOut(q, ags, queue', agent') /\ parked' \in Seq(Agents)
  <1>1. PICK given : given = {i \in Available(q) : Rank(q, i) <= Len(parked)}
    OBVIOUS
  <1>2. PICK For : For = [a \in Agents |-> {i \in given : parked[Rank(q, i)] = a}]
    OBVIOUS
  <1>3. PICK served : served = [a \in Agents |-> IF For[a] # {} THEN CHOOSE i \in For[a] : TRUE ELSE 0]
    OBVIOUS
  <1>4. Len(q) \in Nat /\ DOMAIN q = 1 .. Len(q) /\ \A i \in 1 .. Len(q) : q[i] \in Entries
    BY ElementOfSeq
  <1>5. given \subseteq 1 .. Len(q) /\ \A i \in given : ~q[i].leased
    BY <1>1, <1>4 DEF Available
  <1>6. /\ queue' = Leased(q, given)
        /\ parked' = SubSeq(parked, Cardinality(given) + 1, Len(parked))
        /\ agent' = [a \in Agents |-> IF For[a] # {} THEN Handed(q[CHOOSE i \in For[a] : TRUE].ev)
                                      ELSE ags[a]]
    BY <1>1, <1>2 DEF Flush
  <1>7. \A a \in Agents :
           \/ For[a] = {} /\ served[a] = 0 /\ agent'[a] = ags[a]
           \/ /\ served[a] \in given /\ parked[Rank(q, served[a])] = a
              /\ agent'[a] = Handed(q[served[a]].ev)
    <2>1. SUFFICES ASSUME NEW a \in Agents
                   PROVE  \/ For[a] = {} /\ served[a] = 0 /\ agent'[a] = ags[a]
                          \/ /\ served[a] \in given /\ parked[Rank(q, served[a])] = a
                             /\ agent'[a] = Handed(q[served[a]].ev)
      OBVIOUS
    <2>2. CASE For[a] = {}
      BY <1>3, <1>6, <2>2
    <2>3. CASE For[a] # {}
      <3>1. (CHOOSE i \in For[a] : TRUE) \in For[a]
        BY <2>3
      <3>2. served[a] \in For[a] /\ agent'[a] = Handed(q[served[a]].ev)
        BY <1>3, <1>6, <2>3, <3>1
      <3> QED
        BY <1>2, <3>2
    <2> QED
      BY <2>2, <2>3
  <1>8. /\ queue' \in Seq(Entries) /\ Len(queue') = Len(q)
        /\ \A i \in 1 .. Len(q) : queue'[i].ev = q[i].ev /\ queue'[i].leased = (q[i].leased \/ i \in given)
    BY <1>6, LeasedIs
  <1>9. agent' \in [Agents -> Hands]
    <2>1. \A a \in Agents : agent'[a] \in Hands
      <3>1. SUFFICES ASSUME NEW a \in Agents PROVE agent'[a] \in Hands
        OBVIOUS
      <3>2. CASE agent'[a] = ags[a]
        BY <3>2
      <3>3. CASE served[a] \in given /\ agent'[a] = Handed(q[served[a]].ev)
        <4>1. q[served[a]].ev \in Events
          BY <1>4, <1>5, <3>3 DEF Entries
        <4> QED
          BY <3>3, <4>1, HandedTyped
      <3> QED
        BY <1>7, <3>2, <3>3
    <2>2. DOMAIN agent' = Agents /\ agent' = [a \in Agents |-> agent'[a]]
      BY <1>6
    <2> QED
      BY <2>1, <2>2
  <1>10. \A a, b \in Agents : served[a] = served[b] /\ served[a] # 0 => a = b
    BY <1>5, <1>7
  <1>11. Handing(q, ags, queue', agent', served)
    <2>1. \A i \in 1 .. Len(q) : queue'[i].ev = q[i].ev /\ (q[i].leased => queue'[i].leased)
      BY <1>8
    <2>2. \A a \in Agents :
            \/ served[a] = 0 /\ agent'[a] = ags[a]
            \/ /\ served[a] \in 1 .. Len(q) /\ ~q[served[a]].leased
               /\ agent'[a] = Handed(q[served[a]].ev) /\ queue'[served[a]].leased
      BY <1>5, <1>7, <1>8
    <2> QED
      BY <1>8, <1>9, <1>10, <2>1, <2>2 DEF Handing
  <1>12. parked' \in Seq(Agents)
    <2>1. Cardinality(given) \in Nat
      <3>1. IsFiniteSet(1 .. Len(q))
        BY <1>4, FS_Interval
      <3>2. IsFiniteSet(given)
        BY <1>5, <3>1, FS_Subset
      <3> QED
        BY <3>2, FS_CardinalityType
    <2>2. \A i \in Cardinality(given) + 1 .. Len(parked) : parked[i] \in Agents
      BY <2>1, ElementOfSeq
    <2>3. Len(parked) \in Int /\ Cardinality(given) + 1 \in Int
      BY <2>1
    <2> QED
      BY <1>6, <2>2, <2>3, SubSeqProperties
  <1> QED
    BY <1>11, <1>12 DEF HandedOut

\* Flush, with the types of everything it changes.
LEMMA FlushTyped ==
    ASSUME NEW q \in Seq(Entries), NEW ags \in [Agents -> Hands], \A a \in Agents : Sound(ags[a]),
           parked \in Seq(Agents), Flush(q, ags)
    PROVE  /\ HandedOut(q, ags, queue', agent')
           /\ queue' \in Seq(Entries) /\ parked' \in Seq(Agents)
           /\ agent' \in [Agents -> Hands] /\ \A a \in Agents : Sound(agent'[a])
  <1>1. HandedOut(q, ags, queue', agent') /\ parked' \in Seq(Agents)
    BY FlushHandsOut
  <1>2. PICK served : Handing(q, ags, queue', agent', served)
    BY <1>1 DEF HandedOut
  <1>3. queue' \in Seq(Entries) /\ agent' \in [Agents -> Hands]
    BY <1>2 DEF Handing
  <1>4. \A a \in Agents : Sound(agent'[a])
    <2>1. SUFFICES ASSUME NEW a \in Agents PROVE Sound(agent'[a])
      OBVIOUS
    <2>2. CASE agent'[a] = ags[a]
      BY <2>2
    <2>3. CASE served[a] \in 1 .. Len(q) /\ agent'[a] = Handed(q[served[a]].ev)
      <3>0. PICK k \in 1 .. Len(q) : k = served[a]
        BY <2>3
      <3>1. q[k] \in Entries
        BY ElementOfSeq
      <3>2. q[served[a]].ev \in Events
        BY <3>0, <3>1 DEF Entries
      <3> QED
        BY <2>3, <3>2, HandedTyped DEF Sound
    <2> QED
      BY <1>2, <2>2, <2>3 DEF Handing
  <1> QED
    BY <1>1, <1>3, <1>4

LEMMA JournalTyped ==
    ASSUME snap \in [Sessions -> Snapshots], NEW id \in Sessions, NEW sn \in Snapshots,
           Journal(id, sn)
    PROVE  /\ snap' \in [Sessions -> Snapshots] /\ snap'[id] = sn
           /\ \A s \in Sessions : s # id => snap'[s] = snap[s]
  BY DEF Journal

\* What is left of the queue when a reply has acknowledged an entry of it.
LEMMA AnswerThins ==
    ASSUME queue \in Seq(Entries), NEW id, NEW type, Answerable(queue, id, type) # {}
    PROVE  /\ RemoveAt(queue, FirstOf(Answerable(queue, id, type))) \in Seq(Entries)
           /\ Thinned(RemoveAt(queue, FirstOf(Answerable(queue, id, type))), queue)
  <1>1. PICK hits : hits = Answerable(queue, id, type)
    OBVIOUS
  <1>2. hits \subseteq 1 .. Len(queue) /\ Len(queue) \in Nat
    <2>1. DOMAIN queue = 1 .. Len(queue) /\ Len(queue) \in Nat
      BY LenProperties
    <2> QED
      BY <1>1, <2>1 DEF Answerable
  <1>3. \E i \in hits : \A j \in hits : i <= j
    <2>1. hits \subseteq Nat
      BY <1>2
    <2> QED
      BY <1>1, <2>1, LeastMember
  <1>4. PICK k : k = FirstOf(hits)
    OBVIOUS
  <1>5. k \in 1 .. Len(queue)
    BY <1>2, <1>3, <1>4 DEF FirstOf
  <1> QED
    BY <1>1, <1>4, <1>5, RemoveAtThins

LEMMA BouncedThins ==
    ASSUME Typed, NEW a \in Agents, Bounced(a)
    PROVE  queue' \in Seq(Entries) /\ Thinned(queue', queue)
  <1>1. PICK id, type : /\ Answerable(queue, id, type) # {}
                        /\ queue' = RemoveAt(queue, FirstOf(Answerable(queue, id, type)))
    BY DEF Bounced
  <1> QED
    BY <1>1, AnswerThins DEF Typed

\* What a reply does, whatever it says: the journal of its session and the
\* queue, what the agents have in hand, and the page.
ReplyJournals(a, reply, carbonize, next) ==
    \E acked : \E sn \in Snapshots, rest \in Seq(Entries) :
        /\ snap' = [snap EXCEPT ![agent[a].ev.id] = sn]
        /\ \/ sn = snap[agent[a].ev.id]
           \/ sn = JournalOf(reply, snap[agent[a].ev.id], acked, carbonize)
        /\ Thinned(rest, queue)
        /\ Flush(rest, [agent EXCEPT ![a] = next])
        /\ HandedOut(rest, [agent EXCEPT ![a] = next], queue', agent')
        /\ strayed' = IF (reply = "error" \/ carbonize)
                         /\ TypesQueued(rest, agent[a].ev.id) \intersect Decisions # {}
                      THEN strayed \union {agent[a].ev.id} ELSE strayed

ReplyAnnounces(a, reply, carbonize) ==
    /\ page' = (IF page.conn THEN PageOf(reply, agent[a].ev.id, carbonize) ELSE page)
    /\ misled' = IF /\ reply = "error" /\ page.conn
                    /\ page.deciding = agent[a].ev.id
                    /\ page.cur \notin {agent[a].ev.id, None}
                 THEN misled \union {page.cur} ELSE misled
    /\ up /\ UNCHANGED <<up, net, mounted, relet, dropped, unclean>>

LEMMA ReplyIs ==
    ASSUME Typed, NEW a \in Agents, agent[a].ev # None,
           NEW reply \in {"done", "agent_done", "error", "complete", "discarded"}, NEW named,
           NEW carbonize \in BOOLEAN, NEW next \in Hands, Sound(next),
           Reply(a, reply, named, carbonize, next)
    PROVE  /\ agent[a].ev \in Events /\ agent[a].ev.id \in Sessions
           /\ ReplyJournals(a, reply, carbonize, next)
           /\ ReplyAnnounces(a, reply, carbonize)
  <1> DEFINE id    == agent[a].ev.id
             type  == IF named # None THEN named ELSE Inferred(queue, id, reply)
             hits  == Answerable(queue, id, type)
             acked == IF hits = {} THEN None ELSE queue[FirstOf(hits)].ev.type
             rest  == IF hits = {} THEN queue ELSE RemoveAt(queue, FirstOf(hits))
             over  == hits = {} /\ snap[id].phase \in CompletedPhases
             ags   == [agent EXCEPT ![a] = next]
  <1>1. agent[a].ev \in Events /\ id \in Sessions
    BY DEF Typed, Hands, Events
  <1>2. rest \in Seq(Entries) /\ Thinned(rest, queue)
    <2>1. CASE hits = {}
      BY <2>1, ThinnedSelf DEF Typed
    <2>2. CASE hits # {}
      <3> HIDE DEF hits
      <3>1. PICK t : t = type
        OBVIOUS
      <3>2. PICK i : i = id
        OBVIOUS
      <3>3. hits = Answerable(queue, i, t)
        BY <3>1, <3>2 DEF hits
      <3>4. queue \in Seq(Entries)
        BY DEF Typed
      <3> HIDE DEF type, id
      <3> QED
        BY <2>2, <3>3, <3>4, AnswerThins
    <2> QED
      BY <2>1, <2>2
  <1>3. /\ up
        /\ Journal(id, IF over THEN snap[id] ELSE JournalOf(reply, snap[id], acked, carbonize))
        /\ Flush(rest, ags)
        /\ Announced(PageOf(reply, id, carbonize))
        /\ strayed' = IF (reply = "error" \/ carbonize)
                         /\ TypesQueued(rest, id) \intersect Decisions # {}
                      THEN strayed \union {id} ELSE strayed
        /\ IF reply = "error" /\ page.conn /\ page.deciding = id
           THEN Misleads(id) ELSE UNCHANGED misled
        /\ UNCHANGED <<up, net, mounted, relet, dropped, unclean>>
    BY DEF Reply
  <1>4. PICK ak : ak = acked
    OBVIOUS
  <1>5. PICK r : r = rest
    OBVIOUS
  <1>6. PICK i : i = id
    OBVIOUS
  <1>7. PICK sn : sn = IF over THEN snap[id] ELSE JournalOf(reply, snap[id], ak, carbonize)
    OBVIOUS
  <1>8. snap' = [snap EXCEPT ![i] = sn]
    BY <1>3, <1>4, <1>6, <1>7 DEF Journal
  <1>9. PICK g : g = ags
    OBVIOUS
  <1>10. g \in [Agents -> Hands] /\ \A b \in Agents : Sound(g[b])
    BY <1>9 DEF Typed
  <1>11. sn = snap[i] \/ sn = JournalOf(reply, snap[i], ak, carbonize)
    BY <1>6, <1>7
  <1>12. sn \in Snapshots
    <2>1. snap[i] \in Snapshots
      BY <1>1, <1>6 DEF Typed
    <2>2. JournalOf(reply, snap[i], ak, carbonize) \in Snapshots
      <3>1. PICK x \in Snapshots : x = snap[i]
        BY <2>1
      <3>2. PICK e \in Events : e = agent[a].ev
        BY <1>1
      <3>3. JournalOf(reply, x, ak, carbonize) \in Snapshots
        BY SnapshotsTyped, <3>2 DEF JournalOf
      <3> QED
        BY <3>1, <3>3
    <2> QED
      BY <1>11, <2>1, <2>2
  <1>13. Flush(r, g) /\ r \in Seq(Entries) /\ Thinned(r, queue)
    BY <1>2, <1>3, <1>5, <1>9
  <1>14. HandedOut(r, g, queue', agent')
    BY <1>10, <1>13, FlushTyped DEF Typed
  <1>15. strayed' = IF (reply = "error" \/ carbonize)
                       /\ TypesQueued(r, i) \intersect Decisions # {}
                    THEN strayed \union {i} ELSE strayed
    BY <1>3, <1>5, <1>6
  <1>16. page' = (IF page.conn THEN PageOf(reply, i, carbonize) ELSE page)
    BY <1>3, <1>6 DEF Announced
  <1>17. misled' = IF /\ reply = "error" /\ page.conn /\ page.deciding = i
                      /\ page.cur \notin {i, None}
                   THEN misled \union {page.cur} ELSE misled
    BY <1>3, <1>6 DEF Misleads
  <1>18. g = [agent EXCEPT ![a] = next] /\ i = agent[a].ev.id
    BY <1>6, <1>9
  <1>19. UNCHANGED <<up, net, mounted, relet, dropped, unclean>> /\ up
    BY <1>3
  <1> HIDE DEF id, rest, ags, acked
  <1>20. ReplyJournals(a, reply, carbonize, next)
    BY <1>8, <1>11, <1>12, <1>13, <1>14, <1>15, <1>18 DEF ReplyJournals
  <1>21. ReplyAnnounces(a, reply, carbonize)
    BY <1>16, <1>17, <1>18, <1>19 DEF ReplyAnnounces
  <1> QED
    BY <1>1, <1>6, <1>18, <1>20, <1>21

-----------------------------------------------------------------------------
(***************************************************************************)
(* Everything keeps its type.                                              *)
(***************************************************************************)
LEMMA TypedInit == Init => Typed
  <1>1. BlankSnapshot \in Snapshots
    BY CountAssumption DEF BlankSnapshot, Snapshots, Phases, FencedPhases
  <1>2. FreshPage \in Pages
    BY NothingSavedTyped, CountAssumption DEF FreshPage, Pages, Known, States
  <1>3. [FreshPage EXCEPT !.conn = TRUE] \in Pages
    BY <1>2 DEF Pages
  <1>4. Idle \in Hands /\ Sound(Idle)
    BY DEF Idle, Hands, Places, Sound
  <1>5. <<>> \in Seq(Entries) /\ <<>> \in Seq(Agents)
    BY EmptySeq
  <1> QED
    BY <1>1, <1>3, <1>4, <1>5, CountAssumption, BoundsAssumption DEF Init, Typed

\* The steps of the page change the page and its requests.
PageTyped == page \in Pages /\ net \subseteq Requests /\ \A r \in net : r.kind = "checkpoint" => r.phase # ""

LEMMA FaultTyped ==
    ASSUME faults \in 0 .. MaxFaults, NEW kind, Fault(kind) PROVE faults' \in 0 .. MaxFaults
  <1>1. MaxFaults \in Nat
    BY BoundsAssumption
  <1> QED
    BY <1>1 DEF Fault

\* The page of a session just begun.
LEMMA GoPage ==
    ASSUME Typed, NEW s \in Sessions, NEW q, NEW p,
           q = [page EXCEPT !.cur = s, !.st = "GENERATING", !.arrived = 0, !.file = FALSE,
                            !.deciding = None, !.awaiting = None],
           p = NextRevision(Saved(q))
    PROVE  q \in Pages /\ p \in Pages /\ p.cur = s
  <1>1. page \in Pages
    BY DEF Typed
  <1>2. 0 \in 0 .. Count /\ s \in Known /\ None \in Known /\ "GENERATING" \in States
    BY CountAssumption DEF Known, States
  <1>3. q \in Pages /\ q.cur = s
    BY <1>1, <1>2 DEF Pages
  <1>4. Saved(q) \in Pages /\ Saved(q).cur = s
    <2>1. q \in Pages
      BY <1>3
    <2>2. Saved(q).cur = q.cur
      BY <2>1 DEF Saved, Pages
    <2> QED
      BY <1>3, <2>2, SavedTyped
  <1>5. p.cur = Saved(q).cur
    BY <1>4 DEF NextRevision, Pages
  <1> QED
    BY <1>3, <1>4, <1>5, NextRevisionTyped

LEMMA GoTyped ==
    ASSUME Typed, NEW s \in Sessions, NEW annotated \in BOOLEAN, Go(s, annotated)
    PROVE  Typed'
  <1>1. PICK q : q = [page EXCEPT !.cur = s, !.st = "GENERATING", !.arrived = 0, !.file = FALSE,
                                  !.deciding = None, !.awaiting = None]
    OBVIOUS
  <1>3. PICK p : p = NextRevision(Saved(q))
    OBVIOUS
  <1>4. p \in Pages /\ p.cur = s
    BY <1>1, <1>3, GoPage
  <1>5. [p EXCEPT !.capture = IF annotated THEN s ELSE None] \in Pages
    BY <1>4 DEF Pages, Known
  <1>6. CheckpointOf(p) \in Requests /\ CheckpointOf(p).phase # ""
    BY <1>4, CheckpointOfTyped, SessionsAssumption DEF Typed
  <1>7. Request("generate", s) \in Requests /\ Request("generate", s).kind = "generate"
    BY RequestTyped DEF Typed, Request
  <1>8. page' = [p EXCEPT !.capture = IF annotated THEN s ELSE None]
    BY <1>1, <1>3 DEF Go
  <1>9. net' = net \union {CheckpointOf(p)} \union (IF annotated THEN {} ELSE {Request("generate", s)})
    BY <1>1, <1>3 DEF Go, Sends
  <1>10. PageTyped'
    BY <1>5, <1>6, <1>7, <1>8, <1>9 DEF PageTyped, Typed
  <1> QED
    BY <1>10 DEF PageTyped, Typed, Go, serverVars, workVars, history

LEMMA CaptureDoneTyped == ASSUME Typed, CaptureDone PROVE Typed'
  <1>1. page.capture \in Sessions
    BY DEF CaptureDone, Typed, Pages, Known
  <1>2. Request("generate", page.capture) \in Requests
        /\ Request("generate", page.capture).kind = "generate"
    BY <1>1, RequestTyped DEF Typed, Request
  <1>3. [page EXCEPT !.capture = None] \in Pages
    BY DEF Typed, Pages, Known
  <1>4. PageTyped'
    BY <1>2, <1>3 DEF PageTyped, Typed, CaptureDone, Sends
  <1> QED
    BY <1>4 DEF PageTyped, Typed, CaptureDone, serverVars, workVars, history

LEMMA AcceptTyped == ASSUME Typed, Accept PROVE Typed'
  <1>1. page.cur \in Sessions
    BY DEF Accept, Typed, Pages, Known
  <1>2. Request("accept", page.cur) \in Requests /\ Request("accept", page.cur).kind = "accept"
    BY <1>1, RequestTyped DEF Typed, Request
  <1>3. [page EXCEPT !.st = "SAVING", !.deciding = page.cur] \in Pages
    BY DEF Typed, Pages, Known, States
  <1>4. PageTyped'
    BY <1>2, <1>3, SavedTyped DEF PageTyped, Typed, Accept, Sends
  <1> QED
    BY <1>4 DEF PageTyped, Typed, Accept, serverVars, workVars, history

LEMMA DiscardTyped == ASSUME Typed, Discard PROVE Typed'
  <1>1. page.cur \in Sessions
    BY DEF Discard, Typed, Pages, Known
  <1>2. Request("discard", page.cur) \in Requests /\ Request("discard", page.cur).kind = "discard"
    BY <1>1, RequestTyped DEF Typed, Request
  <1>3. PageTyped'
    BY <1>2 DEF PageTyped, Typed, Discard, Sends
  <1> QED
    BY <1>3 DEF PageTyped, Typed, Discard, serverVars, workVars, history

LEMMA ObserveTyped == ASSUME Typed, Observe PROVE Typed'
  <1>1. page.cur \in Sessions
    BY DEF Observe, Typed, Pages, Known
  <1>2. PICK q : q = [page EXCEPT !.arrived = source[page.cur], !.st = "CYCLING"]
    OBVIOUS
  <1>3. q \in Pages /\ q.cur # None
    BY <1>1, <1>2, SessionsAssumption DEF Typed, Pages, States
  <1>4. PICK p : p = NextRevision(Saved(q))
    OBVIOUS
  <1>5. p \in Pages /\ p.cur # None
    BY <1>3, <1>4, SavedTyped, NextRevisionTyped DEF Saved, NextRevision, Pages
  <1>6. CheckpointOf(p) \in Requests /\ CheckpointOf(p).phase # ""
    BY <1>5, CheckpointOfTyped DEF Typed
  <1>7. page' = p /\ net' = net \union {CheckpointOf(p)}
    BY <1>2, <1>4 DEF Observe, Sends
  <1>8. PageTyped'
    BY <1>5, <1>6, <1>7 DEF PageTyped, Typed
  <1> QED
    BY <1>8 DEF PageTyped, Typed, Observe, serverVars, workVars, history

LEMMA RetryTyped == ASSUME Typed, Retry PROVE Typed'
  <1>1. page.cur \in Sessions
    BY DEF Retry, Typed
  <1>2. page' \in Pages
    BY <1>1, PullingTyped DEF Retry, Typed
  <1> QED
    BY <1>2 DEF Typed, Retry, serverVars, workVars, history

LEMMA InjectTyped == ASSUME Typed, NEW pl \in page.pulls, Inject(pl) PROVE Typed'
  <1>1. pl \in Pulls /\ pl.id \in Sessions
    BY DEF Typed, Pages, Pulls
  <1>2. PICK p : p = [page EXCEPT !.pulls = @ \ {pl}]
    OBVIOUS
  <1>3. p \in Pages /\ LetGo(p) \in Pages
    <2>1. p \in Pages
      BY <1>2 DEF Typed, Pages
    <2> QED
      BY <2>1, LetGoTyped
  <1>4. PICK d : d = [Request("discard", pl.id) EXCEPT !.orphaned = TRUE]
    OBVIOUS
  <1>5. PICK r0 : r0 = Request("discard", pl.id)
    OBVIOUS
  <1>6. r0 \in Requests /\ r0.kind = "discard"
    BY <1>1, <1>5, RequestTyped DEF Typed, Request
  <1>7. d \in Requests /\ d.kind = "discard"
    BY <1>4, <1>5, <1>6 DEF Requests
  <1>8. Saved([p EXCEPT !.arrived = source[pl.id], !.st = "CYCLING"]) \in Pages
    <2>1. [p EXCEPT !.arrived = source[pl.id], !.st = "CYCLING"] \in Pages
      BY <1>1, <1>3 DEF Typed, Pages, States
    <2> QED
      BY <2>1, SavedTyped
  <1>9. \/ /\ page' = Saved([p EXCEPT !.arrived = source[pl.id], !.st = "CYCLING"]) /\ net' = net
        \/ page' = LetGo(p) /\ net' = net \union {d}
        \/ page' = p /\ net' = net
    BY <1>2, <1>4 DEF Inject, Sends
  <1>10. PageTyped'
    BY <1>3, <1>7, <1>8, <1>9 DEF PageTyped, Typed
  <1> QED
    BY <1>10 DEF PageTyped, Typed, Inject, serverVars, workVars, history

LEMMA MountTyped == ASSUME Typed, NEW pl \in page.pulls, Mount(pl) PROVE Typed'
  <1>1. PICK n \in 0 .. Count : n = Count
    BY CountAssumption
  <1>2. [page EXCEPT !.pulls = @ \ {pl}, !.arrived = n, !.st = "CYCLING", !.file = TRUE] \in Pages
    BY DEF Typed, Pages, States
  <1>3. page' \in Pages
    BY <1>1, <1>2, SavedTyped DEF Mount
  <1> QED
    BY <1>3 DEF Typed, Mount, serverVars, workVars, history

LEMMA MountRequestTyped ==
    ASSUME page \in Pages, NEW id \in Sessions, NEW v \in 1 .. Count
    PROVE  /\ [Request("variant_mount_failed", id) EXCEPT !.variant = v] \in Requests
           /\ [Request("variant_mount_failed", id) EXCEPT !.variant = v].kind = "variant_mount_failed"
           /\ [Request("variant_mount_failed", id) EXCEPT !.variant = v].id = id
  <1>1. PICK r : r = Request("variant_mount_failed", id)
    OBVIOUS
  <1>2. r \in Requests /\ r.kind = "variant_mount_failed" /\ r.id = id
    BY <1>1, RequestTyped DEF Request
  <1>3. v \in 0 .. Count
    BY CountAssumption
  <1> QED
    BY <1>1, <1>2, <1>3 DEF Requests

LEMMA MountFailsTyped ==
    ASSUME Typed, NEW pl \in page.pulls, NEW v \in 1 .. Count, MountFails(pl, v)
    PROVE  Typed'
  <1>1. pl \in Pulls /\ pl.id \in Sessions
    BY DEF Typed, Pages, Pulls
  <1>2. PICK r : r = [Request("variant_mount_failed", pl.id) EXCEPT !.variant = v]
    OBVIOUS
  <1>3. r \in Requests /\ r.kind = "variant_mount_failed"
    BY <1>1, <1>2, MountRequestTyped DEF Typed
  <1>4. [page EXCEPT !.pulls = @ \ {pl}, !.st = IF @ = "CYCLING" THEN @ ELSE "GENERATING"] \in Pages
    BY DEF Typed, Pages, States
  <1>5. page' \in Pages /\ net' = net \union {r}
    BY <1>2, <1>4, SavedTyped DEF MountFails, Sends
  <1>6. faults' \in 0 .. MaxFaults
    BY FaultTyped DEF MountFails, Typed
  <1> QED
    BY <1>3, <1>5, <1>6 DEF Typed, MountFails, serverVars, workVars, history

LEMMA PullIsStaleTyped == ASSUME Typed, NEW pl \in page.pulls, PullIsStale(pl) PROVE Typed'
  <1>1. page' \in Pages
    BY DEF PullIsStale, Typed, Pages
  <1> QED
    BY <1>1 DEF Typed, PullIsStale, serverVars, workVars, history

LEMMA CycleFailsTyped == ASSUME Typed, NEW v \in 1 .. Count, CycleFails(v) PROVE Typed'
  <1>1. page.cur \in Sessions
    BY DEF CycleFails, Typed
  <1>2. PICK r : r = [Request("variant_mount_failed", page.cur) EXCEPT !.variant = v]
    OBVIOUS
  <1>3. r \in Requests /\ r.kind = "variant_mount_failed"
    BY <1>1, <1>2, MountRequestTyped DEF Typed
  <1>4. net' = net \union {r}
    BY <1>2 DEF CycleFails, Sends
  <1>5. faults' \in 0 .. MaxFaults
    BY FaultTyped DEF CycleFails, Typed
  <1> QED
    BY <1>3, <1>4, <1>5 DEF Typed, CycleFails, serverVars, workVars, history

LEMMA ReportsTyped ==
    ASSUME page \in Pages, NEW p \in Pages, p.cur # None,
           NEW kept \in SUBSET Requests, \A r \in kept : r.kind = "checkpoint" => r.phase # "",
           Reports(p, kept)
    PROVE  PageTyped'
  <1>1. PICK q : q = NextRevision(p)
    OBVIOUS
  <1>2. q \in Pages /\ q.cur = p.cur
    BY <1>1, NextRevisionTyped DEF NextRevision, Pages
  <1>3. PICK c : c = CheckpointOf(q)
    OBVIOUS
  <1>4. c \in Requests /\ c.phase # ""
    BY <1>2, <1>3, CheckpointOfTyped
  <1>5. [c EXCEPT !.gated = FALSE] \in Requests /\ [c EXCEPT !.gated = FALSE].phase # ""
    BY <1>4 DEF Requests
  <1>6. page' = q /\ net' = kept \union {[c EXCEPT !.gated = FALSE]}
    BY <1>1, <1>3 DEF Reports, Sends
  <1> QED
    BY <1>2, <1>5, <1>6 DEF PageTyped

LEMMA RestoredShows ==
    ASSUME NEW p \in Pages, NEW saved \in Records, saved.id # None, NEW summaries
    PROVE  /\ Restored(p, saved, summaries).cur = saved.id
           /\ Restored(p, saved, summaries).capture = p.capture
  BY DEF Restored, Saved, Pulling, Pages

LEMMA ReloadTyped == ASSUME Typed, Reload PROVE Typed'
  <1>1. PICK sent \in SUBSET {r \in net : ~r.gated} :
          LET kept  == {[r EXCEPT !.heard = FALSE] : r \in sent}
              shown == {s \in Sessions \ mounted : Wrapped(s)}
          IN  \/ \E id \in shown \ {page.handled} :
                    Reports(Saved(ResumedFromWrapper(id)), kept)
              \/ /\ page.handled \in shown
                 /\ page' = Reloaded /\ net' = kept
              \/ /\ shown = {} /\ Restores(Reloaded, page.stored, {})
                 /\ Reports(Restored(Reloaded, page.stored, {}), kept)
              \/ /\ shown = {} /\ ~Restores(Reloaded, page.stored, {})
                 /\ page' = [Reloaded EXCEPT !.stored = NothingSaved, !.handled = None]
                 /\ net' = kept
    BY DEF Reload
  <1>2. PICK kept : kept = {[r EXCEPT !.heard = FALSE] : r \in sent}
    OBVIOUS
  <1>3. kept \in SUBSET Requests /\ \A r \in kept : r.kind = "checkpoint" => r.phase # ""
    <2>1. \A r \in sent : r \in Requests /\ (r.kind = "checkpoint" => r.phase # "")
      BY DEF Typed
    <2>2. \A r \in sent : /\ [r EXCEPT !.heard = FALSE] \in Requests
                         /\ [r EXCEPT !.heard = FALSE].kind = r.kind
                         /\ [r EXCEPT !.heard = FALSE].phase = r.phase
      BY <2>1 DEF Requests
    <2>3. \A x \in kept : x \in Requests /\ (x.kind = "checkpoint" => x.phase # "")
      <3>1. SUFFICES ASSUME NEW r \in sent, NEW x, x = [r EXCEPT !.heard = FALSE]
                     PROVE  x \in Requests /\ (x.kind = "checkpoint" => x.phase # "")
        BY <1>2
      <3> QED
        BY <2>1, <2>2, <3>1
    <2> QED
      BY <2>3
  <1>4. page \in Pages /\ page.stored \in Records /\ Reloaded \in Pages
    BY ReloadedTyped DEF Typed, Pages
  <1>0. faults' \in 0 .. MaxFaults
    BY FaultTyped DEF Reload, Typed
  <1> SUFFICES PageTyped'
    BY <1>0 DEF PageTyped, Typed, Reload, serverVars, workVars, history
  <1>5. CASE \E id \in Sessions : Reports(Saved(ResumedFromWrapper(id)), kept)
    <2>1. PICK id \in Sessions : Reports(Saved(ResumedFromWrapper(id)), kept)
      BY <1>5
    <2>2. PICK w : w = ResumedFromWrapper(id)
      OBVIOUS
    <2>3. w \in Pages /\ w.cur = id
      BY <1>4, <2>2, ResumedTyped DEF Typed, ResumedFromWrapper, Pages
    <2>4. Saved(w) \in Pages /\ Saved(w).cur = id
      BY <2>3, SavedTyped DEF Saved, Pages
    <2> QED
      BY <1>3, <1>4, <2>1, <2>2, <2>4, ReportsTyped, SessionsAssumption
  <1>6. CASE page' = Reloaded /\ net' = kept
    BY <1>3, <1>4, <1>6 DEF PageTyped
  <1>7. CASE Restores(Reloaded, page.stored, {}) /\ Reports(Restored(Reloaded, page.stored, {}), kept)
    <2>1. page.stored.id # None
      BY <1>7 DEF Restores
    <2>2. PICK w : w = Restored(Reloaded, page.stored, {})
      OBVIOUS
    <2>3. w \in Pages /\ w.cur # None
      BY <1>4, <2>1, <2>2, RestoredTyped, RestoredShows DEF Typed
    <2> QED
      BY <1>3, <1>4, <1>7, <2>2, <2>3, ReportsTyped
  <1>8. CASE page' = [Reloaded EXCEPT !.stored = NothingSaved, !.handled = None] /\ net' = kept
    <2>1. page' \in Pages
      BY <1>4, <1>8, NothingSavedTyped DEF Pages, Known
    <2> QED
      BY <1>3, <1>8, <2>1 DEF PageTyped
  <1> QED
    BY <1>1, <1>2, <1>5, <1>6, <1>7, <1>8

LEMMA ConnectionLostTyped == ASSUME Typed, ConnectionLost PROVE Typed'
  <1>1. page' \in Pages
    BY DEF ConnectionLost, Typed, Pages
  <1>2. faults' \in 0 .. MaxFaults
    BY FaultTyped DEF ConnectionLost, Typed
  <1> QED
    BY <1>1, <1>2 DEF Typed, ConnectionLost, serverVars, workVars, history

LEMMA ConnectTyped == ASSUME Typed, Connect PROVE Typed'
  <1>1. PICK p : p = [page EXCEPT !.conn = TRUE]
    OBVIOUS
  <1>2. p \in Pages /\ p.stored \in Records
    BY <1>1 DEF Typed, Pages
  <1>3. PICK summary \in SUBSET Sessions : summary = {s \in Sessions : Active(snap[s])}
    OBVIOUS
  <1>4. \A r \in IF p.stored.id # None THEN {p.stored} ELSE Adopted(p, summary) :
           r \in Records /\ r.id # None
    BY <1>2, AdoptedTyped DEF Typed
  <1>5. \/ \E r \in IF p.stored.id # None THEN {p.stored} ELSE Adopted(p, summary) :
              LET q == NextRevision(Restored(p, r, summary))
              IN  page' = CaughtUp(q, summary) /\ net' = net \union {CheckpointOf(q)}
        \/ page' = CaughtUp(p, summary) /\ net' = net
    BY <1>1, <1>3 DEF Connect, Sends
  <1> SUFFICES PageTyped'
    BY DEF PageTyped, Typed, Connect, serverVars, workVars, history
  <1>6. CASE \E r \in IF p.stored.id # None THEN {p.stored} ELSE Adopted(p, summary) :
               LET q == NextRevision(Restored(p, r, summary))
               IN  page' = CaughtUp(q, summary) /\ net' = net \union {CheckpointOf(q)}
    <2>1. PICK r \in IF p.stored.id # None THEN {p.stored} ELSE Adopted(p, summary) :
               LET q == NextRevision(Restored(p, r, summary))
               IN  page' = CaughtUp(q, summary) /\ net' = net \union {CheckpointOf(q)}
      BY <1>6
    <2>2. r \in Records /\ r.id # None
      BY <1>4
    <2>3. PICK w : w = Restored(p, r, summary)
      OBVIOUS
    <2>4. w \in Pages /\ w.cur # None
      BY <1>2, <2>2, <2>3, RestoredTyped, RestoredShows DEF Typed
    <2>5. PICK q : q = NextRevision(w)
      OBVIOUS
    <2>6. q \in Pages /\ q.cur # None
      BY <2>4, <2>5, NextRevisionTyped DEF NextRevision, Pages
    <2>7. page' = CaughtUp(q, summary) /\ net' = net \union {CheckpointOf(q)}
      BY <2>1, <2>3, <2>5
    <2>8. CaughtUp(q, summary) \in Pages
      BY <2>6, CaughtUpTyped
    <2>9. CheckpointOf(q) \in Requests /\ CheckpointOf(q).phase # ""
      BY <2>6, CheckpointOfTyped DEF Typed
    <2> QED
      BY <2>7, <2>8, <2>9 DEF PageTyped, Typed
  <1>7. CASE page' = CaughtUp(p, summary) /\ net' = net
    BY <1>2, <1>7, CaughtUpTyped DEF PageTyped, Typed
  <1> QED
    BY <1>5, <1>6, <1>7

LEMMA EditedAwayTyped == ASSUME Typed, NEW s \in Sessions, EditedAway(s) PROVE Typed'
  <1>1. source' \in [Sessions -> 0 .. Count]
    <2>1. 0 \in 0 .. Count
      BY CountAssumption
    <2>2. source \in [Sessions -> 0 .. Count]
      BY DEF Typed
    <2> QED
      BY <2>1, <2>2 DEF EditedAway
  <1>2. faults' \in 0 .. MaxFaults
    BY FaultTyped DEF EditedAway, Typed
  <1> QED
    BY <1>1, <1>2 DEF Typed, EditedAway, serverVars, history

\* The helper's steps.

LEMMA RequestFailsTyped == ASSUME Typed, NEW r \in net, RequestFails(r) PROVE Typed'
  <1>1. r.id \in Sessions
    BY DEF Typed, Requests
  <1>2. page' \in Pages
    BY <1>1, AcceptFailedTyped DEF RequestFails, Typed
  <1> QED
    BY <1>2 DEF Typed, RequestFails, serverVars, workVars

LEMMA ReceiveGenerateTyped == ASSUME Typed, NEW r \in net, ReceiveGenerate(r) PROVE Typed'
  <1>1. r.id \in Sessions
    BY DEF Typed, Requests
  <1>2. PICK e : e = EventOf("generate", r.id, 0)
    OBVIOUS
  <1>3. e \in Events
    BY <1>1, <1>2, EventOfTyped, CountAssumption
  <1>4. Generated(snap[r.id], e) \in Snapshots
    BY <1>1, <1>3, SnapshotsTyped DEF Typed
  <1>5. Journal(r.id, Generated(snap[r.id], e)) /\ Flush(Enqueued(queue, e), agent)
    BY <1>2 DEF ReceiveGenerate
  <1>6. snap' \in [Sessions -> Snapshots]
    BY <1>1, <1>4, <1>5, JournalTyped DEF Typed
  <1>7. Enqueued(queue, e) \in Seq(Entries)
    BY <1>3, EnqueuedIs DEF Typed
  <1>8. /\ queue' \in Seq(Entries) /\ parked' \in Seq(Agents)
        /\ agent' \in [Agents -> Hands] /\ \A a \in Agents : Sound(agent'[a])
    BY <1>5, <1>7, FlushTyped DEF Typed
  <1> QED
    BY <1>6, <1>8 DEF Typed, ReceiveGenerate, history

LEMMA ReceiveCheckpointTyped == ASSUME Typed, NEW r \in net, ReceiveCheckpoint(r) PROVE Typed'
  <1>1. r.id \in Sessions /\ r \in Requests /\ r.phase # ""
    BY DEF Typed, Requests, ReceiveCheckpoint, Arrives
  <1>2. Checkpointed(snap[r.id], r) \in Snapshots
    <2>1. PICK sn \in Snapshots : sn = snap[r.id]
      BY <1>1 DEF Typed
    <2>2. PICK e : e = EventOf("accept", r.id, 0)
      OBVIOUS
    <2>3. e \in Events
      <3>1. r.id \in Sessions
        BY <1>1
      <3> QED
        BY <2>2, <3>1, EventOfTyped, CountAssumption
    <2>4. Checkpointed(sn, r) \in Snapshots
      BY <1>1, <2>3, SnapshotsTyped
    <2> QED
      BY <2>1, <2>4
  <1>3. snap' \in [Sessions -> Snapshots]
    BY <1>1, <1>2, JournalTyped DEF Typed, ReceiveCheckpoint
  <1>4. page' \in Pages
    BY <1>1, HearsTyped DEF Typed, ReceiveCheckpoint, Announced
  <1> QED
    BY <1>3, <1>4 DEF Typed, ReceiveCheckpoint, workVars, history

LEMMA RefuseCheckpointTyped == ASSUME Typed, NEW r \in net, RefuseCheckpoint(r) PROVE Typed'
  <1>1. page' \in Pages
    BY LetGoTyped DEF Typed, RefuseCheckpoint
  <1> QED
    BY <1>1 DEF Typed, RefuseCheckpoint, serverVars, workVars

LEMMA ReceiveAcceptTyped ==
    ASSUME Typed, NEW r \in net, NEW lost \in BOOLEAN, ReceiveAccept(r, lost) PROVE Typed'
  <1>1. r.id \in Sessions
    BY DEF Typed, Requests
  <1>2. PICK e : e = EventOf("accept", r.id, 0)
    OBVIOUS
  <1>3. e \in Events
    BY <1>1, <1>2, EventOfTyped, CountAssumption
  <1>4. Accepted(snap[r.id], e) \in Snapshots
    BY <1>1, <1>3, SnapshotsTyped DEF Typed
  <1>5. PICK q : q = Retired(queue, r.id)
    OBVIOUS
  <1>6. q \in Seq(Entries)
    BY <1>5, RetiredIs DEF Typed
  <1>7. Journal(r.id, Accepted(snap[r.id], e)) /\ Flush(Enqueued(q, e), agent)
    BY <1>2, <1>5 DEF ReceiveAccept
  <1>8. snap' \in [Sessions -> Snapshots]
    BY <1>1, <1>4, <1>7, JournalTyped DEF Typed
  <1>9. Enqueued(q, e) \in Seq(Entries)
    BY <1>3, <1>6, EnqueuedIs
  <1>10. /\ queue' \in Seq(Entries) /\ parked' \in Seq(Agents)
         /\ agent' \in [Agents -> Hands] /\ \A a \in Agents : Sound(agent'[a])
    BY <1>7, <1>9, FlushTyped DEF Typed
  <1>11. page' \in Pages
    BY <1>1, AcceptFailedTyped, AcceptConfirmedTyped DEF Typed, ReceiveAccept
  <1>12. faults' \in 0 .. MaxFaults
    BY FaultTyped DEF Typed, ReceiveAccept
  <1> QED
    BY <1>8, <1>10, <1>11, <1>12 DEF Typed, ReceiveAccept

LEMMA ReceiveDiscardTyped ==
    ASSUME Typed, NEW r \in net, NEW lost \in BOOLEAN, ReceiveDiscard(r, lost) PROVE Typed'
  <1>1. r.id \in Sessions
    BY DEF Typed, Requests
  <1>2. PICK e : e = EventOf("discard", r.id, 0)
    OBVIOUS
  <1>3. e \in Events
    BY <1>1, <1>2, EventOfTyped, CountAssumption
  <1>4. DiscardRequested(snap[r.id], e) \in Snapshots
    BY <1>1, <1>3, SnapshotsTyped DEF Typed
  <1>5. PICK q : q = Retired(queue, r.id)
    OBVIOUS
  <1>6. q \in Seq(Entries)
    BY <1>5, RetiredIs DEF Typed
  <1>7. Journal(r.id, DiscardRequested(snap[r.id], e)) /\ Flush(Enqueued(q, e), agent)
    BY <1>2, <1>5 DEF ReceiveDiscard
  <1>8. snap' \in [Sessions -> Snapshots]
    BY <1>1, <1>4, <1>7, JournalTyped DEF Typed
  <1>9. Enqueued(q, e) \in Seq(Entries)
    BY <1>3, <1>6, EnqueuedIs
  <1>10. /\ queue' \in Seq(Entries) /\ parked' \in Seq(Agents)
         /\ agent' \in [Agents -> Hands] /\ \A a \in Agents : Sound(agent'[a])
    BY <1>7, <1>9, FlushTyped DEF Typed
  <1>11. page' \in Pages
    BY <1>1, LetGoTyped DEF Typed, ReceiveDiscard
  <1>12. faults' \in 0 .. MaxFaults
    BY FaultTyped DEF Typed, ReceiveDiscard
  <1> QED
    BY <1>8, <1>10, <1>11, <1>12 DEF Typed, ReceiveDiscard, history

LEMMA ReceiveOrphanedTyped == ASSUME Typed, NEW r \in net, ReceiveOrphaned(r) PROVE Typed'
  <1>1. r.id \in Sessions
    BY DEF Typed, Requests
  <1>2. PICK e : e = EventOf("discard", r.id, 0)
    OBVIOUS
  <1>3. e \in Events
    BY <1>1, <1>2, EventOfTyped, CountAssumption
  <1>4. PICK sn : sn = DiscardRequested(snap[r.id], e)
    OBVIOUS
  <1>5. sn \in Snapshots
    BY <1>1, <1>3, <1>4, SnapshotsTyped DEF Typed
  <1>6. Discarded(sn) \in Snapshots
    BY <1>3, <1>5, SnapshotsTyped
  <1>7. Journal(r.id, Discarded(sn))
    BY <1>2, <1>4 DEF ReceiveOrphaned
  <1>8. snap' \in [Sessions -> Snapshots]
    BY <1>1, <1>6, <1>7, JournalTyped DEF Typed
  <1>9. queue' \in Seq(Entries)
    BY RetiredIs DEF ReceiveOrphaned, Typed
  <1> QED
    BY <1>8, <1>9 DEF Typed, ReceiveOrphaned, workVars, history

LEMMA ReceiveMountFailureTyped ==
    ASSUME Typed, NEW r \in net, ReceiveMountFailure(r) PROVE Typed'
  <1>1. r.id \in Sessions /\ r.variant \in 0 .. Count
    BY DEF Typed, Requests
  <1>2. PICK e : e = EventOf("variant_mount_failed", r.id, r.variant)
    OBVIOUS
  <1>3. e \in Events
    BY <1>1, <1>2, EventOfTyped
  <1>4. MountFailed(snap[r.id], e) \in Snapshots
    BY <1>1, <1>3, SnapshotsTyped DEF Typed
  <1>5. Journal(r.id, MountFailed(snap[r.id], e)) /\ Flush(Enqueued(queue, e), agent)
    BY <1>2 DEF ReceiveMountFailure
  <1>6. snap' \in [Sessions -> Snapshots]
    BY <1>1, <1>4, <1>5, JournalTyped DEF Typed
  <1>7. Enqueued(queue, e) \in Seq(Entries)
    BY <1>3, EnqueuedIs DEF Typed
  <1>8. /\ queue' \in Seq(Entries) /\ parked' \in Seq(Agents)
        /\ agent' \in [Agents -> Hands] /\ \A a \in Agents : Sound(agent'[a])
    BY <1>5, <1>7, FlushTyped DEF Typed
  <1> QED
    BY <1>6, <1>8 DEF Typed, ReceiveMountFailure, history

LEMMA UnleasedTyped ==
    ASSUME NEW q \in Seq(Entries), NEW i \in 1 .. Len(q)
    PROVE  /\ [q EXCEPT ![i].leased = FALSE] \in Seq(Entries)
           /\ Len([q EXCEPT ![i].leased = FALSE]) = Len(q)
           /\ \A j \in 1 .. Len(q) :
                 /\ [q EXCEPT ![i].leased = FALSE][j].ev = q[j].ev
                 /\ j # i => [q EXCEPT ![i].leased = FALSE][j] = q[j]
  <1>1. PICK x : x = [q[i] EXCEPT !.leased = FALSE]
    OBVIOUS
  <1>2. q[i] \in Entries
    BY ElementOfSeq
  <1>3. x \in Entries /\ x.ev = q[i].ev
    BY <1>1, <1>2 DEF Entries
  <1>4. [q EXCEPT ![i].leased = FALSE] = [q EXCEPT ![i] = x]
    BY <1>1
  <1> QED
    <2>1. PICK r : r = [q EXCEPT ![i] = x]
      OBVIOUS
    <2>2. /\ r \in Seq(Entries) /\ Len(r) = Len(q)
          /\ \A j \in 1 .. Len(q) : r[j] = IF j = i THEN x ELSE q[j]
      BY <1>3, <2>1, ExceptSeq
    <2> QED
      BY <1>3, <1>4, <2>1, <2>2

LEMMA LeaseLapsesTyped == ASSUME Typed, NEW i \in DOMAIN queue, LeaseLapses(i) PROVE Typed'
  <1>1. queue \in Seq(Entries) /\ i \in 1 .. Len(queue)
    BY LenProperties DEF Typed
  <1>2. [queue EXCEPT ![i].leased = FALSE] \in Seq(Entries)
    BY <1>1, UnleasedTyped
  <1>3. /\ queue' \in Seq(Entries) /\ parked' \in Seq(Agents)
        /\ agent' \in [Agents -> Hands] /\ \A a \in Agents : Sound(agent'[a])
    BY <1>2, FlushTyped DEF Typed, LeaseLapses
  <1>4. faults' \in 0 .. MaxFaults
    BY FaultTyped DEF Typed, LeaseLapses
  <1> QED
    BY <1>3, <1>4 DEF Typed, LeaseLapses

LEMMA CrashTyped == ASSUME Typed, Crash PROVE Typed'
  <1>1. \A a \in Agents : agent'[a] \in Hands /\ Sound(agent'[a])
    <2>1. SUFFICES ASSUME NEW a \in Agents PROVE agent'[a] \in Hands /\ Sound(agent'[a])
      OBVIOUS
    <2>2. agent[a] \in Hands /\ Sound(agent[a])
      BY DEF Typed
    <2>3. agent'[a] \in {[agent[a] EXCEPT !.at = "cutoff"], Idle, agent[a]}
          /\ (agent'[a] = [agent[a] EXCEPT !.at = "cutoff"] =>
                agent[a].at = "holding" \/ agent'[a] \in {Idle, agent[a]})
      BY DEF Crash
    <2>4. Idle \in Hands /\ Sound(Idle)
      BY DEF Idle, Hands, Places, Sound
    <2>5. agent[a].at = "holding" =>
            [agent[a] EXCEPT !.at = "cutoff"] \in Hands /\ Sound([agent[a] EXCEPT !.at = "cutoff"])
      BY <2>2 DEF Hands, Places, Sound
    <2> QED
      BY <2>2, <2>3, <2>4, <2>5
  <1>2. agent' \in [Agents -> Hands]
    BY <1>1 DEF Crash
  <1>3. page' \in Pages
    BY DEF Crash, Typed, Pages
  <1>4. faults' \in 0 .. MaxFaults
    BY FaultTyped DEF Typed, Crash
  <1>5. <<>> \in Seq(Entries) /\ <<>> \in Seq(Agents)
    BY EmptySeq
  <1> QED
    BY <1>1, <1>2, <1>3, <1>4, <1>5 DEF Typed, Crash, history

\* What a helper that is started again queues: the pending events, each once.
LEMMA RestartIs ==
    ASSUME Typed, Restart
    PROVE  LET waiting == {s \in Sessions : Active(snap[s]) /\ snap[s].pending # None}
           IN  \E order \in [1 .. Len(queue') -> waiting] :
                  /\ queue' \in Seq(Entries)
                  /\ \A i \in 1 .. Len(queue') :
                        queue'[i] = [ev |-> snap[order[i]].pending, leased |-> FALSE]
                  /\ \A i, j \in 1 .. Len(queue') : order[i] = order[j] => i = j
                  /\ relet' = relet \union waiting
  <1>1. PICK waiting \in SUBSET Sessions :
           waiting = {s \in Sessions : Active(snap[s]) /\ snap[s].pending # None}
    OBVIOUS
  <1>2. PICK order \in SetToSeqs(waiting) :
           /\ queue' = [i \in DOMAIN order |-> [ev |-> snap[order[i]].pending, leased |-> FALSE]]
           /\ relet' = relet \union waiting
    BY <1>1 DEF Restart
  <1>3. Cardinality(waiting) \in Nat
    BY FS_Subset, FS_CardinalityType, SessionsAssumption
  <1>4. PICK n \in Nat : n = Cardinality(waiting)
    BY <1>3
  <1>5. /\ order \in [1 .. n -> waiting]
        /\ \A i, j \in 1 .. n : order[i] = order[j] => i = j
    BY <1>4 DEF SetToSeqs
  <1>6. queue' = [i \in 1 .. n |-> [ev |-> snap[order[i]].pending, leased |-> FALSE]]
    BY <1>2, <1>5
  <1>7. \A s \in waiting : [ev |-> snap[s].pending, leased |-> FALSE] \in Entries
    BY <1>1 DEF Typed, Snapshots, Entries
  <1>8. queue' \in [1 .. n -> Entries]
    BY <1>5, <1>6, <1>7
  <1>9. queue' \in Seq(Entries) /\ Len(queue') = n
    BY <1>4, <1>8, SeqDef
  <1>10. \E o \in [1 .. Len(queue') -> waiting] :
            /\ queue' \in Seq(Entries)
            /\ \A i \in 1 .. Len(queue') : queue'[i] = [ev |-> snap[o[i]].pending, leased |-> FALSE]
            /\ \A i, j \in 1 .. Len(queue') : o[i] = o[j] => i = j
            /\ relet' = relet \union waiting
    BY <1>2, <1>5, <1>6, <1>9
  <1> QED
    BY <1>1, <1>10

LEMMA RestartTyped == ASSUME Typed, Restart PROVE Typed'
  <1>1. queue' \in Seq(Entries)
    BY RestartIs
  <1>2. page' \in Pages
    BY DEF Restart, Typed, Pages
  <1>3. \A r \in net' : r \in Requests /\ (r.kind = "checkpoint" => r.phase # "")
    <2>1. \A r \in net : /\ [r EXCEPT !.valid = FALSE] \in Requests
                        /\ [r EXCEPT !.valid = FALSE].kind = r.kind
                        /\ [r EXCEPT !.valid = FALSE].phase = r.phase
      BY DEF Typed, Requests
    <2>2. SUFFICES ASSUME NEW r \in net, NEW x, x = [r EXCEPT !.valid = FALSE]
                   PROVE  x \in Requests /\ (x.kind = "checkpoint" => x.phase # "")
      BY DEF Restart
    <2>3. r.kind = "checkpoint" => r.phase # ""
      BY DEF Typed
    <2> QED
      BY <2>1, <2>2, <2>3
  <1> QED
    BY <1>1, <1>2, <1>3 DEF Typed, Restart, workVars

\* The agents' steps.

LEMMA PollTyped == ASSUME Typed, NEW a \in Agents, Poll(a) PROVE Typed'
  <1>1. CASE /\ parked' = Append(parked, a)
             /\ agent' = [agent EXCEPT ![a] = [at |-> "parked", ev |-> None]]
             /\ UNCHANGED queue
    <2>1. [at |-> "parked", ev |-> None] \in Hands /\ Sound([at |-> "parked", ev |-> None])
      BY DEF Hands, Places, Sound
    <2>2. parked' \in Seq(Agents)
      BY <1>1, AppendProperties DEF Typed
    <2> QED
      BY <1>1, <2>1, <2>2 DEF Typed, Poll, history
  <1>2. CASE \E i \in Available(queue) :
               /\ queue' = Leased(queue, {i})
               /\ agent' = [agent EXCEPT ![a] = Handed(queue[i].ev)]
               /\ UNCHANGED parked
    <2>0. PICK i \in Available(queue) :
               /\ queue' = Leased(queue, {i})
               /\ agent' = [agent EXCEPT ![a] = Handed(queue[i].ev)]
               /\ UNCHANGED parked
      BY <1>2
    <2>1. queue \in Seq(Entries) /\ i \in 1 .. Len(queue)
      BY LenProperties DEF Typed, Available
    <2>2. queue[i] \in Entries
      BY <2>1, ElementOfSeq
    <2>3. PICK e \in Events : e = queue[i].ev
      BY <2>2 DEF Entries
    <2>4. Handed(e) \in Hands /\ Sound(Handed(e))
      BY HandedTyped DEF Sound
    <2>5. queue' \in Seq(Entries)
      BY <2>0, <2>1, LeasedIs
    <2> QED
      BY <2>0, <2>3, <2>4, <2>5 DEF Typed, Poll, history
  <1> QED
    BY <1>1, <1>2 DEF Poll

\* The scaffold of the event an agent waits for, put into the queue.
LEMMA ScaffoldIs ==
    ASSUME Typed, NEW a \in Agents, ScaffoldLands(a)
    PROVE  LET e == [agent[a].ev EXCEPT !.ready = TRUE]
           IN  /\ agent[a].ev \in Events /\ e \in Events /\ e.id = agent[a].ev.id
               /\ e.type = agent[a].ev.type /\ e.variant = agent[a].ev.variant /\ e.ready
               /\ snap' = [snap EXCEPT ![e.id] = Generated(snap[e.id], e)]
               /\ Generated(snap[e.id], e) \in Snapshots
               /\ queue' \in Seq(Entries) /\ Len(queue') = Len(queue)
               /\ \A i \in 1 .. Len(queue) :
                     queue'[i] = IF queue[i].ev = agent[a].ev
                                 THEN [ev |-> e, leased |-> TRUE] ELSE queue[i]
  <1>1. PICK d \in Events : d = agent[a].ev
    BY DEF ScaffoldLands, Typed, Hands, Sound
  <1>2. PICK e : e = [d EXCEPT !.ready = TRUE]
    OBVIOUS
  <1>3. /\ e \in Events /\ e.id = d.id /\ e.type = d.type /\ e.variant = d.variant /\ e.ready
        /\ e.id \in Sessions
    BY <1>2 DEF Events
  <1>4. /\ queue' = [i \in DOMAIN queue |-> IF queue[i].ev = d THEN [ev |-> e, leased |-> TRUE]
                                           ELSE queue[i]]
        /\ Journal(e.id, Generated(snap[e.id], e))
    BY <1>1, <1>2 DEF ScaffoldLands
  <1>5. Generated(snap[e.id], e) \in Snapshots
    BY <1>3, SnapshotsTyped DEF Typed
  <1>6. /\ queue' \in Seq(Entries) /\ Len(queue') = Len(queue)
        /\ \A i \in 1 .. Len(queue) :
              queue'[i] = IF queue[i].ev = d THEN [ev |-> e, leased |-> TRUE] ELSE queue[i]
    <2>1. queue \in Seq(Entries)
      BY DEF Typed
    <2>2. /\ Len(queue) \in Nat /\ DOMAIN queue = 1 .. Len(queue)
          /\ \A i \in 1 .. Len(queue) : queue[i] \in Entries
      BY <2>1, LenProperties, ElementOfSeq
    <2>3. [ev |-> e, leased |-> TRUE] \in Entries
      BY <1>3 DEF Entries
    <2>4. queue' \in [1 .. Len(queue) -> Entries]
      BY <1>4, <2>2, <2>3
    <2>5. queue' \in Seq(Entries) /\ Len(queue') = Len(queue)
      BY <2>2, <2>4, SeqDef
    <2> QED
      BY <1>4, <2>2, <2>5
  <1>7. snap' = [snap EXCEPT ![e.id] = Generated(snap[e.id], e)]
    BY <1>4 DEF Journal
  <1> QED
    BY <1>1, <1>2, <1>3, <1>5, <1>6, <1>7

LEMMA ScaffoldLandsTyped == ASSUME Typed, NEW a \in Agents, ScaffoldLands(a) PROVE Typed'
  <1>1. PICK e : e = [agent[a].ev EXCEPT !.ready = TRUE]
    OBVIOUS
  <1>2. /\ e \in Events /\ e.id \in Sessions
        /\ snap' = [snap EXCEPT ![e.id] = Generated(snap[e.id], e)]
        /\ Generated(snap[e.id], e) \in Snapshots
        /\ queue' \in Seq(Entries)
    BY <1>1, ScaffoldIs DEF Events
  <1>3. snap' \in [Sessions -> Snapshots]
    BY <1>2 DEF Typed
  <1>4. /\ Idle \in Hands /\ Sound(Idle)
        /\ [at |-> "holding", ev |-> e] \in Hands /\ Sound([at |-> "holding", ev |-> e])
    BY <1>2, SessionsAssumption DEF Idle, Hands, Places, Sound
  <1>5. agent' = [agent EXCEPT ![a] = IF @.at = "hungup" THEN Idle ELSE [at |-> "holding", ev |-> e]]
    BY <1>1 DEF ScaffoldLands
  <1>6. agent' \in [Agents -> Hands] /\ \A b \in Agents : Sound(agent'[b])
    BY <1>4, <1>5 DEF Typed
  <1> QED
    BY <1>2, <1>3, <1>6 DEF Typed, ScaffoldLands, history

LEMMA WriteTyped == ASSUME Typed, NEW a \in Agents, Write(a) PROVE Typed'
  <1>0. Count \in 1 .. Count
    BY CountAssumption
  <1>1. \E n \in 1 .. Count : source' = [source EXCEPT ![agent[a].ev.id] = n]
    BY <1>0 DEF Write
  <1>2. source' \in [Sessions -> 0 .. Count]
    <2>1. PICK n \in 1 .. Count : source' = [source EXCEPT ![agent[a].ev.id] = n]
      BY <1>1
    <2>2. n \in 0 .. Count
      BY CountAssumption
    <2>3. source \in [Sessions -> 0 .. Count]
      BY DEF Typed
    <2> QED
      BY <2>1, <2>2, <2>3
  <1> QED
    BY <1>2 DEF Typed, Write, serverVars, history

LEMMA PageOfTyped ==
    ASSUME page \in Pages, NEW id \in Sessions, NEW c \in BOOLEAN,
           NEW reply \in {"done", "agent_done", "error", "complete", "discarded"}
    PROVE  PageOf(reply, id, c) \in Pages
  BY HearsTyped DEF PageOf

LEMMA ReplyTyped ==
    ASSUME Typed, NEW a \in Agents, agent[a].ev # None,
           NEW reply \in {"done", "agent_done", "error", "complete", "discarded"}, NEW named,
           NEW carbonize \in BOOLEAN, NEW next \in Hands, Sound(next),
           Reply(a, reply, named, carbonize, next),
           UNCHANGED source, settled' \subseteq Sessions, faults' \in 0 .. MaxFaults
    PROVE  Typed'
  <1>0. ReplyJournals(a, reply, carbonize, next)
    BY ReplyIs
  <1>1. PICK sn \in Snapshots, rest \in Seq(Entries) :
                /\ snap' = [snap EXCEPT ![agent[a].ev.id] = sn]
                /\ Flush(rest, [agent EXCEPT ![a] = next])
    BY <1>0 DEF ReplyJournals
  <1>2. /\ agent[a].ev.id \in Sessions
        /\ page' = (IF page.conn THEN PageOf(reply, agent[a].ev.id, carbonize) ELSE page)
        /\ UNCHANGED <<up, net, mounted, relet, dropped, unclean>>
    BY ReplyIs DEF ReplyAnnounces
  <1>3. page' \in Pages
    BY <1>2, PageOfTyped DEF Typed
  <1>4. PICK ags : ags = [agent EXCEPT ![a] = next]
    OBVIOUS
  <1>5. ags \in [Agents -> Hands] /\ \A b \in Agents : Sound(ags[b])
    BY <1>4 DEF Typed
  <1>6. /\ queue' \in Seq(Entries) /\ parked' \in Seq(Agents)
        /\ agent' \in [Agents -> Hands] /\ \A b \in Agents : Sound(agent'[b])
    BY <1>1, <1>4, <1>5, FlushTyped DEF Typed
  <1>7. snap' \in [Sessions -> Snapshots]
    BY <1>1, <1>2 DEF Typed
  <1> QED
    BY <1>2, <1>3, <1>6, <1>7 DEF Typed

LEMMA ReplyDoneTyped ==
    ASSUME Typed, NEW a \in Agents, NEW lost \in BOOLEAN, ReplyDone(a, lost) PROVE Typed'
  <1>1. agent[a].ev # None
    BY DEF ReplyDone, Works, Typed, Sound
  <1>2. PICK next : next = Afterwards(a, lost)
    OBVIOUS
  <1>3. next \in Hands /\ Sound(next)
    BY <1>2 DEF Afterwards, Idle, Typed, Hands, Places, Sound
  <1>4. Reply(a, "done", None, FALSE, next) /\ UNCHANGED <<source, settled>>
    BY <1>2 DEF ReplyDone
  <1>5. faults' \in 0 .. MaxFaults
    BY FaultTyped DEF ReplyDone, Typed
  <1>6. settled' \subseteq Sessions
    BY <1>4 DEF Typed
  <1> QED
    BY <1>1, <1>3, <1>4, <1>5, <1>6, ReplyTyped

LEMMA ReplyErrorTyped == ASSUME Typed, NEW a \in Agents, ReplyError(a) PROVE Typed'
  <1>1. agent[a].ev # None
    BY DEF ReplyError, Works, Typed, Sound
  <1>2. Idle \in Hands /\ Sound(Idle)
    BY DEF Idle, Hands, Places, Sound
  <1>3. faults' \in 0 .. MaxFaults /\ settled' \subseteq Sessions
    BY FaultTyped DEF ReplyError, Typed
  <1> QED
    BY <1>1, <1>2, <1>3, ReplyTyped DEF ReplyError

LEMMA BouncedTyped == ASSUME Typed, NEW a \in Agents, Bounced(a) PROVE Typed'
  <1>1. faults' \in 0 .. MaxFaults
    BY FaultTyped DEF Bounced, Typed
  <1>2. queue' \in Seq(Entries) /\ Thinned(queue', queue)
    BY BouncedThins
  <1> QED
    BY <1>1, <1>2 DEF Typed, Bounced, workVars, history

LEMMA CarryOutTyped ==
    ASSUME Typed, NEW a \in Agents, NEW cleanup \in BOOLEAN, CarryOut(a, cleanup) PROVE Typed'
  <1>1. agent[a].ev \in Events /\ agent[a].ev # None /\ agent[a].ev.id \in Sessions
    BY DEF CarryOut, Typed, Sound, Hands, Events
  <1>2. PICK next : next = IF cleanup THEN [at |-> "cleanup", ev |-> agent[a].ev] ELSE Idle
    OBVIOUS
  <1>3. next \in Hands /\ Sound(next)
    BY <1>1, <1>2 DEF Idle, Hands, Places, Sound
  <1>4. settled' \subseteq Sessions /\ faults' \in 0 .. MaxFaults /\ UNCHANGED source
    BY <1>1 DEF CarryOut, Typed
  <1>5. CASE Reply(a, "agent_done", "accept", TRUE, next)
    BY <1>1, <1>3, <1>4, <1>5, ReplyTyped
  <1>6. CASE Reply(a, IF agent[a].ev.type = "accept" THEN "complete" ELSE "discarded",
                   agent[a].ev.type, FALSE, next)
    <2>1. PICK reply \in {"complete", "discarded"} :
             reply = IF agent[a].ev.type = "accept" THEN "complete" ELSE "discarded"
      OBVIOUS
    <2>2. PICK named : named = agent[a].ev.type
      OBVIOUS
    <2>3. Reply(a, reply, named, FALSE, next)
      BY <1>6, <2>1, <2>2
    <2> QED
      BY <1>1, <1>3, <1>4, <2>3, ReplyTyped
  <1>7. CASE /\ agent' = [agent EXCEPT ![a] = next]
             /\ UNCHANGED <<serverVars, page, net, history>>
    <2>1. agent' \in [Agents -> Hands] /\ \A b \in Agents : Sound(agent'[b])
      BY <1>3, <1>7 DEF Typed
    <2> QED
      BY <1>4, <1>7, <2>1 DEF Typed, serverVars, history
  <1> QED
    BY <1>2, <1>5, <1>6, <1>7 DEF CarryOut

LEMMA CarryOutFailsTyped ==
    ASSUME Typed, NEW a \in Agents, NEW byHand \in BOOLEAN, CarryOutFails(a, byHand) PROVE Typed'
  <1>1. agent[a].ev \in Events /\ agent[a].ev # None
    BY DEF CarryOutFails, Works, Typed, Sound, Hands
  <1>2. Idle \in Hands /\ Sound(Idle)
    BY DEF Idle, Hands, Places, Sound
  <1>3. PICK next : next = [at |-> "cleanup", ev |-> agent[a].ev]
    OBVIOUS
  <1>4. next \in Hands /\ Sound(next)
    BY <1>1, <1>3 DEF Hands, Places, Sound
  <1>5. settled' \subseteq Sessions /\ faults' \in 0 .. MaxFaults /\ UNCHANGED source
    BY FaultTyped DEF CarryOutFails, Typed
  <1>6. CASE Reply(a, "agent_done", "accept", FALSE, next)
    BY <1>1, <1>4, <1>5, <1>6, ReplyTyped
  <1>7. CASE Reply(a, "error", agent[a].ev.type, FALSE, Idle)
    <2>1. PICK named : named = agent[a].ev.type
      OBVIOUS
    <2>2. Reply(a, "error", named, FALSE, Idle)
      BY <1>7, <2>1
    <2> QED
      BY <1>1, <1>2, <1>5, <2>2, ReplyTyped
  <1> QED
    BY <1>3, <1>6, <1>7 DEF CarryOutFails

LEMMA CleanUpTyped == ASSUME Typed, NEW a \in Agents, CleanUp(a) PROVE Typed'
  <1>1. agent[a].ev \in Events /\ agent[a].ev # None /\ agent[a].ev.id \in Sessions
    BY DEF CleanUp, Typed, Sound, Hands, Events
  <1>2. Idle \in Hands /\ Sound(Idle)
    BY DEF Idle, Hands, Places, Sound
  <1>3. settled' \subseteq Sessions /\ faults' \in 0 .. MaxFaults /\ UNCHANGED source
    BY <1>1 DEF CleanUp, Typed
  <1>4. CASE Reply(a, "complete", None, FALSE, Idle)
    BY <1>1, <1>2, <1>3, <1>4, ReplyTyped
  <1>5. CASE /\ Journal(agent[a].ev.id, Completed(snap[agent[a].ev.id]))
             /\ agent' = [agent EXCEPT ![a] = Idle]
             /\ UNCHANGED <<up, queue, parked, page, net, history>>
    <2>1. Completed(snap[agent[a].ev.id]) \in Snapshots
      BY <1>1, SnapshotsTyped DEF Typed
    <2>2. snap' \in [Sessions -> Snapshots]
      BY <1>1, <1>5, <2>1, JournalTyped DEF Typed
    <2>3. agent' \in [Agents -> Hands] /\ \A b \in Agents : Sound(agent'[b])
      BY <1>2, <1>5 DEF Typed
    <2> QED
      BY <1>3, <1>5, <2>2, <2>3 DEF Typed, history
  <1> QED
    BY <1>4, <1>5 DEF CleanUp

LEMMA AgentDiesTyped == ASSUME Typed, NEW a \in Agents, AgentDies(a) PROVE Typed'
  <1>1. faults' \in 0 .. MaxFaults
    BY FaultTyped DEF AgentDies, Typed
  <1>2. parked' \in Seq(Agents)
    <2>1. PICK gone : gone = {a}
      OBVIOUS
    <2> QED
      BY <2>1, WithoutThins DEF AgentDies, Typed
  <1>3. agent[a].at = "scaffolding" => /\ [agent[a] EXCEPT !.at = "hungup"] \in Hands
                                      /\ Sound([agent[a] EXCEPT !.at = "hungup"])
    BY DEF Typed, Hands, Places, Sound
  <1>4. Idle \in Hands /\ Sound(Idle)
    BY DEF Idle, Hands, Places, Sound
  <1>5. agent' \in [Agents -> Hands] /\ \A b \in Agents : Sound(agent'[b])
    BY <1>3, <1>4 DEF AgentDies, Typed
  <1> QED
    BY <1>1, <1>2, <1>5 DEF Typed, AgentDies

LEMMA TypedStep == Typed /\ [Next]_vars => Typed'
  <1>1. SUFFICES ASSUME Typed, [Next]_vars PROVE Typed'
    OBVIOUS
  <1>2. CASE UNCHANGED vars
    BY <1>1, <1>2 DEF vars, Typed
  <1>3. CASE PageNext
    <2>1. ASSUME NEW s \in Sessions, NEW annotated \in BOOLEAN, Go(s, annotated) PROVE Typed'
      BY <1>1, <2>1, GoTyped
    <2>2. ASSUME NEW pl \in page.pulls, Inject(pl) \/ Mount(pl) \/ PullIsStale(pl) PROVE Typed'
      BY <1>1, <2>2, InjectTyped, MountTyped, PullIsStaleTyped
    <2>3. ASSUME NEW pl \in page.pulls, NEW v \in 1 .. Count, MountFails(pl, v) PROVE Typed'
      BY <1>1, <2>3, MountFailsTyped
    <2>4. ASSUME NEW v \in 1 .. Count, CycleFails(v) PROVE Typed'
      BY <1>1, <2>4, CycleFailsTyped
    <2>5. ASSUME NEW s \in Sessions, EditedAway(s) PROVE Typed'
      BY <1>1, <2>5, EditedAwayTyped
    <2> QED
      BY <1>1, <1>3, <2>1, <2>2, <2>3, <2>4, <2>5, CaptureDoneTyped, AcceptTyped, DiscardTyped,
         ObserveTyped, RetryTyped, ReloadTyped, ConnectionLostTyped, ConnectTyped DEF PageNext
  <1>4. CASE HelperNext
    <2>1. ASSUME NEW r \in net,
                 \/ RequestFails(r) \/ ReceiveGenerate(r) \/ ReceiveCheckpoint(r)
                 \/ RefuseCheckpoint(r) \/ ReceiveOrphaned(r) \/ ReceiveMountFailure(r)
          PROVE  Typed'
      BY <1>1, <2>1, RequestFailsTyped, ReceiveGenerateTyped, ReceiveCheckpointTyped,
         RefuseCheckpointTyped, ReceiveOrphanedTyped, ReceiveMountFailureTyped
    <2>2. ASSUME NEW r \in net, NEW lost \in BOOLEAN, ReceiveAccept(r, lost) \/ ReceiveDiscard(r, lost)
          PROVE  Typed'
      BY <1>1, <2>2, ReceiveAcceptTyped, ReceiveDiscardTyped
    <2>3. ASSUME NEW i \in DOMAIN queue, LeaseLapses(i) PROVE Typed'
      BY <1>1, <2>3, LeaseLapsesTyped
    <2> QED
      BY <1>1, <1>4, <2>1, <2>2, <2>3, CrashTyped, RestartTyped DEF HelperNext
  <1>5. CASE AgentNext
    <2>1. PICK a \in Agents :
             \/ Poll(a) \/ ScaffoldLands(a) \/ Write(a) \/ ReplyError(a) \/ Bounced(a)
             \/ \E lost \in BOOLEAN : ReplyDone(a, lost)
             \/ \E cleanup \in BOOLEAN : CarryOut(a, cleanup)
             \/ \E byHand \in BOOLEAN : CarryOutFails(a, byHand)
             \/ CleanUp(a) \/ AgentDies(a)
      BY <1>5 DEF AgentNext
    <2> QED
      BY <1>1, <2>1, PollTyped, ScaffoldLandsTyped, WriteTyped, ReplyErrorTyped, BouncedTyped,
         ReplyDoneTyped, CarryOutTyped, CarryOutFailsTyped, CleanUpTyped, AgentDiesTyped
  <1> QED
    BY <1>1, <1>2, <1>3, <1>4, <1>5 DEF Next

\* Every variable keeps its type: what the journal folds to, what the queue
\* holds, what an agent has in hand, what the page saves and sends.
THEOREM AlwaysTyped == Spec => []Typed
  BY TypedInit, TypedStep, PTL DEF Spec

-----------------------------------------------------------------------------
(***************************************************************************)
(* One agent at a time has a session's generation in hand.                 *)
(***************************************************************************)

\* What is queued or in hand belongs to a session with a journal.
Journaled(q, ags, sn) ==
    /\ \A i \in 1 .. Len(q) : sn[q[i].ev.id].known
    /\ \A a \in Agents : ags[a].ev # None => sn[ags[a].ev.id].known

\* No event is queued twice.
Distinct(q) == \A i, j \in 1 .. Len(q) : SameEvent(q[i].ev, q[j].ev) => i = j

\* The generation an agent has in hand is leased in the queue, if it is still
\* there, and in nobody else's hands.
OneHand(q, ags, rel) ==
    \A a \in Agents : ags[a].ev # None /\ ags[a].ev.type = "generate" /\ ags[a].ev.id \notin rel =>
        /\ \A i \in 1 .. Len(q) : SameEvent(q[i].ev, ags[a].ev) => q[i].leased
        /\ \A b \in Agents : b # a /\ ags[b].ev # None => ~SameEvent(ags[b].ev, ags[a].ev)

Work(q, ags, sn, rel) == Journaled(q, ags, sn) /\ Distinct(q) /\ OneHand(q, ags, rel)

\* Agents that have put down what they had in hand, or go on with it.
Lighter(ags2, ags) == \A a \in Agents : ags2[a].ev = None \/ ags2[a].ev = ags[a].ev

LEMMA WorkThinned ==
    ASSUME NEW q \in Seq(Entries), NEW r \in Seq(Entries), NEW ags, NEW sn, NEW rel,
           Work(q, ags, sn, rel), Thinned(r, q)
    PROVE  Work(r, ags, sn, rel)
  <1>1. PICK h \in [1 .. Len(r) -> 1 .. Len(q)] :
           /\ \A i \in 1 .. Len(r) : r[i] = q[h[i]]
           /\ \A i, j \in 1 .. Len(r) : h[i] = h[j] => i = j
    BY DEF Thinned
  <1>2. Journaled(r, ags, sn)
    BY <1>1 DEF Work, Journaled
  <1>3. Distinct(r)
    <2>1. SUFFICES ASSUME NEW i \in 1 .. Len(r), NEW j \in 1 .. Len(r), SameEvent(r[i].ev, r[j].ev)
                   PROVE  i = j
      BY DEF Distinct
    <2>2. h[i] = h[j]
      <3>1. h[i] \in 1 .. Len(q) /\ h[j] \in 1 .. Len(q) /\ SameEvent(q[h[i]].ev, q[h[j]].ev)
        BY <1>1, <2>1
      <3>2. \A k, l \in 1 .. Len(q) : SameEvent(q[k].ev, q[l].ev) => k = l
        BY DEF Work, Distinct
      <3> QED
        BY <3>1, <3>2
    <2> QED
      BY <1>1, <2>2
  <1>4. OneHand(r, ags, rel)
    BY <1>1 DEF Work, OneHand
  <1> QED
    BY <1>2, <1>3, <1>4 DEF Work

LEMMA WorkLighter ==
    ASSUME NEW q, NEW ags, NEW ags2, NEW sn, NEW rel, Work(q, ags, sn, rel), Lighter(ags2, ags)
    PROVE  Work(q, ags2, sn, rel)
  BY DEF Work, Lighter, Journaled, OneHand

LEMMA WorkKnown ==
    ASSUME NEW q \in Seq(Entries), NEW ags \in [Agents -> Hands], NEW sn, NEW sn2, NEW rel, NEW rel2,
           Work(q, ags, sn, rel), rel \subseteq rel2,
           \A s \in Sessions : sn[s].known => sn2[s].known
    PROVE  Work(q, ags, sn2, rel2)
  <1>1. \A i \in 1 .. Len(q) : q[i].ev.id \in Sessions
    <2>1. \A i \in 1 .. Len(q) : q[i] \in Entries
      BY ElementOfSeq
    <2> QED
      BY <2>1 DEF Entries, Events
  <1>2. \A a \in Agents : ags[a].ev # None => ags[a].ev.id \in Sessions
    BY DEF Hands, Events
  <1>3. Journaled(q, ags, sn2)
    BY <1>1, <1>2 DEF Work, Journaled
  <1>4. OneHand(q, ags, rel2)
    BY DEF Work, OneHand
  <1> QED
    BY <1>3, <1>4 DEF Work

LEMMA WorkEnqueued ==
    ASSUME NEW q \in Seq(Entries), NEW ags, NEW sn, NEW rel, NEW e \in Events,
           Work(q, ags, sn, rel), sn[e.id].known,
           e.type = "generate" => \A a \in Agents : ags[a].ev # None => ags[a].ev.id # e.id
    PROVE  Work(Enqueued(q, e), ags, sn, rel)
  <1>1. PICK r : r = Enqueued(q, e)
    OBVIOUS
  <1>2. /\ \A i \in 1 .. Len(q) : i \in 1 .. Len(r) /\ r[i] = q[i]
        /\ \/ Len(r) = Len(q)
           \/ /\ Len(r) = Len(q) + 1 /\ r[Len(q) + 1] = [ev |-> e, leased |-> FALSE]
              /\ \A i \in 1 .. Len(q) : ~SameEvent(q[i].ev, e)
    BY <1>1, EnqueuedIs
  <1>3. CASE Len(r) = Len(q)
    BY <1>1, <1>2, <1>3 DEF Work, Journaled, Distinct, OneHand
  <1>4. CASE /\ Len(r) = Len(q) + 1 /\ r[Len(q) + 1] = [ev |-> e, leased |-> FALSE]
             /\ \A i \in 1 .. Len(q) : ~SameEvent(q[i].ev, e)
    <2>1. PICK n \in Nat : n = Len(q)
      OBVIOUS
    <2>2. \A i \in 1 .. Len(r) : i = n + 1 \/ i \in 1 .. n
      BY <1>4, <2>1
    <2>3. r[n + 1].ev = e /\ \A i \in 1 .. n : r[i] = q[i]
      BY <1>2, <1>4, <2>1
    <2>4. Journaled(r, ags, sn)
      BY <2>1, <2>2, <2>3 DEF Work, Journaled
    <2>5. \A i \in 1 .. n : ~SameEvent(q[i].ev, e) /\ ~SameEvent(e, q[i].ev)
      BY <1>4, <2>1 DEF SameEvent
    <2>6. Distinct(r)
      BY <2>1, <2>2, <2>3, <2>5 DEF Work, Distinct
    <2>7. OneHand(r, ags, rel)
      <3>1. SUFFICES ASSUME NEW a \in Agents, ags[a].ev # None, ags[a].ev.type = "generate",
                            ags[a].ev.id \notin rel, NEW i \in 1 .. Len(r),
                            SameEvent(r[i].ev, ags[a].ev)
                     PROVE  r[i].leased
        BY DEF Work, OneHand
      <3>2. CASE i = n + 1
        BY <2>3, <3>1, <3>2 DEF SameEvent
      <3>3. CASE i \in 1 .. n
        BY <2>1, <2>3, <3>1, <3>3 DEF Work, OneHand
      <3> QED
        BY <2>2, <3>2, <3>3
    <2> QED
      BY <1>1, <2>4, <2>6, <2>7 DEF Work
  <1> QED
    BY <1>2, <1>3, <1>4

LEMMA WorkHanded ==
    ASSUME NEW q \in Seq(Entries), NEW ags \in [Agents -> Hands], NEW q2, NEW ags2, NEW sn, NEW rel,
           Work(q, ags, sn, rel), HandedOut(q, ags, q2, ags2)
    PROVE  Work(q2, ags2, sn, rel)
  <1>1. PICK served : Handing(q, ags, q2, ags2, served)
    BY DEF HandedOut
  <1>2. /\ q2 \in Seq(Entries) /\ Len(q2) = Len(q)
        /\ \A i \in 1 .. Len(q) : q2[i].ev = q[i].ev /\ (q[i].leased => q2[i].leased)
    BY <1>1 DEF Handing
  <1>3. \A a \in Agents :
           \/ served[a] = 0 /\ ags2[a].ev = ags[a].ev
           \/ /\ served[a] \in 1 .. Len(q) /\ served[a] # 0 /\ ~q[served[a]].leased
              /\ ags2[a].ev = q[served[a]].ev /\ q2[served[a]].leased
    <2>1. SUFFICES ASSUME NEW a \in Agents, served[a] \in 1 .. Len(q), ags2[a] = Handed(q[served[a]].ev)
                   PROVE  ags2[a].ev = q[served[a]].ev
      BY <1>1 DEF Handing
    <2>2. PICK k \in 1 .. Len(q) : k = served[a]
      BY <2>1
    <2>3. q[k] \in Entries
      BY ElementOfSeq
    <2>4. q[k].ev \in Events
      BY <2>3 DEF Entries
    <2> QED
      BY <2>1, <2>2, <2>4, HandedTyped
  <1>4. \A a, b \in Agents : served[a] = served[b] /\ served[a] # 0 => a = b
    BY <1>1 DEF Handing
  <1>5. Journaled(q2, ags2, sn)
    BY <1>2, <1>3 DEF Work, Journaled
  <1>6. Distinct(q2)
    BY <1>2 DEF Work, Distinct
  <1>7. OneHand(q2, ags2, rel)
    <2>1. SUFFICES ASSUME NEW a \in Agents, ags2[a].ev # None, ags2[a].ev.type = "generate",
                          ags2[a].ev.id \notin rel
                   PROVE  /\ \A i \in 1 .. Len(q) : SameEvent(q2[i].ev, ags2[a].ev) => q2[i].leased
                          /\ \A b \in Agents : b # a /\ ags2[b].ev # None =>
                                ~SameEvent(ags2[b].ev, ags2[a].ev)
      BY <1>2 DEF OneHand
    <2>2. \A x, y : SameEvent(x, y) /\ y.type = "generate" =>
                       SameEvent(y, x) /\ x.type = "generate" /\ x.id = y.id
      BY DEF SameEvent
    <2>3. CASE served[a] = 0
      <3>1. ags2[a].ev = ags[a].ev
        BY <1>3, <2>3
      <3>2. \A i \in 1 .. Len(q) : SameEvent(q[i].ev, ags[a].ev) => q[i].leased
        BY <2>1, <3>1 DEF Work, OneHand
      <3>3. \A i \in 1 .. Len(q) : SameEvent(q2[i].ev, ags2[a].ev) => q2[i].leased
        BY <1>2, <3>1, <3>2
      <3>4. ASSUME NEW b \in Agents, b # a, ags2[b].ev # None, SameEvent(ags2[b].ev, ags2[a].ev)
            PROVE  FALSE
        <4>1. CASE ags2[b].ev = ags[b].ev
          BY <2>1, <3>1, <3>4, <4>1 DEF Work, OneHand
        <4>2. CASE /\ served[b] \in 1 .. Len(q) /\ ~q[served[b]].leased /\ ags2[b].ev = q[served[b]].ev
          BY <3>1, <3>2, <3>4, <4>2
        <4> QED
          BY <1>3, <4>1, <4>2
      <3> QED
        BY <3>3, <3>4
    <2>4. CASE served[a] # 0
      <3>1. PICK k \in 1 .. Len(q) : k = served[a]
        BY <1>3, <2>4
      <3>2. ags2[a].ev = q[k].ev /\ q2[k].leased /\ ~q[k].leased
        BY <1>3, <2>4, <3>1
      <3>3. \A i \in 1 .. Len(q) : SameEvent(q2[i].ev, ags2[a].ev) => q2[i].leased
        <4>1. SUFFICES ASSUME NEW i \in 1 .. Len(q), SameEvent(q2[i].ev, ags2[a].ev) PROVE i = k
          BY <3>2
        <4> QED
          BY <1>2, <3>2, <4>1 DEF Work, Distinct
      <3>4. ASSUME NEW b \in Agents, b # a, ags2[b].ev # None, SameEvent(ags2[b].ev, ags2[a].ev)
            PROVE  FALSE
        <4>1. ags2[b].ev.type = "generate" /\ ags2[b].ev.id = ags2[a].ev.id
              /\ SameEvent(ags2[a].ev, ags2[b].ev)
          BY <2>1, <2>2, <3>4
        <4>2. CASE ags2[b].ev = ags[b].ev
          <5>1. \A i \in 1 .. Len(q) : SameEvent(q[i].ev, ags[b].ev) => q[i].leased
            BY <2>1, <3>4, <4>1, <4>2 DEF Work, OneHand
          <5> QED
            BY <3>2, <4>1, <4>2, <5>1
        <4>3. CASE /\ served[b] \in 1 .. Len(q) /\ served[b] # 0 /\ ags2[b].ev = q[served[b]].ev
          <5>1. served[b] = k
            BY <3>2, <3>4, <4>3 DEF Work, Distinct
          <5> QED
            BY <1>4, <3>1, <3>4, <4>3, <5>1
        <4> QED
          BY <1>3, <4>2, <4>3
      <3> QED
        BY <3>3, <3>4
    <2> QED
      BY <2>3, <2>4
  <1> QED
    BY <1>5, <1>6, <1>7 DEF Work

\* The event a restarted helper would queue again is the session's own.
OwnPending(sn) == \A s \in Sessions : sn[s].pending # None => sn[s].pending.id = s

\* The event that creates a session leaves the page once, and before the
\* session has a journal.
Creation(n, capture, sn) ==
    /\ capture # None =>
         /\ ~sn[capture].known
         /\ \A r \in n : ~(r.kind = "generate" /\ r.id = capture)
    /\ \A r \in n : r.kind = "generate" => ~sn[r.id].known
    /\ \A r, d \in n : r.kind = "generate" /\ d.kind = "generate" /\ r.id = d.id => r = d

Worked ==
    /\ Work(queue, agent, snap, relet)
    /\ OwnPending(snap)
    /\ Creation(net, page.capture, snap)

\* A step that leaves out entries, hands out others and lets agents put down
\* what they have.
LEMMA WorkStep ==
    ASSUME Typed, Worked, NEW q \in Seq(Entries), NEW ags \in [Agents -> Hands],
           Thinned(q, queue), Lighter(ags, agent), HandedOut(q, ags, queue', agent'),
           \A s \in Sessions : snap[s].known => snap'[s].known, relet \subseteq relet'
    PROVE  Work(queue', agent', snap', relet')
  <1>1. Work(q, agent, snap, relet)
    BY WorkThinned DEF Typed, Worked
  <1>2. Work(q, ags, snap, relet)
    BY <1>1, WorkLighter
  <1>3. Work(queue', agent', snap, relet)
    BY <1>2, WorkHanded
  <1>4. queue' \in Seq(Entries) /\ agent' \in [Agents -> Hands]
    BY DEF HandedOut, Handing
  <1>5. PICK q2 \in Seq(Entries), ags2 \in [Agents -> Hands], sn2 \in {snap'}, rel2 \in {relet'} :
           q2 = queue' /\ ags2 = agent' /\ sn2 = snap' /\ rel2 = relet'
    BY <1>4
  <1> QED
    BY <1>3, <1>5, WorkKnown

LEMMA NothingHandedOut ==
    ASSUME NEW q \in Seq(Entries), NEW ags \in [Agents -> Hands]
    PROVE  HandedOut(q, ags, q, ags)
  <1>1. PICK served : served = [a \in Agents |-> 0]
    OBVIOUS
  <1>2. Handing(q, ags, q, ags, served)
    BY <1>1 DEF Handing
  <1> QED
    BY <1>2 DEF HandedOut

\* The page's operators leave the screenshot it waits for alone.
LEMMA CaptureStays ==
    ASSUME NEW p \in Pages
    PROVE  /\ Saved(p).capture = p.capture
           /\ LetGo(p).capture = p.capture
           /\ NextRevision(p).capture = p.capture
           /\ \A id, why : Pulling(p, id, why).capture = p.capture
           /\ \A id : /\ AcceptConfirmed(p, id).capture = p.capture
                     /\ AcceptFailed(p, id).capture = p.capture
  <1>1. Saved(p).capture = p.capture /\ NextRevision(p).capture = p.capture
    BY DEF Saved, NextRevision, Pages
  <1>2. LetGo(p) \in Pages /\ LetGo(p).capture = p.capture
    <2>1. PICK q : q = [p EXCEPT !.handled = IF p.cur = None THEN @ ELSE p.cur]
      OBVIOUS
    <2>2. q \in Pages /\ q.capture = p.capture
      BY <2>1 DEF Pages
    <2>3. LetGo(p) = Cleaned(q)
      BY <2>1 DEF LetGo
    <2> QED
      BY <2>2, <2>3, CleanedTyped DEF Cleaned, Pages
  <1>3. \A id, why : Pulling(p, id, why).capture = p.capture
    BY DEF Pulling, Pages
  <1>4. \A id : AcceptFailed(p, id).capture = p.capture
    BY DEF AcceptFailed, Pages
  <1>5. \A id : AcceptConfirmed(p, id).capture = p.capture
    <2>1. PICK q \in Pages : q = LetGo(p)
      BY <1>2
    <2>2. \A id : [q EXCEPT !.deciding = None, !.awaiting = id].capture = q.capture
      BY DEF Pages
    <2> QED
      BY <1>2, <2>1, <2>2 DEF AcceptConfirmed
  <1> QED
    BY <1>1, <1>2, <1>3, <1>4, <1>5

LEMMA CaptureStaysHearing ==
    ASSUME NEW p \in Pages, NEW id \in Sessions
    PROVE  /\ HearDone(p, id).capture = p.capture
           /\ HearDiscarded(p, id).capture = p.capture
           /\ HearAccepted(p, id).capture = p.capture
           /\ HearError(p, id).capture = p.capture
           /\ \A reply \in {"done", "agent_done", "error", "complete", "discarded"}, c \in BOOLEAN :
                 page = p => PageOf(reply, id, c).capture = p.capture
  <1>1. HearDone(p, id).capture = p.capture
    <2>1. PICK told : told = IF p.cur = id THEN [p EXCEPT !.file = TRUE] ELSE p
      OBVIOUS
    <2>2. told \in Pages /\ told.capture = p.capture
      BY <2>1 DEF Pages
    <2>3. [told EXCEPT !.st = IF @ = "GENERATING" THEN "CYCLING" ELSE @].capture = told.capture
      BY <2>2 DEF Pages
    <2>4. /\ Pulling(told, id, "component").capture = told.capture
          /\ Pulling(told, id, "done").capture = told.capture
      BY <2>2, CaptureStays
    <2> QED
      BY <2>1, <2>2, <2>3, <2>4 DEF HearDone
  <1>2. HearDiscarded(p, id).capture = p.capture
    BY CaptureStays DEF HearDiscarded
  <1>3. HearAccepted(p, id).capture = p.capture
    <2>1. PICK told : told = [p EXCEPT !.awaiting = IF @ = id THEN None ELSE @]
      OBVIOUS
    <2>2. told \in Pages /\ told.capture = p.capture
      BY <2>1 DEF Pages, Known
    <2>3. PICK over : over = [told EXCEPT !.deciding = None]
      OBVIOUS
    <2>4. over \in Pages /\ over.capture = p.capture
      BY <2>2, <2>3 DEF Pages, Known
    <2>5. LetGo(over).capture = p.capture
      BY <2>4, CaptureStays
    <2> QED
      BY <2>1, <2>2, <2>3, <2>4, <2>5 DEF HearAccepted
  <1>4. HearError(p, id).capture = p.capture
    <2>1. PICK q \in Pages : q = AcceptFailed(p, id) /\ q.capture = p.capture
      BY AcceptFailedTyped, CaptureStays
    <2>2. [q EXCEPT !.awaiting = None].capture = p.capture
      BY <2>1 DEF Pages
    <2>3. [p EXCEPT !.awaiting = None].capture = p.capture
      BY DEF Pages
    <2>4. [p EXCEPT !.st = "PICKING", !.stored = IF @.id = id THEN NothingSaved ELSE @].capture = p.capture
      BY DEF Pages
    <2>5. LetGo(p).capture = p.capture
      BY CaptureStays
    <2> QED
      BY <2>1, <2>2, <2>3, <2>4, <2>5 DEF HearError
  <1> QED
    BY <1>1, <1>2, <1>3, <1>4 DEF PageOf

\* Steps that create no session and send no event that would.
LEMMA CreationQuiet ==
    ASSUME Worked, page'.capture \in {page.capture, None},
           \A s \in Sessions : snap'[s].known = snap[s].known, Typed, Typed',
           \A r \in net' : r.kind = "generate" => r \in net
    PROVE  Creation(net', page'.capture, snap')
  <1>1. \A r \in net' : r.id \in Sessions
    BY DEF Typed, Requests
  <1>2. page'.capture # None => page'.capture \in Sessions
    BY DEF Typed, Pages, Known
  <1> QED
    BY <1>1, <1>2 DEF Worked, Creation

LEMMA PageStepWorked ==
    ASSUME Typed, Typed', Worked, UNCHANGED <<snap, queue, agent, relet>>,
           page'.capture \in {page.capture, None},
           \A r \in net' : r.kind = "generate" => r \in net
    PROVE  Worked'
  <1>1. Creation(net', page'.capture, snap')
    BY CreationQuiet
  <1>2. Work(queue', agent', snap', relet') /\ OwnPending(snap')
    BY DEF Worked
  <1> QED
    BY <1>1, <1>2 DEF Worked

LEMMA GoWorked ==
    ASSUME Typed, Typed', Worked, NEW s \in Sessions, NEW annotated \in BOOLEAN, Go(s, annotated)
    PROVE  Worked'
  <1>1. UNCHANGED <<snap, queue, agent, relet>> /\ ~snap[s].known /\ page.capture = None
        /\ \A r \in net : r.id # s
    BY DEF Go, serverVars, workVars, history, Unused
  <1>2. PICK q : q = [page EXCEPT !.cur = s, !.st = "GENERATING", !.arrived = 0, !.file = FALSE,
                                  !.deciding = None, !.awaiting = None]
    OBVIOUS
  <1>3. PICK p : p = NextRevision(Saved(q))
    OBVIOUS
  <1>4. p \in Pages /\ p.cur = s
    BY <1>2, <1>3, GoPage
  <1>5. page'.capture = IF annotated THEN s ELSE None
    <2>1. page' = [p EXCEPT !.capture = IF annotated THEN s ELSE None]
      BY <1>2, <1>3 DEF Go
    <2> QED
      BY <1>4, <2>1 DEF Pages
  <1>6. net' = net \union {CheckpointOf(p)} \union (IF annotated THEN {} ELSE {Request("generate", s)})
    BY <1>2, <1>3 DEF Go, Sends
  <1>7. CheckpointOf(p).kind = "checkpoint"
    BY <1>4, CheckpointOfTyped, SessionsAssumption DEF Typed
  <1>8. Request("generate", s).id = s
    BY DEF Request
  <1>9. PICK c, g : c = CheckpointOf(p) /\ g = Request("generate", s)
    OBVIOUS
  <1>10. /\ c.kind = "checkpoint" /\ g.id = s
         /\ net' = net \union {c} \union (IF annotated THEN {} ELSE {g})
    BY <1>6, <1>7, <1>8, <1>9
  <1>11. Creation(net', page'.capture, snap')
    <2>1. Creation(net, page.capture, snap)
      BY DEF Worked
    <2>2. CASE annotated
      <3>1. net' = net \union {c} /\ page'.capture = s
        BY <1>5, <1>10, <2>2
      <3> QED
        <4>1. \A r \in net' : r.kind = "generate" => r \in net
          BY <1>10, <3>1
        <4>2. \A r \in net : r.kind = "generate" => ~snap[r.id].known
          BY <2>1 DEF Creation
        <4>3. \A r, d \in net : r.kind = "generate" /\ d.kind = "generate" /\ r.id = d.id => r = d
          BY <2>1 DEF Creation
        <4>4. \A r \in net : r.id # s
          BY <1>1
        <4>5. snap' = snap /\ ~snap[s].known
          BY <1>1
        <4>6. \A r \in net' : ~(r.kind = "generate" /\ r.id = s)
          BY <4>1, <4>4
        <4>7. \A r \in net' : r.kind = "generate" => ~snap'[r.id].known
          BY <4>1, <4>2, <4>5
        <4>8. \A r, d \in net' : r.kind = "generate" /\ d.kind = "generate" /\ r.id = d.id => r = d
          BY <4>1, <4>3
        <4> QED
          BY <3>1, <4>5, <4>6, <4>7, <4>8 DEF Creation
    <2>3. CASE ~annotated
      <3>1. net' = net \union {c, g} /\ page'.capture = None
        BY <1>5, <1>10, <2>3
      <3>2. \A r \in net' : r.kind = "generate" => r \in net \/ r = g
        BY <1>10, <3>1
      <3> QED
        <4>1. \A r \in net : r.id # s /\ (r.kind = "generate" => ~snap[r.id].known)
          <5>1. \A r \in net : r.id # s
            BY <1>1
          <5>2. \A r \in net : r.kind = "generate" => ~snap[r.id].known
            BY <2>1 DEF Creation
          <5> QED
            BY <5>1, <5>2
        <4>2. \A r, d \in net : r.kind = "generate" /\ d.kind = "generate" /\ r.id = d.id => r = d
          BY <2>1 DEF Creation
        <4>3. \A r \in net' : r.kind = "generate" => ~snap[r.id].known
          BY <1>1, <1>10, <3>2, <4>1
        <4>4. ASSUME NEW r \in net', NEW d \in net', r.kind = "generate", d.kind = "generate", r.id = d.id
              PROVE  r = d
          <5>1. (r \in net \/ r = g) /\ (d \in net \/ d = g)
            BY <3>2, <4>4
          <5> QED
            BY <1>10, <4>1, <4>2, <4>4, <5>1
        <4>5. snap' = snap
          BY <1>1
        <4> QED
          BY <3>1, <4>3, <4>4, <4>5 DEF Creation
    <2> QED
      BY <2>2, <2>3
  <1>12. Work(queue', agent', snap', relet') /\ OwnPending(snap')
    BY <1>1 DEF Worked
  <1> QED
    BY <1>11, <1>12 DEF Worked

LEMMA CaptureDoneWorked == ASSUME Typed, Typed', Worked, CaptureDone PROVE Worked'
  <1>1. UNCHANGED <<snap, queue, agent, relet>> /\ page.capture # None
    BY DEF CaptureDone, serverVars, workVars, history
  <1>2. PICK g : g = Request("generate", page.capture)
    OBVIOUS
  <1>3. g.id = page.capture /\ net' = net \union {g}
    BY <1>2 DEF CaptureDone, Sends, Request
  <1>4. page'.capture = None
    BY DEF CaptureDone, Typed, Pages
  <1>5. Creation(net', page'.capture, snap')
    BY <1>1, <1>3, <1>4 DEF Worked, Creation
  <1>6. Work(queue', agent', snap', relet') /\ OwnPending(snap')
    BY <1>1 DEF Worked
  <1> QED
    BY <1>5, <1>6 DEF Worked

LEMMA AcceptWorked == ASSUME Typed, Typed', Worked, Accept PROVE Worked'
  <1>1. UNCHANGED <<snap, queue, agent, relet>>
    BY DEF Accept, serverVars, workVars, history
  <1>2. PICK g : g = Request("accept", page.cur)
    OBVIOUS
  <1>3. g.kind = "accept" /\ net' = net \union {g}
    BY <1>2 DEF Accept, Sends, Request
  <1>4. PICK q : q = [page EXCEPT !.st = "SAVING", !.deciding = page.cur]
    OBVIOUS
  <1>5. q \in Pages /\ q.capture = page.capture
    BY <1>4 DEF Typed, Pages, Known, States
  <1>6. page'.capture = page.capture
    BY <1>4, <1>5, CaptureStays DEF Accept
  <1> QED
    BY <1>1, <1>3, <1>6, PageStepWorked

LEMMA DiscardWorked == ASSUME Typed, Typed', Worked, Discard PROVE Worked'
  <1>1. UNCHANGED <<snap, queue, agent, relet>> /\ page' = page
    BY DEF Discard, serverVars, workVars, history
  <1>2. PICK g : g = Request("discard", page.cur)
    OBVIOUS
  <1>3. g.kind = "discard" /\ net' = net \union {g}
    BY <1>2 DEF Discard, Sends, Request
  <1> QED
    BY <1>1, <1>3, PageStepWorked

LEMMA ObserveWorked == ASSUME Typed, Typed', Worked, Observe PROVE Worked'
  <1>1. UNCHANGED <<snap, queue, agent, relet>>
    BY DEF Observe, serverVars, workVars, history
  <1>2. PICK q : q = [page EXCEPT !.arrived = source[page.cur], !.st = "CYCLING"]
    OBVIOUS
  <1>3. q \in Pages /\ q.capture = page.capture /\ q.cur # None
    BY <1>2 DEF Observe, Typed, Pages, States, Known
  <1>4. PICK p : p = NextRevision(Saved(q))
    OBVIOUS
  <1>5. p \in Pages /\ p.capture = page.capture /\ p.cur # None
    <2>1. PICK t \in Pages : t = Saved(q)
      BY <1>3, SavedTyped
    <2>2. t.capture = page.capture /\ t.cur # None
      BY <1>3, <2>1 DEF Saved, Pages
    <2> QED
      BY <1>4, <2>1, <2>2, NextRevisionTyped DEF NextRevision, Pages
  <1>6. page' = p /\ net' = net \union {CheckpointOf(p)}
    BY <1>2, <1>4 DEF Observe, Sends
  <1>7. CheckpointOf(p).kind = "checkpoint"
    BY <1>5, CheckpointOfTyped DEF Typed
  <1> QED
    BY <1>1, <1>5, <1>6, <1>7, PageStepWorked

LEMMA RetryWorked == ASSUME Typed, Typed', Worked, Retry PROVE Worked'
  <1>1. UNCHANGED <<snap, queue, agent, relet, net>>
    BY DEF Retry, serverVars, workVars, history
  <1>2. page'.capture = page.capture
    <2>1. page \in Pages /\ page' = Pulling(page, page.cur, "component")
      BY DEF Retry, Typed
    <2>2. \A id, why : Pulling(page, id, why).capture = page.capture
      BY <2>1, CaptureStays
    <2> QED
      BY <2>1, <2>2
  <1> QED
    BY <1>1, <1>2, PageStepWorked

LEMMA InjectWorked == ASSUME Typed, Typed', Worked, NEW pl \in page.pulls, Inject(pl) PROVE Worked'
  <1>1. UNCHANGED <<snap, queue, agent, relet>>
    BY DEF Inject, serverVars, workVars, history
  <1>2. PICK p : p = [page EXCEPT !.pulls = @ \ {pl}]
    OBVIOUS
  <1>3. p \in Pages /\ p.capture = page.capture
    BY <1>2 DEF Typed, Pages
  <1>4. PICK d : d = [Request("discard", pl.id) EXCEPT !.orphaned = TRUE]
    OBVIOUS
  <1>5. d.kind = "discard"
    BY <1>4 DEF Request
  <1>6. \/ /\ page' = Saved([p EXCEPT !.arrived = source[pl.id], !.st = "CYCLING"]) /\ net' = net
        \/ page' = LetGo(p) /\ net' = net \union {d}
        \/ page' = p /\ net' = net
    BY <1>2, <1>4 DEF Inject, Sends
  <1>7. PICK t : t = [p EXCEPT !.arrived = source[pl.id], !.st = "CYCLING"]
    OBVIOUS
  <1>8. t \in Pages /\ t.capture = p.capture
    <2>1. pl.id \in Sessions
      BY DEF Typed, Pages, Pulls
    <2> QED
      BY <1>3, <1>7, <2>1 DEF Typed, Pages, States
  <1>9. page'.capture = page.capture
    BY <1>3, <1>6, <1>7, <1>8, CaptureStays
  <1>10. \A r \in net' : r.kind = "generate" => r \in net
    BY <1>5, <1>6
  <1> QED
    BY <1>1, <1>9, <1>10, PageStepWorked

LEMMA MountWorked == ASSUME Typed, Typed', Worked, NEW pl \in page.pulls, Mount(pl) PROVE Worked'
  <1>1. UNCHANGED <<snap, queue, agent, relet, net>>
    BY DEF Mount, serverVars, workVars, history
  <1>2. PICK n \in 0 .. Count : n = Count
    BY CountAssumption
  <1>3. PICK t : t = [page EXCEPT !.pulls = @ \ {pl}, !.arrived = n, !.st = "CYCLING", !.file = TRUE]
    OBVIOUS
  <1>4. t \in Pages /\ t.capture = page.capture
    BY <1>3 DEF Typed, Pages, States
  <1>5. page'.capture = page.capture
    BY <1>2, <1>3, <1>4, CaptureStays DEF Mount
  <1> QED
    BY <1>1, <1>5, PageStepWorked

LEMMA MountFailsWorked ==
    ASSUME Typed, Typed', Worked, NEW pl \in page.pulls, NEW v \in 1 .. Count, MountFails(pl, v)
    PROVE  Worked'
  <1>1. UNCHANGED <<snap, queue, agent, relet>>
    BY DEF MountFails, serverVars, workVars, history
  <1>2. PICK t : t = [page EXCEPT !.pulls = @ \ {pl},
                                  !.st = IF @ = "CYCLING" THEN @ ELSE "GENERATING"]
    OBVIOUS
  <1>3. t \in Pages /\ t.capture = page.capture
    BY <1>2 DEF Typed, Pages, States
  <1>4. page'.capture = page.capture
    BY <1>2, <1>3, CaptureStays DEF MountFails
  <1>5. PICK r : r = [Request("variant_mount_failed", pl.id) EXCEPT !.variant = v]
    OBVIOUS
  <1>6. pl.id \in Sessions
    BY DEF Typed, Pages, Pulls
  <1>7. r.kind = "variant_mount_failed" /\ net' = net \union {r}
    BY <1>5, <1>6, MountRequestTyped DEF MountFails, Sends, Typed
  <1> QED
    BY <1>1, <1>4, <1>7, PageStepWorked

LEMMA PullIsStaleWorked ==
    ASSUME Typed, Typed', Worked, NEW pl \in page.pulls, PullIsStale(pl) PROVE Worked'
  <1>1. UNCHANGED <<snap, queue, agent, relet, net>>
    BY DEF PullIsStale, serverVars, workVars, history
  <1>2. page'.capture = page.capture
    BY DEF PullIsStale, Typed, Pages
  <1> QED
    BY <1>1, <1>2, PageStepWorked

LEMMA CycleFailsWorked ==
    ASSUME Typed, Typed', Worked, NEW v \in 1 .. Count, CycleFails(v) PROVE Worked'
  <1>1. UNCHANGED <<snap, queue, agent, relet, page>> /\ page.cur \in Sessions
    BY DEF CycleFails, serverVars, workVars, history, Typed
  <1>2. PICK r : r = [Request("variant_mount_failed", page.cur) EXCEPT !.variant = v]
    OBVIOUS
  <1>3. r.kind = "variant_mount_failed" /\ net' = net \union {r}
    BY <1>1, <1>2, MountRequestTyped DEF CycleFails, Sends, Typed
  <1> QED
    BY <1>1, <1>3, PageStepWorked

LEMMA ReloadWorked == ASSUME Typed, Typed', Worked, Reload PROVE Worked'
  <1>1. PICK sent \in SUBSET {r \in net : ~r.gated} :
          LET kept  == {[r EXCEPT !.heard = FALSE] : r \in sent}
              shown == {s \in Sessions \ mounted : Wrapped(s)}
          IN  \/ \E id \in shown \ {page.handled} :
                    Reports(Saved(ResumedFromWrapper(id)), kept)
              \/ /\ page.handled \in shown
                 /\ page' = Reloaded /\ net' = kept
              \/ /\ shown = {} /\ Restores(Reloaded, page.stored, {})
                 /\ Reports(Restored(Reloaded, page.stored, {}), kept)
              \/ /\ shown = {} /\ ~Restores(Reloaded, page.stored, {})
                 /\ page' = [Reloaded EXCEPT !.stored = NothingSaved, !.handled = None]
                 /\ net' = kept
    BY DEF Reload
  <1>2. PICK kept : kept = {[r EXCEPT !.heard = FALSE] : r \in sent}
    OBVIOUS
  <1>3. page \in Pages /\ page.stored \in Records /\ Reloaded \in Pages /\ Reloaded.capture = None
    <2>1. FreshPage \in Pages /\ FreshPage.capture = None
      BY NothingSavedTyped, CountAssumption DEF FreshPage, Pages, Known, States
    <2> QED
      BY <2>1, ReloadedTyped DEF Typed, Pages, Reloaded
  <1>4. \/ \E p \in Pages : p.capture = None /\ p.cur # None /\ Reports(p, kept)
        \/ page'.capture = None /\ net' = kept
    <2>1. CASE \E id \in Sessions : Reports(Saved(ResumedFromWrapper(id)), kept)
      <3>1. PICK id \in Sessions : Reports(Saved(ResumedFromWrapper(id)), kept)
        BY <2>1
      <3>2. PICK w : w = ResumedFromWrapper(id)
        OBVIOUS
      <3>3. w \in Pages /\ w.cur = id /\ w.capture = None
        BY <1>3, <3>2, ResumedTyped DEF Typed, ResumedFromWrapper, Pages
      <3>4. Saved(w) \in Pages /\ Saved(w).cur = id /\ Saved(w).capture = None
        BY <3>3, SavedTyped DEF Saved, Pages
      <3> QED
        BY <3>1, <3>2, <3>4, SessionsAssumption
    <2>2. CASE page' = Reloaded /\ net' = kept
      BY <1>3, <2>2
    <2>3. CASE Restores(Reloaded, page.stored, {}) /\ Reports(Restored(Reloaded, page.stored, {}), kept)
      <3>1. page.stored.id # None
        BY <2>3 DEF Restores
      <3>2. PICK w : w = Restored(Reloaded, page.stored, {})
        OBVIOUS
      <3>3. w \in Pages /\ w.cur # None /\ w.capture = None
        BY <1>3, <3>1, <3>2, RestoredTyped, RestoredShows DEF Typed
      <3> QED
        BY <2>3, <3>2, <3>3
    <2>4. CASE page' = [Reloaded EXCEPT !.stored = NothingSaved, !.handled = None] /\ net' = kept
      BY <1>3, <2>4 DEF Pages
    <2> QED
      BY <1>1, <1>2, <2>1, <2>2, <2>3, <2>4
  <1>5. page'.capture = None /\ \A x \in net' : x.kind = "generate" => x \in kept
    <2>1. CASE \E p \in Pages : p.capture = None /\ p.cur # None /\ Reports(p, kept)
      <3>1. PICK p \in Pages : p.capture = None /\ p.cur # None /\ Reports(p, kept)
        BY <2>1
      <3>2. PICK q : q = NextRevision(p)
        OBVIOUS
      <3>3. q \in Pages /\ q.cur = p.cur /\ q.capture = None
        BY <3>1, <3>2, NextRevisionTyped DEF NextRevision, Pages
      <3>4. PICK c \in Requests : c = CheckpointOf(q) /\ c.kind = "checkpoint"
        BY <1>3, <3>1, <3>3, CheckpointOfTyped
      <3>5. [c EXCEPT !.gated = FALSE].kind = "checkpoint"
        BY <3>4 DEF Requests
      <3>6. page' = q /\ net' = kept \union {[c EXCEPT !.gated = FALSE]}
        BY <3>1, <3>2, <3>4 DEF Reports, Sends
      <3> QED
        BY <3>3, <3>5, <3>6
    <2>2. CASE page'.capture = None /\ net' = kept
      BY <2>2
    <2> QED
      BY <1>4, <2>1, <2>2
  <1>6. Creation(net', page'.capture, snap)
    <2>1. PICK n : n = net'
      OBVIOUS
    <2>2. \A r \in net : [r EXCEPT !.heard = FALSE].kind = r.kind /\ [r EXCEPT !.heard = FALSE].id = r.id
      BY DEF Typed, Requests
    <2>3. \A x \in n : x.kind # "generate" \/ \E r \in net : x = [r EXCEPT !.heard = FALSE]
      BY <1>2, <1>5, <2>1
    <2>4. Creation(n, None, snap)
      <3>1. /\ \A r \in net : r.kind = "generate" => ~snap[r.id].known
            /\ \A r, d \in net : r.kind = "generate" /\ d.kind = "generate" /\ r.id = d.id => r = d
        BY DEF Worked, Creation
      <3>2. ASSUME NEW x \in n, x.kind = "generate"
            PROVE  \E r \in net : x = [r EXCEPT !.heard = FALSE] /\ r.kind = "generate" /\ r.id = x.id
        <4>1. PICK r \in net : x = [r EXCEPT !.heard = FALSE]
          BY <2>3, <3>2
        <4>2. r.kind = x.kind /\ r.id = x.id
          BY <2>2, <4>1
        <4> QED
          BY <3>2, <4>1, <4>2
      <3>3. \A x \in n : x.kind = "generate" => ~snap[x.id].known
        BY <3>1, <3>2
      <3>4. ASSUME NEW x \in n, NEW y \in n, x.kind = "generate", y.kind = "generate", x.id = y.id
            PROVE  x = y
        <4>1. PICK r \in net : x = [r EXCEPT !.heard = FALSE] /\ r.kind = "generate" /\ r.id = x.id
          BY <3>2, <3>4
        <4>2. PICK d \in net : y = [d EXCEPT !.heard = FALSE] /\ d.kind = "generate" /\ d.id = y.id
          BY <3>2, <3>4
        <4>3. r = d
          BY <3>1, <3>4, <4>1, <4>2
        <4> QED
          BY <4>1, <4>2, <4>3
      <3> QED
        BY <3>3, <3>4 DEF Creation
    <2> QED
      BY <1>5, <2>1, <2>4
  <1>7. UNCHANGED <<snap, queue, agent, relet>>
    BY DEF Reload, serverVars, workVars, history
  <1> QED
    BY <1>6, <1>7 DEF Worked

LEMMA ConnectionLostWorked == ASSUME Typed, Typed', Worked, ConnectionLost PROVE Worked'
  <1>1. UNCHANGED <<snap, queue, agent, relet, net>>
    BY DEF ConnectionLost, serverVars, workVars, history
  <1>2. page'.capture = page.capture
    BY DEF ConnectionLost, Typed, Pages
  <1> QED
    BY <1>1, <1>2, PageStepWorked

LEMMA ConnectWorked == ASSUME Typed, Typed', Worked, Connect PROVE Worked'
  <1>1. UNCHANGED <<snap, queue, agent, relet>>
    BY DEF Connect, serverVars, workVars, history
  <1>2. PICK p : p = [page EXCEPT !.conn = TRUE]
    OBVIOUS
  <1>3. p \in Pages /\ p.stored \in Records /\ p.capture = page.capture
    BY <1>2 DEF Typed, Pages
  <1>4. PICK summary \in SUBSET Sessions : summary = {s \in Sessions : Active(snap[s])}
    OBVIOUS
  <1>5. \/ \E r \in IF p.stored.id # None THEN {p.stored} ELSE Adopted(p, summary) :
              LET q == NextRevision(Restored(p, r, summary))
              IN  page' = CaughtUp(q, summary) /\ net' = net \union {CheckpointOf(q)}
        \/ page' = CaughtUp(p, summary) /\ net' = net
    BY <1>2, <1>4 DEF Connect, Sends
  <1>6. \A r \in IF p.stored.id # None THEN {p.stored} ELSE Adopted(p, summary) :
           r \in Records /\ r.id # None
    BY <1>3, AdoptedTyped DEF Typed
  <1>7. \A q \in Pages : CaughtUp(q, summary).capture = q.capture
    <2>1. SUFFICES ASSUME NEW q \in Pages PROVE CaughtUp(q, summary).capture = q.capture
      OBVIOUS
    <2>2. PICK t : t = [q EXCEPT !.file = TRUE]
      OBVIOUS
    <2>3. t \in Pages /\ t.capture = q.capture
      BY <2>2 DEF Pages
    <2>4. \A why : Pulling(t, q.cur, why).capture = q.capture
      BY <2>3, CaptureStays
    <2> QED
      BY <2>2, <2>4 DEF CaughtUp
  <1>8. CASE \E r \in IF p.stored.id # None THEN {p.stored} ELSE Adopted(p, summary) :
               LET q == NextRevision(Restored(p, r, summary))
               IN  page' = CaughtUp(q, summary) /\ net' = net \union {CheckpointOf(q)}
    <2>1. PICK r \in IF p.stored.id # None THEN {p.stored} ELSE Adopted(p, summary) :
               LET q == NextRevision(Restored(p, r, summary))
               IN  page' = CaughtUp(q, summary) /\ net' = net \union {CheckpointOf(q)}
      BY <1>8
    <2>2. r \in Records /\ r.id # None
      BY <1>6
    <2>3. PICK w : w = Restored(p, r, summary)
      OBVIOUS
    <2>4. w \in Pages /\ w.cur # None /\ w.capture = page.capture
      BY <1>3, <2>2, <2>3, RestoredTyped, RestoredShows DEF Typed
    <2>5. PICK q : q = NextRevision(w)
      OBVIOUS
    <2>6. q \in Pages /\ q.cur # None /\ q.capture = page.capture
      BY <2>4, <2>5, NextRevisionTyped DEF NextRevision, Pages
    <2>7. page' = CaughtUp(q, summary) /\ net' = net \union {CheckpointOf(q)}
      BY <2>1, <2>3, <2>5
    <2>8. CheckpointOf(q).kind = "checkpoint"
      BY <2>6, CheckpointOfTyped DEF Typed
    <2>9. page'.capture = page.capture
      BY <1>7, <2>6, <2>7
    <2>10. \A x \in net' : x.kind = "generate" => x \in net
      BY <2>7, <2>8
    <2> QED
      BY <1>1, <2>9, <2>10, PageStepWorked
  <1>9. CASE page' = CaughtUp(p, summary) /\ net' = net
    <2>1. page'.capture = page.capture
      BY <1>3, <1>7, <1>9
    <2> QED
      BY <1>1, <1>9, <2>1, PageStepWorked
  <1> QED
    BY <1>5, <1>8, <1>9

LEMMA EditedAwayWorked == ASSUME Typed, Typed', Worked, NEW s \in Sessions, EditedAway(s) PROVE Worked'
  <1>1. UNCHANGED <<snap, queue, agent, relet, net, page>>
    BY DEF EditedAway, serverVars, history
  <1> QED
    BY <1>1 DEF Worked

\* A journal entry makes the session known, and its pending event is kept,
\* dropped, or the one just journaled.
LEMMA SnapshotsKnown ==
    ASSUME NEW sn \in Snapshots, NEW e \in Events
    PROVE  /\ Generated(sn, e).known /\ Generated(sn, e).pending = e
           /\ Accepted(sn, e).known /\ Accepted(sn, e).pending = e
           /\ DiscardRequested(sn, e).known /\ DiscardRequested(sn, e).pending = e
           /\ Discarded(sn).known /\ Discarded(sn).pending = None
           /\ Completed(sn).known /\ Completed(sn).pending = None
           /\ MountFailed(sn, e).known /\ MountFailed(sn, e).pending \in {sn.pending, e}
           /\ \A c \in BOOLEAN : /\ AgentDone(sn, c).known
                                /\ AgentDone(sn, c).pending \in {None, sn.pending}
           /\ \A t : /\ AgentFailed(sn, t).known
                    /\ AgentFailed(sn, t).pending \in {None, sn.pending}
           /\ \A c : /\ Checkpointed(sn, c).known
                    /\ Checkpointed(sn, c).pending = sn.pending
  <1>1. PICK t : t = Touched(sn)
    OBVIOUS
  <1>2. t \in Snapshots /\ t.known /\ t.pending = sn.pending
    BY <1>1 DEF Touched, Snapshots
  <1>3. Generated(sn, e).known /\ Generated(sn, e).pending = e
    BY <1>1, <1>2 DEF Generated, Snapshots
  <1>4. Accepted(sn, e).known /\ Accepted(sn, e).pending = e
    BY <1>1, <1>2 DEF Accepted, Snapshots
  <1>5. DiscardRequested(sn, e).known /\ DiscardRequested(sn, e).pending = e
    BY <1>1, <1>2 DEF DiscardRequested, Snapshots
  <1>6. /\ Discarded(sn).known /\ Discarded(sn).pending = None
        /\ Completed(sn).known /\ Completed(sn).pending = None
    BY <1>1, <1>2 DEF Discarded, Completed, Snapshots
  <1>7. MountFailed(sn, e).known /\ MountFailed(sn, e).pending \in {sn.pending, e}
    BY <1>1, <1>2 DEF MountFailed, Snapshots
  <1>8. \A c \in BOOLEAN : AgentDone(sn, c).known /\ AgentDone(sn, c).pending \in {None, sn.pending}
    BY <1>1, <1>2 DEF AgentDone, Snapshots
  <1>9. \A u : AgentFailed(sn, u).known /\ AgentFailed(sn, u).pending \in {None, sn.pending}
    BY <1>1, <1>2 DEF AgentFailed, Snapshots
  <1>10. \A c : Checkpointed(sn, c).known /\ Checkpointed(sn, c).pending = sn.pending
    BY <1>1, <1>2 DEF Checkpointed, Snapshots
  <1> QED
    BY <1>3, <1>4, <1>5, <1>6, <1>7, <1>8, <1>9, <1>10

LEMMA JournalOfKnown ==
    ASSUME NEW sn \in Snapshots, NEW reply \in {"done", "agent_done", "error", "complete", "discarded"},
           NEW acked, NEW c \in BOOLEAN, NEW e \in Events
    PROVE  /\ JournalOf(reply, sn, acked, c).known
           /\ JournalOf(reply, sn, acked, c).pending \in {None, sn.pending}
  BY SnapshotsKnown DEF JournalOf

\* Journaling an entry for a session that is known, or becomes known.
LEMMA JournaledStep ==
    ASSUME Typed, Worked, NEW id \in Sessions, NEW sn \in Snapshots, sn.known,
           sn.pending # None => sn.pending = snap[id].pending \/ sn.pending.id = id,
           snap' = [snap EXCEPT ![id] = sn]
    PROVE  /\ OwnPending(snap')
           /\ \A s \in Sessions : snap[s].known => snap'[s].known
           /\ snap[id].known => \A s \in Sessions : snap'[s].known = snap[s].known
           /\ snap'[id].known
  <1>1. \A s \in Sessions : snap'[s] = IF s = id THEN sn ELSE snap[s]
    BY DEF Typed
  <1>2. OwnPending(snap')
    BY <1>1 DEF OwnPending, Worked
  <1>3. \A s \in Sessions : snap[s].known => snap'[s].known
    BY <1>1
  <1>4. sn.known = TRUE /\ snap[id].known \in BOOLEAN
    BY DEF Typed, Snapshots
  <1>5. snap[id].known => \A s \in Sessions : snap'[s].known = snap[s].known
    BY <1>1, <1>4
  <1> QED
    BY <1>1, <1>2, <1>3, <1>5

\* Journaling an entry, retiring some events and queueing one.
LEMMA QueueStepWorked ==
    ASSUME Typed, Worked, NEW q \in Seq(Entries), Thinned(q, queue), NEW e \in Events,
           NEW sn \in Snapshots, sn.known,
           sn.pending # None => sn.pending = snap[e.id].pending \/ sn.pending.id = e.id,
           snap' = [snap EXCEPT ![e.id] = sn], Flush(Enqueued(q, e), agent), relet' = relet,
           e.type = "generate" => ~snap[e.id].known
    PROVE  Work(queue', agent', snap', relet')
  <1>1. e.id \in Sessions
    BY DEF Events
  <1>2. (\A s \in Sessions : snap[s].known => snap'[s].known) /\ snap'[e.id].known
    BY <1>1, JournaledStep
  <1>3. Work(q, agent, snap, relet)
    BY WorkThinned DEF Typed, Worked
  <1>4. agent \in [Agents -> Hands]
    BY DEF Typed
  <1>5. PICK sn2 : sn2 = snap'
    OBVIOUS
  <1>6. Work(q, agent, sn2, relet)
    BY <1>2, <1>3, <1>4, <1>5, WorkKnown
  <1>7. e.type = "generate" => \A a \in Agents : agent[a].ev # None => agent[a].ev.id # e.id
    BY <1>3 DEF Work, Journaled
  <1>8. PICK r \in Seq(Entries) : r = Enqueued(q, e)
    BY EnqueuedIs
  <1>9. Work(r, agent, sn2, relet)
    BY <1>2, <1>5, <1>6, <1>7, <1>8, WorkEnqueued
  <1>10. Flush(r, agent)
    BY <1>8
  <1>11. HandedOut(r, agent, queue', agent')
    BY <1>4, <1>10, FlushTyped DEF Typed
  <1>12. Work(queue', agent', sn2, relet)
    BY <1>4, <1>9, <1>11, WorkHanded
  <1> QED
    BY <1>5, <1>12

\* What a request of the page asks an agent.
LEMMA RequestAsks ==
    ASSUME Typed, NEW r \in net
    PROVE  /\ r \in Requests /\ r.id \in Sessions /\ snap[r.id] \in Snapshots
           /\ \A t \in {"generate", "accept", "discard", "variant_mount_failed"}, v \in {0, r.variant} :
                 /\ EventOf(t, r.id, v) \in Events
                 /\ EventOf(t, r.id, v).id = r.id /\ EventOf(t, r.id, v).type = t
  <1>1. r \in Requests
    BY DEF Typed
  <1>2. r.id \in Sessions /\ r.variant \in 0 .. Count
    BY <1>1 DEF Requests
  <1>3. snap[r.id] \in Snapshots
    BY <1>2 DEF Typed
  <1>4. 0 \in 0 .. Count
    BY CountAssumption
  <1>5. ASSUME NEW t \in {"generate", "accept", "discard", "variant_mount_failed"},
               NEW v \in {0, r.variant}
        PROVE  /\ EventOf(t, r.id, v) \in Events
               /\ EventOf(t, r.id, v).id = r.id /\ EventOf(t, r.id, v).type = t
    <2>1. v \in 0 .. Count
      BY <1>2, <1>4
    <2>2. EventOf(t, r.id, v) \in Events
      BY <1>2, <2>1, EventOfTyped
    <2> QED
      BY <2>2 DEF EventOf
  <1> QED
    BY <1>1, <1>2, <1>3, <1>5

LEMMA RequestFailsWorked ==
    ASSUME Typed, Typed', Worked, NEW r \in net, RequestFails(r) PROVE Worked'
  <1>1. UNCHANGED <<snap, queue, agent, relet>> /\ net' = net \ {r}
    BY DEF RequestFails, serverVars, workVars
  <1>2. page'.capture = page.capture
    <2>1. page \in Pages
      BY DEF Typed
    <2> QED
      BY <2>1, CaptureStays DEF RequestFails
  <1> QED
    BY <1>1, <1>2, PageStepWorked

LEMMA ReceiveGenerateWorked ==
    ASSUME Typed, Typed', Worked, NEW r \in net, ReceiveGenerate(r) PROVE Worked'
  <1>1. PICK e \in Events : e = EventOf("generate", r.id, 0) /\ e.id = r.id /\ e.type = "generate"
    BY RequestAsks
  <1>2. e.id = r.id /\ r.id \in Sessions /\ r.kind = "generate"
    BY <1>1, RequestAsks DEF ReceiveGenerate, Arrives
  <1>3. PICK sn \in Snapshots : sn = Generated(snap[e.id], e) /\ sn.known /\ sn.pending = e
    <2>1. PICK old \in Snapshots : old = snap[e.id]
      BY <1>2, RequestAsks
    <2>2. Generated(old, e) \in Snapshots
      BY SnapshotsTyped
    <2>3. Generated(old, e).known /\ Generated(old, e).pending = e
      BY SnapshotsKnown
    <2> QED
      BY <2>1, <2>2, <2>3
  <1>4. snap' = [snap EXCEPT ![e.id] = sn] /\ Flush(Enqueued(queue, e), agent)
    BY <1>1, <1>2, <1>3 DEF ReceiveGenerate, Journal
  <1>5. ~snap[e.id].known
    BY <1>2 DEF Worked, Creation
  <1>6. relet' = relet /\ page' = page /\ net' = net \ {r}
    BY DEF ReceiveGenerate, history
  <1>7. queue \in Seq(Entries) /\ Thinned(queue, queue)
    BY ThinnedSelf DEF Typed
  <1>8. Work(queue', agent', snap', relet')
    BY <1>3, <1>4, <1>5, <1>6, <1>7, QueueStepWorked
  <1>9. OwnPending(snap')
    BY <1>2, <1>3, <1>4, JournaledStep
  <1>10. \A s \in Sessions : s # r.id => snap'[s].known = snap[s].known
    BY <1>2, <1>4 DEF Typed
  <1>11. Creation(net', page'.capture, snap')
    <2>1. /\ page.capture # None => /\ ~snap[page.capture].known
                                    /\ \A d \in net : ~(d.kind = "generate" /\ d.id = page.capture)
          /\ \A d \in net : d.kind = "generate" => ~snap[d.id].known
          /\ \A c, d \in net : c.kind = "generate" /\ d.kind = "generate" /\ c.id = d.id => c = d
      BY DEF Worked, Creation
    <2>2. \A d \in net' : d \in net /\ d # r /\ d.id \in Sessions
      BY <1>6 DEF Typed, Requests
    <2>3. \A d \in net' : d.kind = "generate" => d.id # r.id
      BY <1>2, <2>1, <2>2
    <2>4. \A d \in net' : d.kind = "generate" => ~snap'[d.id].known
      BY <1>10, <2>1, <2>2, <2>3
    <2>5. page.capture # None => page.capture # r.id /\ page.capture \in Sessions
      BY <1>2, <2>1 DEF Typed, Pages, Known
    <2>6. page'.capture # None => /\ ~snap'[page'.capture].known
                                  /\ \A d \in net' : ~(d.kind = "generate" /\ d.id = page'.capture)
      BY <1>6, <1>10, <2>1, <2>2, <2>5
    <2>7. \A c, d \in net' : c.kind = "generate" /\ d.kind = "generate" /\ c.id = d.id => c = d
      BY <2>1, <2>2
    <2> QED
      BY <2>4, <2>6, <2>7 DEF Creation
  <1> QED
    BY <1>8, <1>9, <1>11 DEF Worked

LEMMA ReceiveCheckpointWorked ==
    ASSUME Typed, Typed', Worked, NEW r \in net, ReceiveCheckpoint(r) PROVE Worked'
  <1>1. r.id \in Sessions /\ r \in Requests /\ snap[r.id].known /\ r.phase # ""
    BY DEF Typed, Requests, ReceiveCheckpoint, Arrives
  <1>2. PICK e \in Events : e = EventOf("accept", r.id, 0)
    <2>1. r.id \in Sessions
      BY <1>1
    <2> QED
      BY <2>1, EventOfTyped, CountAssumption
  <1>3. PICK old \in Snapshots : old = snap[r.id]
    BY <1>1 DEF Typed
  <1>4. PICK sn \in Snapshots : sn = Checkpointed(old, r) /\ sn.known /\ sn.pending = old.pending
    <2>1. Checkpointed(old, r) \in Snapshots
      BY <1>1, SnapshotsTyped
    <2>2. Checkpointed(old, r).known /\ Checkpointed(old, r).pending = old.pending
      BY <1>2, SnapshotsKnown
    <2> QED
      BY <2>1, <2>2
  <1>5. snap' = [snap EXCEPT ![r.id] = sn]
    BY <1>3, <1>4 DEF ReceiveCheckpoint, Journal
  <1>6. OwnPending(snap') /\ \A s \in Sessions : snap'[s].known = snap[s].known
    BY <1>1, <1>3, <1>4, <1>5, JournaledStep
  <1>7. UNCHANGED <<queue, agent, relet>> /\ net' = net \ {r}
    BY DEF ReceiveCheckpoint, workVars, history
  <1>8. page'.capture = page.capture
    <2>1. page \in Pages
      BY DEF Typed
    <2> QED
      BY <1>1, <2>1, CaptureStaysHearing DEF ReceiveCheckpoint, Announced
  <1>9. Creation(net', page'.capture, snap')
    BY <1>6, <1>7, <1>8, CreationQuiet
  <1>10. Work(queue', agent', snap', relet')
    <2>1. PICK sn2 : sn2 = snap'
      OBVIOUS
    <2>2. Work(queue, agent, sn2, relet)
      BY <1>6, <2>1, WorkKnown DEF Worked, Typed
    <2> QED
      BY <1>7, <2>1, <2>2
  <1> QED
    BY <1>6, <1>9, <1>10 DEF Worked

LEMMA RefuseCheckpointWorked ==
    ASSUME Typed, Typed', Worked, NEW r \in net, RefuseCheckpoint(r) PROVE Worked'
  <1>1. UNCHANGED <<snap, queue, agent, relet>> /\ net' = net \ {r}
    BY DEF RefuseCheckpoint, serverVars, workVars
  <1>2. page'.capture = page.capture
    <2>1. page \in Pages
      BY DEF Typed
    <2> QED
      BY <2>1, CaptureStays DEF RefuseCheckpoint
  <1> QED
    BY <1>1, <1>2, PageStepWorked

LEMMA ReceiveAcceptWorked ==
    ASSUME Typed, Typed', Worked, NEW r \in net, NEW lost \in BOOLEAN, ReceiveAccept(r, lost)
    PROVE  Worked'
  <1>1. PICK e \in Events : e = EventOf("accept", r.id, 0) /\ e.id = r.id /\ e.type = "accept"
    BY RequestAsks
  <1>2. e.id = r.id /\ e.type = "accept" /\ r.id \in Sessions /\ snap[e.id].known
    BY <1>1, RequestAsks DEF ReceiveAccept
  <1>3. PICK sn \in Snapshots : sn = Accepted(snap[e.id], e) /\ sn.known /\ sn.pending = e
    <2>1. PICK old \in Snapshots : old = snap[e.id]
      BY <1>2, RequestAsks
    <2>2. Accepted(old, e) \in Snapshots
      BY SnapshotsTyped
    <2>3. Accepted(old, e).known /\ Accepted(old, e).pending = e
      BY SnapshotsKnown
    <2> QED
      BY <2>1, <2>2, <2>3
  <1>4. PICK q \in Seq(Entries) : q = Retired(queue, r.id) /\ Thinned(q, queue)
    BY RetiredIs DEF Typed
  <1>5. snap' = [snap EXCEPT ![e.id] = sn] /\ Flush(Enqueued(q, e), agent)
    BY <1>1, <1>2, <1>3, <1>4 DEF ReceiveAccept, Journal
  <1>6. relet' = relet /\ net' = net \ {r}
    BY DEF ReceiveAccept
  <1>7. Work(queue', agent', snap', relet')
    BY <1>2, <1>3, <1>4, <1>5, <1>6, QueueStepWorked
  <1>8. OwnPending(snap') /\ \A s \in Sessions : snap'[s].known = snap[s].known
    BY <1>2, <1>3, <1>5, JournaledStep
  <1>9. page'.capture = page.capture
    <2>1. page \in Pages
      BY DEF Typed
    <2> QED
      BY <2>1, CaptureStays DEF ReceiveAccept
  <1>10. Creation(net', page'.capture, snap')
    BY <1>6, <1>8, <1>9, CreationQuiet
  <1> QED
    BY <1>7, <1>8, <1>10 DEF Worked

LEMMA ReceiveDiscardWorked ==
    ASSUME Typed, Typed', Worked, NEW r \in net, NEW lost \in BOOLEAN, ReceiveDiscard(r, lost)
    PROVE  Worked'
  <1>1. PICK e \in Events : e = EventOf("discard", r.id, 0) /\ e.id = r.id /\ e.type = "discard"
    BY RequestAsks
  <1>2. e.id = r.id /\ e.type = "discard" /\ r.id \in Sessions /\ snap[e.id].known
    BY <1>1, RequestAsks DEF ReceiveDiscard
  <1>3. PICK sn \in Snapshots : sn = DiscardRequested(snap[e.id], e) /\ sn.known /\ sn.pending = e
    <2>1. PICK old \in Snapshots : old = snap[e.id]
      BY <1>2, RequestAsks
    <2>2. DiscardRequested(old, e) \in Snapshots
      BY SnapshotsTyped
    <2>3. DiscardRequested(old, e).known /\ DiscardRequested(old, e).pending = e
      BY SnapshotsKnown
    <2> QED
      BY <2>1, <2>2, <2>3
  <1>4. PICK q \in Seq(Entries) : q = Retired(queue, r.id) /\ Thinned(q, queue)
    BY RetiredIs DEF Typed
  <1>5. snap' = [snap EXCEPT ![e.id] = sn] /\ Flush(Enqueued(q, e), agent)
    BY <1>1, <1>2, <1>3, <1>4 DEF ReceiveDiscard, Journal
  <1>6. relet' = relet /\ net' = net \ {r}
    BY DEF ReceiveDiscard, history
  <1>7. Work(queue', agent', snap', relet')
    BY <1>2, <1>3, <1>4, <1>5, <1>6, QueueStepWorked
  <1>8. OwnPending(snap') /\ \A s \in Sessions : snap'[s].known = snap[s].known
    BY <1>2, <1>3, <1>5, JournaledStep
  <1>9. page'.capture = page.capture
    <2>1. page \in Pages
      BY DEF Typed
    <2> QED
      BY <2>1, CaptureStays DEF ReceiveDiscard
  <1>10. Creation(net', page'.capture, snap')
    BY <1>6, <1>8, <1>9, CreationQuiet
  <1> QED
    BY <1>7, <1>8, <1>10 DEF Worked

LEMMA ReceiveOrphanedWorked ==
    ASSUME Typed, Typed', Worked, NEW r \in net, ReceiveOrphaned(r) PROVE Worked'
  <1>1. PICK e \in Events : e = EventOf("discard", r.id, 0) /\ e.id = r.id /\ e.type = "discard"
    BY RequestAsks
  <1>2. r.id \in Sessions /\ snap[r.id].known
    BY DEF Typed, Requests, ReceiveOrphaned
  <1>3. PICK sn \in Snapshots : sn = DiscardRequested(snap[r.id], e)
    BY <1>2, SnapshotsTyped DEF Typed
  <1>4. PICK sn2 \in Snapshots : sn2 = Discarded(sn) /\ sn2.known /\ sn2.pending = None
    <2>1. Discarded(sn) \in Snapshots
      BY <1>1, SnapshotsTyped
    <2>2. Discarded(sn).known /\ Discarded(sn).pending = None
      BY <1>1, SnapshotsKnown
    <2> QED
      BY <2>1, <2>2
  <1>5. snap' = [snap EXCEPT ![r.id] = sn2]
    BY <1>1, <1>3, <1>4 DEF ReceiveOrphaned, Journal
  <1>6. OwnPending(snap') /\ \A s \in Sessions : snap'[s].known = snap[s].known
    BY <1>2, <1>4, <1>5, JournaledStep
  <1>7. PICK q \in Seq(Entries) : q = Retired(queue, r.id) /\ Thinned(q, queue)
    BY RetiredIs DEF Typed
  <1>8. queue' = q /\ UNCHANGED <<agent, relet, page>> /\ net' = net \ {r}
    BY <1>7 DEF ReceiveOrphaned, workVars, history
  <1>9. agent \in [Agents -> Hands] /\ Lighter(agent, agent)
    BY DEF Typed, Lighter
  <1>10. HandedOut(q, agent, queue', agent')
    BY <1>8, <1>9, NothingHandedOut
  <1>11. Work(queue', agent', snap', relet')
    BY <1>6, <1>7, <1>8, <1>9, <1>10, WorkStep
  <1>12. Creation(net', page'.capture, snap')
    BY <1>6, <1>8, CreationQuiet
  <1> QED
    BY <1>6, <1>11, <1>12 DEF Worked

LEMMA ReceiveMountFailureWorked ==
    ASSUME Typed, Typed', Worked, NEW r \in net, ReceiveMountFailure(r) PROVE Worked'
  <1>1. PICK e \in Events : /\ e = EventOf("variant_mount_failed", r.id, r.variant)
                            /\ e.id = r.id /\ e.type = "variant_mount_failed"
    BY RequestAsks
  <1>2. e.id = r.id /\ e.type = "variant_mount_failed" /\ r.id \in Sessions /\ snap[e.id].known
    BY <1>1, RequestAsks DEF ReceiveMountFailure
  <1>3. PICK sn \in Snapshots : sn = MountFailed(snap[e.id], e) /\ sn.known
                               /\ sn.pending \in {snap[e.id].pending, e}
    <2>1. PICK old \in Snapshots : old = snap[e.id]
      BY <1>2, RequestAsks
    <2>2. MountFailed(old, e) \in Snapshots
      BY SnapshotsTyped
    <2>3. MountFailed(old, e).known /\ MountFailed(old, e).pending \in {old.pending, e}
      BY SnapshotsKnown
    <2> QED
      BY <2>1, <2>2, <2>3
  <1>4. snap' = [snap EXCEPT ![e.id] = sn] /\ Flush(Enqueued(queue, e), agent)
    BY <1>1, <1>2, <1>3 DEF ReceiveMountFailure, Journal
  <1>5. UNCHANGED <<relet, page>> /\ net' = net \ {r}
    BY DEF ReceiveMountFailure, history
  <1>6. queue \in Seq(Entries) /\ Thinned(queue, queue)
    BY ThinnedSelf DEF Typed
  <1>7. Work(queue', agent', snap', relet')
    BY <1>2, <1>3, <1>4, <1>5, <1>6, QueueStepWorked
  <1>8. OwnPending(snap') /\ \A s \in Sessions : snap'[s].known = snap[s].known
    BY <1>2, <1>3, <1>4, JournaledStep
  <1>9. Creation(net', page'.capture, snap')
    BY <1>5, <1>8, CreationQuiet
  <1> QED
    BY <1>7, <1>8, <1>9 DEF Worked
LEMMA WorkUnleased ==
    ASSUME NEW q \in Seq(Entries), NEW ags, NEW sn, NEW rel, NEW i \in 1 .. Len(q),
           Work(q, ags, sn, rel)
    PROVE  Work([q EXCEPT ![i].leased = FALSE], ags, sn, rel \union {q[i].ev.id})
  <1>1. PICK r : r = [q EXCEPT ![i].leased = FALSE]
    OBVIOUS
  <1>2. /\ Len(r) = Len(q)
        /\ \A j \in 1 .. Len(q) : r[j].ev = q[j].ev /\ (j # i => r[j] = q[j])
    BY <1>1, UnleasedTyped
  <1>3. Journaled(r, ags, sn)
    BY <1>2 DEF Work, Journaled
  <1>4. Distinct(r)
    BY <1>2 DEF Work, Distinct
  <1>5. OneHand(r, ags, rel \union {q[i].ev.id})
    <2>1. SUFFICES ASSUME NEW a \in Agents, ags[a].ev # None, ags[a].ev.type = "generate",
                          ags[a].ev.id \notin rel, ags[a].ev.id # q[i].ev.id
                   PROVE  /\ \A j \in 1 .. Len(r) : SameEvent(r[j].ev, ags[a].ev) => r[j].leased
                          /\ \A b \in Agents : b # a /\ ags[b].ev # None =>
                                ~SameEvent(ags[b].ev, ags[a].ev)
      BY DEF OneHand
    <2>2. /\ \A j \in 1 .. Len(q) : SameEvent(q[j].ev, ags[a].ev) => q[j].leased
          /\ \A b \in Agents : b # a /\ ags[b].ev # None => ~SameEvent(ags[b].ev, ags[a].ev)
      BY <2>1 DEF Work, OneHand
    <2>3. ASSUME NEW j \in 1 .. Len(r), SameEvent(r[j].ev, ags[a].ev) PROVE r[j].leased
      <3>1. j # i
        BY <1>2, <2>1, <2>3 DEF SameEvent
      <3> QED
        BY <1>2, <2>2, <2>3, <3>1
    <2> QED
      BY <2>2, <2>3
  <1> QED
    BY <1>1, <1>3, <1>4, <1>5 DEF Work

LEMMA LeaseLapsesWorked ==
    ASSUME Typed, Typed', Worked, NEW i \in DOMAIN queue, LeaseLapses(i) PROVE Worked'
  <1>1. queue \in Seq(Entries) /\ i \in 1 .. Len(queue)
    BY LenProperties DEF Typed
  <1>2. PICK q : q = [queue EXCEPT ![i].leased = FALSE]
    OBVIOUS
  <1>3. q \in Seq(Entries)
    BY <1>1, <1>2, UnleasedTyped
  <1>4. PICK rel : rel = relet \union {queue[i].ev.id}
    OBVIOUS
  <1>5. Work(q, agent, snap, rel)
    BY <1>1, <1>2, <1>4, WorkUnleased DEF Worked
  <1>6. Flush(q, agent) /\ relet' = rel /\ UNCHANGED <<snap, page, net>>
    BY <1>2, <1>4 DEF LeaseLapses
  <1>7. agent \in [Agents -> Hands] /\ HandedOut(q, agent, queue', agent')
    BY <1>3, <1>6, FlushTyped DEF Typed
  <1>8. Work(queue', agent', snap, rel)
    BY <1>3, <1>5, <1>7, WorkHanded
  <1> QED
    BY <1>6, <1>8 DEF Worked

LEMMA CrashWorked == ASSUME Typed, Typed', Worked, Crash PROVE Worked'
  <1>1. queue' = <<>> /\ UNCHANGED <<snap, net, relet>> /\ page' = [page EXCEPT !.conn = FALSE]
    BY DEF Crash, history
  <1>2. Lighter(agent', agent)
    <2>1. SUFFICES ASSUME NEW a \in Agents
                   PROVE  agent'[a].ev = None \/ agent'[a].ev = agent[a].ev
      BY DEF Lighter
    <2>2. agent'[a] \in {[agent[a] EXCEPT !.at = "cutoff"], Idle, agent[a]}
      BY DEF Crash
    <2>3. agent[a] \in Hands
      BY DEF Typed
    <2> QED
      BY <2>2, <2>3 DEF Idle, Hands
  <1>3. PICK ags : ags = agent'
    OBVIOUS
  <1>4. Work(queue, ags, snap, relet)
    BY <1>2, <1>3, WorkLighter DEF Worked
  <1>5. \A i \in 1 .. Len(<<>>) : FALSE
    OBVIOUS
  <1>6. Work(<<>>, ags, snap, relet)
    BY <1>4, <1>5 DEF Work, Journaled, Distinct, OneHand
  <1>7. page'.capture = page.capture
    BY <1>1 DEF Typed, Pages
  <1> QED
    BY <1>1, <1>3, <1>6, <1>7 DEF Worked

LEMMA RestartWorked == ASSUME Typed, Typed', Worked, Restart PROVE Worked'
  <1>1. PICK waiting : waiting = {s \in Sessions : Active(snap[s]) /\ snap[s].pending # None}
    OBVIOUS
  <1>2. PICK order \in [1 .. Len(queue') -> waiting] :
           /\ queue' \in Seq(Entries)
           /\ \A i \in 1 .. Len(queue') :
                 queue'[i] = [ev |-> snap[order[i]].pending, leased |-> FALSE]
           /\ \A i, j \in 1 .. Len(queue') : order[i] = order[j] => i = j
           /\ relet' = relet \union waiting
    BY <1>1, RestartIs
  <1>3. /\ UNCHANGED <<snap, agent>> /\ page' = [page EXCEPT !.token = FALSE]
        /\ net' = {[r EXCEPT !.valid = FALSE] : r \in net}
    BY DEF Restart, workVars
  <1>4. \A i \in 1 .. Len(queue') : /\ queue'[i].ev.id = order[i] /\ order[i] \in waiting
                                   /\ snap[order[i]].known
    <2>1. SUFFICES ASSUME NEW i \in 1 .. Len(queue')
                   PROVE  queue'[i].ev.id = order[i] /\ order[i] \in waiting /\ snap[order[i]].known
      OBVIOUS
    <2>2. PICK s \in waiting : s = order[i]
      BY <1>2
    <2>3. s \in Sessions /\ Active(snap[s]) /\ snap[s].pending # None
      BY <1>1
    <2>4. snap[s].pending.id = s
      BY <2>3 DEF Worked, OwnPending
    <2>5. queue'[i].ev = snap[s].pending
      <3>1. queue'[i] = [ev |-> snap[order[i]].pending, leased |-> FALSE]
        BY <1>2
      <3> QED
        BY <2>2, <3>1
    <2> QED
      BY <2>2, <2>3, <2>4, <2>5 DEF Active
  <1>5. PICK q, rel : q = queue' /\ rel = relet'
    OBVIOUS
  <1>6. Work(q, agent, snap, rel)
    <2>1. Journaled(q, agent, snap)
      BY <1>4, <1>5 DEF Worked, Work, Journaled
    <2>2. Distinct(q)
      BY <1>2, <1>4, <1>5 DEF Distinct, SameEvent
    <2>3. OneHand(q, agent, rel)
      <3>1. SUFFICES ASSUME NEW a \in Agents, agent[a].ev # None, agent[a].ev.type = "generate",
                            agent[a].ev.id \notin rel
                     PROVE  /\ \A i \in 1 .. Len(q) : SameEvent(q[i].ev, agent[a].ev) => q[i].leased
                            /\ \A b \in Agents : b # a /\ agent[b].ev # None =>
                                  ~SameEvent(agent[b].ev, agent[a].ev)
        BY DEF OneHand
      <3>2. agent[a].ev.id \notin relet /\ agent[a].ev.id \notin waiting
        BY <1>2, <1>5, <3>1
      <3>3. \A i \in 1 .. Len(q) : ~SameEvent(q[i].ev, agent[a].ev)
        BY <1>4, <1>5, <3>2 DEF SameEvent
      <3>4. \A b \in Agents : b # a /\ agent[b].ev # None => ~SameEvent(agent[b].ev, agent[a].ev)
        BY <3>1, <3>2 DEF Worked, Work, OneHand
      <3> QED
        BY <3>3, <3>4
    <2> QED
      BY <2>1, <2>2, <2>3 DEF Work
  <1>7. page'.capture = page.capture
    BY <1>3 DEF Typed, Pages
  <1>8. Creation(net', page'.capture, snap)
    <2>1. PICK n, c : n = net' /\ c = page.capture
      OBVIOUS
    <2>2. \A r \in net : [r EXCEPT !.valid = FALSE].kind = r.kind /\ [r EXCEPT !.valid = FALSE].id = r.id
      BY DEF Typed, Requests
    <2>3. /\ c # None => /\ ~snap[c].known
                         /\ \A r \in net : ~(r.kind = "generate" /\ r.id = c)
          /\ \A r \in net : r.kind = "generate" => ~snap[r.id].known
          /\ \A r, d \in net : r.kind = "generate" /\ d.kind = "generate" /\ r.id = d.id => r = d
      BY <2>1 DEF Worked, Creation
    <2>4. ASSUME NEW x \in n
          PROVE  \E r \in net : x = [r EXCEPT !.valid = FALSE] /\ r.kind = x.kind /\ r.id = x.id
      BY <1>3, <2>1, <2>2
    <2>5. \A x \in n : x.kind = "generate" => ~snap[x.id].known
      BY <2>3, <2>4
    <2>6. ASSUME NEW x \in n, NEW y \in n, x.kind = "generate", y.kind = "generate", x.id = y.id
          PROVE  x = y
      <3>1. PICK r \in net : x = [r EXCEPT !.valid = FALSE] /\ r.kind = x.kind /\ r.id = x.id
        BY <2>4
      <3>2. PICK d \in net : y = [d EXCEPT !.valid = FALSE] /\ d.kind = y.kind /\ d.id = y.id
        BY <2>4
      <3>3. r = d
        BY <2>3, <2>6, <3>1, <3>2
      <3> QED
        BY <3>1, <3>2, <3>3
    <2>7. c # None => ~snap[c].known /\ \A x \in n : ~(x.kind = "generate" /\ x.id = c)
      <3>1. ASSUME c # None, NEW x \in n, x.kind = "generate", x.id = c PROVE FALSE
        <4>1. PICK r \in net : x = [r EXCEPT !.valid = FALSE] /\ r.kind = x.kind /\ r.id = x.id
          BY <2>4
        <4> QED
          BY <2>3, <3>1, <4>1
      <3> QED
        BY <2>3, <3>1
    <2> QED
      BY <1>7, <2>1, <2>5, <2>6, <2>7 DEF Creation
  <1> QED
    BY <1>3, <1>5, <1>6, <1>8 DEF Worked

\* A poll that is answered at once is given an entry like those that waited.
LEMMA PollHandsOut ==
    ASSUME Typed, Typed', NEW a \in Agents, NEW i \in Available(queue),
           queue' = Leased(queue, {i}), agent' = [agent EXCEPT ![a] = Handed(queue[i].ev)]
    PROVE  HandedOut(queue, agent, queue', agent')
  <1>1. queue \in Seq(Entries) /\ i \in 1 .. Len(queue) /\ ~queue[i].leased
    BY LenProperties DEF Typed, Available
  <1>2. /\ queue' \in Seq(Entries) /\ Len(queue') = Len(queue)
        /\ \A j \in 1 .. Len(queue) :
              /\ queue'[j].ev = queue[j].ev
              /\ queue'[j].leased = (queue[j].leased \/ j \in {i})
    BY <1>1, LeasedIs
  <1>3. PICK served : served = [b \in Agents |-> IF b = a THEN i ELSE 0]
    OBVIOUS
  <1>4. agent \in [Agents -> Hands] /\ agent' \in [Agents -> Hands]
    BY DEF Typed
  <1>5. \A b \in Agents :
           \/ served[b] = 0 /\ agent'[b] = agent[b]
           \/ /\ served[b] \in 1 .. Len(queue) /\ ~queue[served[b]].leased
              /\ agent'[b] = Handed(queue[served[b]].ev) /\ queue'[served[b]].leased
    <2>1. SUFFICES ASSUME NEW b \in Agents
                   PROVE \/ served[b] = 0 /\ agent'[b] = agent[b]
                         \/ /\ served[b] \in 1 .. Len(queue) /\ ~queue[served[b]].leased
                            /\ agent'[b] = Handed(queue[served[b]].ev) /\ queue'[served[b]].leased
      OBVIOUS
    <2>2. CASE b = a
      <3>1. served[b] = i /\ agent'[b] = Handed(queue[i].ev) /\ queue'[i].leased
        BY <1>1, <1>2, <1>3, <1>4, <2>2
      <3> QED
        BY <1>1, <3>1
    <2>3. CASE b # a
      BY <1>3, <1>4, <2>3
    <2> QED
      BY <2>2, <2>3
  <1>6. \A b, c \in Agents : served[b] = served[c] /\ served[b] # 0 => b = c
    BY <1>3
  <1>7. Handing(queue, agent, queue', agent', served)
    BY <1>2, <1>4, <1>5, <1>6 DEF Handing
  <1> QED
    BY <1>7 DEF HandedOut

LEMMA PollWorked == ASSUME Typed, Typed', Worked, NEW a \in Agents, Poll(a) PROVE Worked'
  <1>1. UNCHANGED <<snap, page, net, relet>>
    BY DEF Poll, history
  <1>2. CASE /\ agent' = [agent EXCEPT ![a] = [at |-> "parked", ev |-> None]]
             /\ UNCHANGED queue
    <2>1. PICK ags : ags = agent'
      OBVIOUS
    <2>2. Lighter(ags, agent)
      BY <1>2, <2>1 DEF Lighter, Typed
    <2>3. Work(queue, ags, snap, relet)
      BY <2>2, WorkLighter DEF Worked
    <2> QED
      BY <1>1, <1>2, <2>1, <2>3 DEF Worked
  <1>3. CASE \E i \in Available(queue) :
               /\ queue' = Leased(queue, {i})
               /\ agent' = [agent EXCEPT ![a] = Handed(queue[i].ev)]
    <2>1. PICK i \in Available(queue) :
               /\ queue' = Leased(queue, {i})
               /\ agent' = [agent EXCEPT ![a] = Handed(queue[i].ev)]
      BY <1>3
    <2>2. queue \in Seq(Entries) /\ agent \in [Agents -> Hands]
      BY DEF Typed
    <2>3. HandedOut(queue, agent, queue', agent')
      BY <2>1, PollHandsOut
    <2>4. Work(queue', agent', snap, relet)
      BY <2>2, <2>3, WorkHanded DEF Worked
    <2> QED
      BY <1>1, <2>4 DEF Worked
  <1> QED
    BY <1>2, <1>3 DEF Poll

LEMMA ScaffoldLandsWorked ==
    ASSUME Typed, Typed', Worked, NEW a \in Agents, ScaffoldLands(a) PROVE Worked'
  <1>1. PICK e : e = [agent[a].ev EXCEPT !.ready = TRUE]
    OBVIOUS
  <1>2. PICK d \in Events : d = agent[a].ev
    BY ScaffoldIs
  <1>3. /\ e \in Events /\ e.id = d.id /\ e.type = d.type /\ e.variant = d.variant
        /\ snap' = [snap EXCEPT ![e.id] = Generated(snap[e.id], e)]
        /\ queue' \in Seq(Entries) /\ Len(queue') = Len(queue)
        /\ \A i \in 1 .. Len(queue) :
              queue'[i] = IF queue[i].ev = d THEN [ev |-> e, leased |-> TRUE] ELSE queue[i]
    BY <1>1, <1>2, ScaffoldIs
  <1>4. e.id \in Sessions
    BY <1>3 DEF Events
  <1>5. snap[e.id].known
    BY <1>2, <1>3, SessionsAssumption DEF Worked, Work, Journaled
  <1>6. PICK sn \in Snapshots : sn = Generated(snap[e.id], e) /\ sn.known /\ sn.pending = e
    <2>1. PICK old \in Snapshots : old = snap[e.id]
      BY <1>4 DEF Typed
    <2>2. Generated(old, e) \in Snapshots
      BY <1>3, SnapshotsTyped
    <2>3. Generated(old, e).known /\ Generated(old, e).pending = e
      BY <1>3, SnapshotsKnown
    <2> QED
      BY <2>1, <2>2, <2>3
  <1>7. OwnPending(snap') /\ \A s \in Sessions : snap'[s].known = snap[s].known
    BY <1>3, <1>4, <1>5, <1>6, JournaledStep
  <1>8. UNCHANGED <<page, net, relet>>
    BY DEF ScaffoldLands, history
  <1>9. Creation(net', page'.capture, snap')
    BY <1>7, <1>8, CreationQuiet
  <1>10. agent' = [agent EXCEPT ![a] = IF @.at = "hungup" THEN Idle ELSE [at |-> "holding", ev |-> e]]
    BY <1>1 DEF ScaffoldLands
  <1>11. \A b \in Agents :
            \/ agent'[b].ev = None
            \/ /\ agent[b].ev # None
               /\ agent'[b].ev.id = agent[b].ev.id /\ agent'[b].ev.type = agent[b].ev.type
               /\ agent'[b].ev.variant = agent[b].ev.variant
    BY <1>2, <1>3, <1>10, SessionsAssumption DEF Idle, Typed
  <1>12. \A i \in 1 .. Len(queue) :
            /\ queue'[i].ev.id = queue[i].ev.id /\ queue'[i].ev.type = queue[i].ev.type
            /\ queue'[i].ev.variant = queue[i].ev.variant
            /\ queue[i].leased => queue'[i].leased
    BY <1>3
  <1>13. Work(queue', agent', snap, relet)
    <2>1. Journaled(queue', agent', snap)
      BY <1>3, <1>11, <1>12 DEF Worked, Work, Journaled
    <2>2. Distinct(queue')
      BY <1>3, <1>12 DEF Worked, Work, Distinct, SameEvent
    <2>3. OneHand(queue', agent', relet)
      <3>1. SUFFICES ASSUME NEW b \in Agents, agent'[b].ev # None, agent'[b].ev.type = "generate",
                            agent'[b].ev.id \notin relet
                     PROVE  /\ \A i \in 1 .. Len(queue) :
                                  SameEvent(queue'[i].ev, agent'[b].ev) => queue'[i].leased
                            /\ \A c \in Agents : c # b /\ agent'[c].ev # None =>
                                  ~SameEvent(agent'[c].ev, agent'[b].ev)
        BY <1>3 DEF OneHand
      <3>2. agent[b].ev # None /\ agent[b].ev.type = "generate" /\ agent[b].ev.id \notin relet
            /\ agent'[b].ev.id = agent[b].ev.id /\ agent'[b].ev.type = agent[b].ev.type
            /\ agent'[b].ev.variant = agent[b].ev.variant
        BY <1>11, <3>1
      <3>3. /\ \A i \in 1 .. Len(queue) : SameEvent(queue[i].ev, agent[b].ev) => queue[i].leased
            /\ \A c \in Agents : c # b /\ agent[c].ev # None => ~SameEvent(agent[c].ev, agent[b].ev)
        BY <3>2 DEF Worked, Work, OneHand
      <3>4. \A i \in 1 .. Len(queue) : SameEvent(queue'[i].ev, agent'[b].ev) => queue'[i].leased
        BY <1>12, <3>2, <3>3 DEF SameEvent
      <3>5. \A c \in Agents : c # b /\ agent'[c].ev # None => ~SameEvent(agent'[c].ev, agent'[b].ev)
        BY <1>11, <3>2, <3>3 DEF SameEvent
      <3> QED
        BY <3>4, <3>5
    <2> QED
      BY <2>1, <2>2, <2>3 DEF Work
  <1>14. Work(queue', agent', snap', relet')
    <2>1. PICK q2 \in Seq(Entries), ags2 \in [Agents -> Hands], sn2 \in {snap'} :
             q2 = queue' /\ ags2 = agent' /\ sn2 = snap'
      BY DEF Typed
    <2>2. Work(q2, ags2, sn2, relet)
      BY <1>7, <1>13, <2>1, WorkKnown
    <2> QED
      BY <1>8, <2>1, <2>2
  <1> QED
    BY <1>7, <1>9, <1>14 DEF Worked

LEMMA WriteWorked == ASSUME Typed, Typed', Worked, NEW a \in Agents, Write(a) PROVE Worked'
  BY DEF Write, serverVars, history, Worked

LEMMA ReplyWorked ==
    ASSUME Typed, Typed', Worked, NEW a \in Agents, agent[a].ev # None,
           NEW reply \in {"done", "agent_done", "error", "complete", "discarded"}, NEW named,
           NEW carbonize \in BOOLEAN, NEW next \in Hands, Sound(next),
           next.ev \in {None, agent[a].ev},
           Reply(a, reply, named, carbonize, next)
    PROVE  Worked'
  <1>1. PICK id \in Sessions : id = agent[a].ev.id
    BY ReplyIs
  <1>2. ReplyJournals(a, reply, carbonize, next)
    BY ReplyIs
  <1>a. PICK acked : \E sn \in Snapshots, rest \in Seq(Entries) :
            /\ snap' = [snap EXCEPT ![id] = sn]
            /\ \/ sn = snap[id]
               \/ sn = JournalOf(reply, snap[id], acked, carbonize)
            /\ Thinned(rest, queue)
            /\ HandedOut(rest, [agent EXCEPT ![a] = next], queue', agent')
    BY <1>1, <1>2 DEF ReplyJournals
  <1>3. PICK sn \in Snapshots, rest \in Seq(Entries) :
            /\ snap' = [snap EXCEPT ![id] = sn]
            /\ \/ sn = snap[id]
               \/ sn = JournalOf(reply, snap[id], acked, carbonize)
            /\ Thinned(rest, queue)
            /\ HandedOut(rest, [agent EXCEPT ![a] = next], queue', agent')
    BY <1>a
  <1>4. /\ page' = (IF page.conn THEN PageOf(reply, id, carbonize) ELSE page)
        /\ UNCHANGED <<net, relet>>
    BY <1>1, ReplyIs DEF ReplyAnnounces
  <1>5. snap[id].known
    BY <1>1 DEF Worked, Work, Journaled
  <1>6. sn.known /\ sn.pending \in {None, snap[id].pending}
    <2>1. PICK old \in Snapshots : old = snap[id]
      BY <1>1 DEF Typed
    <2>2. PICK e \in Events : e = agent[a].ev
      BY ReplyIs
    <2>3. /\ JournalOf(reply, old, acked, carbonize).known
          /\ JournalOf(reply, old, acked, carbonize).pending \in {None, old.pending}
      BY <2>2, JournalOfKnown
    <2> QED
      BY <1>3, <1>5, <2>1, <2>3
  <1>7. OwnPending(snap') /\ \A s \in Sessions : snap'[s].known = snap[s].known
    BY <1>3, <1>5, <1>6, JournaledStep
  <1>8. page'.capture = page.capture
    <2>1. page \in Pages
      BY DEF Typed
    <2> QED
      BY <1>4, <2>1, CaptureStaysHearing
  <1>9. Creation(net', page'.capture, snap')
    BY <1>4, <1>7, <1>8, CreationQuiet
  <1>10. PICK ags : ags = [agent EXCEPT ![a] = next]
    OBVIOUS
  <1>11. ags \in [Agents -> Hands] /\ Lighter(ags, agent)
    BY <1>10 DEF Typed, Lighter
  <1>12. Work(queue', agent', snap', relet')
    BY <1>3, <1>4, <1>7, <1>10, <1>11, WorkStep
  <1> QED
    BY <1>7, <1>9, <1>12 DEF Worked

LEMMA ReplyDoneWorked ==
    ASSUME Typed, Typed', Worked, NEW a \in Agents, NEW lost \in BOOLEAN, ReplyDone(a, lost)
    PROVE  Worked'
  <1>1. agent[a].ev # None
    BY DEF ReplyDone, Works, Typed, Sound
  <1>2. PICK next : next = Afterwards(a, lost)
    OBVIOUS
  <1>3. next \in Hands /\ Sound(next) /\ next.ev \in {None, agent[a].ev}
    BY <1>2 DEF Afterwards, Idle, Typed, Hands, Places, Sound
  <1>4. Reply(a, "done", None, FALSE, next)
    BY <1>2 DEF ReplyDone
  <1> QED
    BY <1>1, <1>3, <1>4, ReplyWorked

LEMMA IdleIs == Idle \in Hands /\ Sound(Idle) /\ Idle.ev = None
  BY DEF Idle, Hands, Places, Sound

LEMMA ReplyErrorWorked ==
    ASSUME Typed, Typed', Worked, NEW a \in Agents, ReplyError(a) PROVE Worked'
  <1>1. agent[a].ev # None
    BY DEF ReplyError, Works, Typed, Sound
  <1> QED
    BY <1>1, IdleIs, ReplyWorked DEF ReplyError

LEMMA BouncedWorked == ASSUME Typed, Typed', Worked, NEW a \in Agents, Bounced(a) PROVE Worked'
  <1>1. UNCHANGED <<snap, agent, page, net, relet>>
    BY DEF Bounced, workVars, history
  <1>2. queue' \in Seq(Entries) /\ Thinned(queue', queue)
    BY BouncedThins
  <1>3. PICK q \in Seq(Entries) : q = queue'
    BY <1>2
  <1>4. Work(q, agent, snap, relet)
    BY <1>2, <1>3, WorkThinned DEF Typed, Worked
  <1> QED
    BY <1>1, <1>3, <1>4 DEF Worked

LEMMA CarryOutWorked ==
    ASSUME Typed, Typed', Worked, NEW a \in Agents, NEW cleanup \in BOOLEAN, CarryOut(a, cleanup)
    PROVE  Worked'
  <1>1. agent[a].ev \in Events /\ agent[a].ev # None /\ agent[a].ev.id \in Sessions
    BY DEF CarryOut, Typed, Sound, Hands, Events
  <1>2. PICK next : next = IF cleanup THEN [at |-> "cleanup", ev |-> agent[a].ev] ELSE Idle
    OBVIOUS
  <1>3. next \in Hands /\ Sound(next) /\ next.ev \in {None, agent[a].ev}
    BY <1>1, <1>2 DEF Idle, Hands, Places, Sound
  <1>4. CASE Reply(a, "agent_done", "accept", TRUE, next)
    BY <1>1, <1>3, <1>4, ReplyWorked
  <1>5. CASE Reply(a, IF agent[a].ev.type = "accept" THEN "complete" ELSE "discarded",
                   agent[a].ev.type, FALSE, next)
    <2>1. PICK reply \in {"complete", "discarded"} :
             reply = IF agent[a].ev.type = "accept" THEN "complete" ELSE "discarded"
      OBVIOUS
    <2>2. PICK named : named = agent[a].ev.type
      OBVIOUS
    <2>3. Reply(a, reply, named, FALSE, next)
      BY <1>5, <2>1, <2>2
    <2> QED
      BY <1>1, <1>3, <2>3, ReplyWorked
  <1>6. CASE /\ agent' = [agent EXCEPT ![a] = next]
             /\ UNCHANGED <<serverVars, page, net, history>>
    <2>1. PICK ags : ags = agent'
      OBVIOUS
    <2>2. Lighter(ags, agent)
      BY <1>3, <1>6, <2>1 DEF Lighter, Typed
    <2>3. Work(queue, ags, snap, relet)
      BY <2>2, WorkLighter DEF Worked
    <2> QED
      BY <1>6, <2>1, <2>3 DEF Worked, serverVars, history
  <1> QED
    BY <1>2, <1>4, <1>5, <1>6 DEF CarryOut

LEMMA CarryOutFailsWorked ==
    ASSUME Typed, Typed', Worked, NEW a \in Agents, NEW byHand \in BOOLEAN, CarryOutFails(a, byHand)
    PROVE  Worked'
  <1>1. agent[a].ev \in Events /\ agent[a].ev # None
    BY DEF CarryOutFails, Works, Typed, Sound, Hands
  <1>2. PICK next : next = [at |-> "cleanup", ev |-> agent[a].ev]
    OBVIOUS
  <1>3. next \in Hands /\ Sound(next) /\ next.ev \in {None, agent[a].ev}
    BY <1>1, <1>2 DEF Hands, Places, Sound
  <1>4. CASE Reply(a, "agent_done", "accept", FALSE, next)
    BY <1>1, <1>3, <1>4, ReplyWorked
  <1>5. CASE Reply(a, "error", agent[a].ev.type, FALSE, Idle)
    <2>1. PICK named : named = agent[a].ev.type
      OBVIOUS
    <2>2. Reply(a, "error", named, FALSE, Idle)
      BY <1>5, <2>1
    <2> QED
      BY <1>1, <2>2, IdleIs, ReplyWorked
  <1> QED
    BY <1>2, <1>4, <1>5 DEF CarryOutFails

LEMMA CleanUpWorked == ASSUME Typed, Typed', Worked, NEW a \in Agents, CleanUp(a) PROVE Worked'
  <1>1. agent[a].ev \in Events /\ agent[a].ev # None /\ agent[a].ev.id \in Sessions
    BY DEF CleanUp, Typed, Sound, Hands, Events
  <1>2. CASE Reply(a, "complete", None, FALSE, Idle)
    BY <1>1, <1>2, IdleIs, ReplyWorked
  <1>3. CASE /\ Journal(agent[a].ev.id, Completed(snap[agent[a].ev.id]))
             /\ agent' = [agent EXCEPT ![a] = Idle]
             /\ UNCHANGED <<up, queue, parked, page, net, history>>
    <2>1. PICK id \in Sessions : id = agent[a].ev.id
      BY <1>1
    <2>2. PICK old \in Snapshots : old = snap[id]
      BY DEF Typed
    <2>3. PICK e \in Events : e = agent[a].ev
      BY <1>1
    <2>4. Completed(old) \in Snapshots
      BY <2>3, SnapshotsTyped
    <2>5. Completed(old).known /\ Completed(old).pending = None
      BY <2>3, SnapshotsKnown
    <2>6. PICK sn \in Snapshots : sn = Completed(old) /\ sn.known /\ sn.pending = None
      BY <2>4, <2>5
    <2>7. snap' = [snap EXCEPT ![id] = sn]
      BY <1>3, <2>1, <2>2, <2>6 DEF Journal
    <2>8. snap[id].known
      BY <1>1, <2>1 DEF Worked, Work, Journaled
    <2>9. OwnPending(snap') /\ \A s \in Sessions : snap'[s].known = snap[s].known
      BY <2>6, <2>7, <2>8, JournaledStep
    <2>10. UNCHANGED <<queue, page, net, relet>>
      BY <1>3 DEF history
    <2>11. Creation(net', page'.capture, snap')
      BY <2>9, <2>10, CreationQuiet
    <2>12. PICK ags \in [Agents -> Hands], sn2 \in {snap'} : ags = agent' /\ sn2 = snap'
      BY DEF Typed
    <2>13. Lighter(ags, agent)
      BY <1>3, <2>12, IdleIs DEF Lighter, Typed
    <2>14. queue \in Seq(Entries) /\ Work(queue, ags, snap, relet)
      BY <2>13, WorkLighter DEF Worked, Typed
    <2>15. Work(queue, ags, sn2, relet)
      BY <2>9, <2>12, <2>14, WorkKnown
    <2> QED
      BY <2>9, <2>10, <2>11, <2>12, <2>15 DEF Worked
  <1> QED
    BY <1>2, <1>3 DEF CleanUp

LEMMA AgentDiesWorked == ASSUME Typed, Typed', Worked, NEW a \in Agents, AgentDies(a) PROVE Worked'
  <1>1. UNCHANGED <<snap, queue, page, net, relet>>
    BY DEF AgentDies
  <1>2. PICK ags : ags = agent'
    OBVIOUS
  <1>3. Lighter(ags, agent)
    <2>1. [agent[a] EXCEPT !.at = "hungup"].ev = agent[a].ev
      BY DEF Typed, Hands
    <2> QED
      BY <1>2, <2>1, IdleIs DEF Lighter, AgentDies, Typed
  <1>4. Work(queue, ags, snap, relet)
    BY <1>3, WorkLighter DEF Worked
  <1> QED
    BY <1>1, <1>2, <1>4 DEF Worked

LEMMA WorkedInit == Init => Worked
  <1>1. SUFFICES ASSUME Init PROVE Worked
    OBVIOUS
  <1>2. /\ \A s \in Sessions : snap[s] = BlankSnapshot
        /\ \A a \in Agents : agent[a].ev = None
        /\ queue = <<>> /\ net = {} /\ page.capture = None
    <2>1. NothingSaved \in Records
      BY NothingSavedTyped
    <2> QED
      BY <1>1, IdleIs DEF Init, FreshPage
  <1>3. \A i \in 1 .. Len(queue) : FALSE
    BY <1>2
  <1>4. Work(queue, agent, snap, relet)
    BY <1>2, <1>3 DEF Work, Journaled, Distinct, OneHand
  <1>5. OwnPending(snap)
    BY <1>2 DEF OwnPending, BlankSnapshot
  <1>6. Creation(net, page.capture, snap)
    BY <1>2 DEF Creation
  <1> QED
    BY <1>4, <1>5, <1>6 DEF Worked

LEMMA WorkedStep == Typed /\ Typed' /\ Worked /\ [Next]_vars => Worked'
  <1>1. SUFFICES ASSUME Typed, Typed', Worked, [Next]_vars PROVE Worked'
    OBVIOUS
  <1>2. CASE UNCHANGED vars
    BY <1>1, <1>2 DEF vars, Worked
  <1>3. CASE PageNext
    <2>1. ASSUME NEW s \in Sessions, NEW annotated \in BOOLEAN, Go(s, annotated) PROVE Worked'
      BY <1>1, <2>1, GoWorked
    <2>2. ASSUME NEW pl \in page.pulls, Inject(pl) \/ Mount(pl) \/ PullIsStale(pl) PROVE Worked'
      BY <1>1, <2>2, InjectWorked, MountWorked, PullIsStaleWorked
    <2>3. ASSUME NEW pl \in page.pulls, NEW v \in 1 .. Count, MountFails(pl, v) PROVE Worked'
      BY <1>1, <2>3, MountFailsWorked
    <2>4. ASSUME NEW v \in 1 .. Count, CycleFails(v) PROVE Worked'
      BY <1>1, <2>4, CycleFailsWorked
    <2>5. ASSUME NEW s \in Sessions, EditedAway(s) PROVE Worked'
      BY <1>1, <2>5, EditedAwayWorked
    <2> QED
      BY <1>1, <1>3, <2>1, <2>2, <2>3, <2>4, <2>5, CaptureDoneWorked, AcceptWorked, DiscardWorked,
         ObserveWorked, RetryWorked, ReloadWorked, ConnectionLostWorked, ConnectWorked DEF PageNext
  <1>4. CASE HelperNext
    <2>1. ASSUME NEW r \in net,
                 \/ RequestFails(r) \/ ReceiveGenerate(r) \/ ReceiveCheckpoint(r)
                 \/ RefuseCheckpoint(r) \/ ReceiveOrphaned(r) \/ ReceiveMountFailure(r)
          PROVE  Worked'
      BY <1>1, <2>1, RequestFailsWorked, ReceiveGenerateWorked, ReceiveCheckpointWorked,
         RefuseCheckpointWorked, ReceiveOrphanedWorked, ReceiveMountFailureWorked
    <2>2. ASSUME NEW r \in net, NEW lost \in BOOLEAN, ReceiveAccept(r, lost) \/ ReceiveDiscard(r, lost)
          PROVE  Worked'
      BY <1>1, <2>2, ReceiveAcceptWorked, ReceiveDiscardWorked
    <2>3. ASSUME NEW i \in DOMAIN queue, LeaseLapses(i) PROVE Worked'
      BY <1>1, <2>3, LeaseLapsesWorked
    <2> QED
      BY <1>1, <1>4, <2>1, <2>2, <2>3, CrashWorked, RestartWorked DEF HelperNext
  <1>5. CASE AgentNext
    <2>1. PICK a \in Agents :
             \/ Poll(a) \/ ScaffoldLands(a) \/ Write(a) \/ ReplyError(a) \/ Bounced(a)
             \/ \E lost \in BOOLEAN : ReplyDone(a, lost)
             \/ \E cleanup \in BOOLEAN : CarryOut(a, cleanup)
             \/ \E byHand \in BOOLEAN : CarryOutFails(a, byHand)
             \/ CleanUp(a) \/ AgentDies(a)
      BY <1>5 DEF AgentNext
    <2> QED
      BY <1>1, <2>1, PollWorked, ScaffoldLandsWorked, WriteWorked, ReplyErrorWorked, BouncedWorked,
         ReplyDoneWorked, CarryOutWorked, CarryOutFailsWorked, CleanUpWorked, AgentDiesWorked
  <1> QED
    BY <1>1, <1>2, <1>3, <1>4, <1>5 DEF Next

\* An event claimed by an agent is in nobody else's hands until it is let out
\* again: the entry is leased before anything is waited for.
THEOREM OneAgentPerGeneration == Spec => []GeneratedTwiceOnlyWhenRelet
  <1>1. Worked => GeneratedTwiceOnlyWhenRelet
    <2>1. SUFFICES ASSUME Worked, NEW a \in Agents, NEW b \in Agents, a # b,
                          agent[a].ev # None, agent[b].ev # None, agent[a].ev.type = "generate",
                          SameEvent(agent[a].ev, agent[b].ev), agent[a].ev.id \notin relet
                   PROVE  FALSE
      BY DEF GeneratedTwiceOnlyWhenRelet
    <2>2. SameEvent(agent[b].ev, agent[a].ev)
      BY <2>1 DEF SameEvent
    <2> QED
      BY <2>1, <2>2 DEF Worked, Work, OneHand
  <1>2. Spec => [](Typed /\ Worked)
    <2>1. Init => Typed /\ Worked
      BY TypedInit, WorkedInit
    <2>2. Typed /\ Worked /\ [Next]_vars => Typed' /\ Worked'
      BY TypedStep, WorkedStep
    <2> QED
      BY <2>1, <2>2, PTL DEF Spec
  <1> QED
    BY <1>1, <1>2, PTL
-----------------------------------------------------------------------------
(***************************************************************************)
(* Nobody waits in a poll while an event waits in the queue.               *)
(***************************************************************************)

\* The free entries that are given out before another one.
Ahead(q, i) == {j \in Available(q) : Before(q, j, i)}

LEMMA AheadOrders ==
    ASSUME NEW q \in Seq(Entries), NEW i \in Available(q)
    PROVE  /\ IsFiniteSet(Available(q)) /\ IsFiniteSet(Ahead(q, i)) /\ i \notin Ahead(q, i)
           /\ Rank(q, i) = Cardinality(Ahead(q, i)) + 1 /\ Cardinality(Ahead(q, i)) \in Nat
           /\ \A j \in Ahead(q, i) : Ahead(q, j) \subseteq Ahead(q, i)
  <1>1. Len(q) \in Nat /\ DOMAIN q = 1 .. Len(q) /\ \A k \in 1 .. Len(q) : q[k] \in Entries
    BY ElementOfSeq
  <1>2. \A k \in 1 .. Len(q) : Priority(q[k].ev.type) \in Nat
    BY <1>1 DEF Entries, Events, Priority
  <1>3. Available(q) \subseteq 1 .. Len(q)
    BY <1>1 DEF Available
  <1>4. IsFiniteSet(Available(q))
    <2>1. IsFiniteSet(1 .. Len(q))
      BY <1>1, FS_Interval
    <2> QED
      BY <1>3, <2>1, FS_Subset
  <1>5. IsFiniteSet(Ahead(q, i)) /\ Cardinality(Ahead(q, i)) \in Nat
    <2>1. Ahead(q, i) \in SUBSET Available(q)
      BY DEF Ahead
    <2>2. IsFiniteSet(Ahead(q, i))
      BY <1>4, <2>1, FS_Subset
    <2> QED
      BY <2>2, FS_CardinalityType
  <1>6. Rank(q, i) = Cardinality(Ahead(q, i)) + 1
    BY <1>5 DEF Rank, Ahead
  <1>7. i \notin Ahead(q, i)
    BY <1>2, <1>3 DEF Ahead, Before
  <1>8. ASSUME NEW j \in Ahead(q, i), NEW k \in Ahead(q, j) PROVE k \in Ahead(q, i)
    <2>1. /\ j \in 1 .. Len(q) /\ k \in 1 .. Len(q) /\ i \in 1 .. Len(q)
          /\ Before(q, j, i) /\ Before(q, k, j) /\ k \in Available(q)
      BY <1>3, <1>8 DEF Ahead
    <2>2. Before(q, k, i)
      BY <1>2, <2>1 DEF Before
    <2> QED
      BY <2>1, <2>2 DEF Ahead
  <1> QED
    BY <1>4, <1>5, <1>6, <1>7, <1>8

\* An entry that is ahead of another has a smaller rank.
LEMMA RankOfAhead ==
    ASSUME NEW q \in Seq(Entries), NEW i \in Available(q), NEW j \in Ahead(q, i)
    PROVE  Rank(q, j) < Rank(q, i)
  <1>1. j \in Available(q)
    BY DEF Ahead
  <1>2. Ahead(q, j) \subseteq Ahead(q, i) /\ j \notin Ahead(q, j)
    BY <1>1, AheadOrders
  <1>3. Ahead(q, j) # Ahead(q, i)
    BY <1>2
  <1>4. /\ IsFiniteSet(Ahead(q, i)) /\ Cardinality(Ahead(q, i)) \in Nat
        /\ Rank(q, i) = Cardinality(Ahead(q, i)) + 1
    BY AheadOrders
  <1>5. Rank(q, j) = Cardinality(Ahead(q, j)) + 1 /\ Cardinality(Ahead(q, j)) \in Nat
    BY <1>1, AheadOrders
  <1>6. /\ Cardinality(Ahead(q, j)) <= Cardinality(Ahead(q, i))
        /\ Cardinality(Ahead(q, j)) # Cardinality(Ahead(q, i))
    BY <1>2, <1>3, <1>4, FS_Subset
  <1> QED
    BY <1>4, <1>5, <1>6

\* The entries given out fill the first places, and leave none free unless
\* every place is filled.
LEMMA PlacesFilled ==
    ASSUME NEW q \in Seq(Entries), NEW n \in Nat, NEW given,
           given = {i \in Available(q) : Rank(q, i) <= n}
    PROVE  /\ Cardinality(given) \in Nat
           /\ \A i \in given : Rank(q, i) <= Cardinality(given)
           /\ given = Available(q) \/ n <= Cardinality(given)
  <1>1. given = {} => IsFiniteSet(given)
    BY FS_EmptySet
  <1>2. given # {} => IsFiniteSet(given)
    <2>1. ASSUME NEW i \in given PROVE IsFiniteSet(given)
      <3>1. IsFiniteSet(Available(q))
        BY <2>1, AheadOrders
      <3> QED
        BY <3>1, FS_Subset
    <2> QED
      BY <2>1
  <1>3. IsFiniteSet(given) /\ Cardinality(given) \in Nat
    BY <1>1, <1>2, FS_CardinalityType
  <1>4. \A i \in Available(q) : Rank(q, i) \in Nat
    BY AheadOrders
  <1>5. ASSUME NEW i \in given PROVE Rank(q, i) <= Cardinality(given)
    <2>1. i \in Available(q) /\ Rank(q, i) <= n
      BY <1>5
    <2>2. Ahead(q, i) \subseteq given
      <3>1. SUFFICES ASSUME NEW j \in Ahead(q, i) PROVE j \in given
        OBVIOUS
      <3>2. Rank(q, j) < Rank(q, i) /\ j \in Available(q)
        BY <2>1, RankOfAhead DEF Ahead
      <3> QED
        BY <1>4, <2>1, <3>2
    <2>3. /\ IsFiniteSet(Ahead(q, i)) /\ Cardinality(Ahead(q, i)) \in Nat
          /\ Rank(q, i) = Cardinality(Ahead(q, i)) + 1 /\ i \notin Ahead(q, i)
      BY <2>1, AheadOrders
    <2>4. /\ Ahead(q, i) \cup {i} \in SUBSET given
          /\ Cardinality(Ahead(q, i) \cup {i}) = Cardinality(Ahead(q, i)) + 1
      BY <1>5, <2>2, <2>3, FS_AddElement
    <2>5. Cardinality(Ahead(q, i) \cup {i}) <= Cardinality(given)
      BY <1>3, <2>4, FS_Subset
    <2> QED
      BY <2>3, <2>4, <2>5
  <1>6. ASSUME given # Available(q) PROVE n <= Cardinality(given)
    <2> DEFINE T == {Rank(q, i) : i \in Available(q) \ given}
    <2>1. T \subseteq Nat /\ T # {}
      BY <1>4, <1>6
    <2>2. \E x \in T : \A y \in T : x <= y
      <3> HIDE DEF T
      <3> QED
        BY <2>1, LeastMember
    <2>3. PICK i \in Available(q) \ given : \A j \in Available(q) \ given : Rank(q, i) <= Rank(q, j)
      BY <2>2
    <2>4. Ahead(q, i) \subseteq given
      <3>1. SUFFICES ASSUME NEW j \in Ahead(q, i), j \notin given PROVE FALSE
        OBVIOUS
      <3>2. Rank(q, j) < Rank(q, i) /\ j \in Available(q)
        BY RankOfAhead DEF Ahead
      <3>3. Rank(q, i) <= Rank(q, j)
        BY <2>3, <3>1, <3>2
      <3> QED
        BY <1>4, <3>2, <3>3
    <2>5. /\ Rank(q, i) = Cardinality(Ahead(q, i)) + 1 /\ Cardinality(Ahead(q, i)) \in Nat
          /\ ~(Rank(q, i) <= n)
      BY AheadOrders
    <2>6. Ahead(q, i) \in SUBSET given
      BY <2>4
    <2>7. Cardinality(Ahead(q, i)) <= Cardinality(given)
      BY <1>3, <2>6, FS_Subset
    <2> QED
      BY <1>3, <2>5, <2>7
  <1> QED
    BY <1>3, <1>5, <1>6

\* The agents that wait do, each in one place.
Waiters(p, ags) ==
    /\ \A i \in 1 .. Len(p) : ags[p[i]].at = "parked"
    /\ \A i, j \in 1 .. Len(p) : p[i] = p[j] => i = j

\* Everything in the queue is with some agent.
AllOut(q) == \A i \in 1 .. Len(q) : q[i].leased

Waited ==
    /\ Waiters(parked, agent)
    /\ parked # <<>> => AllOut(queue)
    /\ ~up => parked = <<>>

LEMMA FlushServes ==
    ASSUME NEW q \in Seq(Entries), NEW ags \in [Agents -> Hands], parked \in Seq(Agents),
           Waiters(parked, ags), Flush(q, ags)
    PROVE  /\ Waiters(parked', agent')
           /\ parked' # <<>> => AllOut(queue')
  <1>1. PICK given : given = {i \in Available(q) : Rank(q, i) <= Len(parked)}
    OBVIOUS
  <1>2. PICK n \in Nat : n = Len(parked)
    BY LenProperties
  <1>3. /\ Cardinality(given) \in Nat
        /\ \A i \in given : Rank(q, i) <= Cardinality(given)
        /\ given = Available(q) \/ n <= Cardinality(given)
    BY <1>1, <1>2, PlacesFilled
  <1>4. PICK c \in Nat : c = Cardinality(given)
    BY <1>3
  <1>5. /\ queue' = Leased(q, given)
        /\ parked' = SubSeq(parked, c + 1, n)
        /\ \A a \in Agents : (\A i \in given : parked[Rank(q, i)] # a) => agent'[a] = ags[a]
    BY <1>1, <1>2, <1>4 DEF Flush
  <1>6. \A i \in 1 .. n : parked[i] \in Agents
    BY <1>2, ElementOfSeq
  <1>7. /\ Len(parked') = IF c + 1 <= n THEN n - c ELSE 0
        /\ \A i \in 1 .. n - c : parked'[i] = parked[c + i]
    <2>1. \A i \in c + 1 .. n : parked[i] \in Agents
      BY <1>6
    <2>2. c + 1 \in Int /\ n \in Int
      OBVIOUS
    <2>3. /\ Len(SubSeq(parked, c + 1, n)) = IF c + 1 <= n THEN n - (c + 1) + 1 ELSE 0
          /\ \A i \in 1 .. n - (c + 1) + 1 : SubSeq(parked, c + 1, n)[i] = parked[(c + 1) + i - 1]
      BY <2>1, <2>2, SubSeqProperties
    <2>4. n - (c + 1) + 1 = n - c /\ \A i \in 1 .. n - c : (c + 1) + i - 1 = c + i
      OBVIOUS
    <2> QED
      BY <1>5, <2>3, <2>4
  <1>8. \A i \in 1 .. Len(parked') : c + i \in 1 .. n /\ i \in Nat /\ parked'[i] = parked[c + i]
    BY <1>7
  <1>9. ASSUME NEW k \in 1 .. Len(parked') PROVE agent'[parked'[k]].at = "parked"
    <2>1. parked'[k] = parked[c + k] /\ c + k \in 1 .. n /\ parked[c + k] \in Agents
      BY <1>6, <1>8
    <2>2. ASSUME NEW i \in given PROVE parked[Rank(q, i)] # parked[c + k]
      <3>1. i \in Available(q) /\ Rank(q, i) <= c /\ Rank(q, i) <= n
        BY <1>1, <1>2, <1>3, <1>4
      <3>2. Rank(q, i) \in 1 .. n
        BY <3>1, AheadOrders
      <3>3. Rank(q, i) # c + k
        BY <1>8, <3>1, <3>2
      <3> QED
        BY <1>2, <2>1, <3>2, <3>3 DEF Waiters
    <2>3. agent'[parked[c + k]] = ags[parked[c + k]]
      BY <1>5, <2>1, <2>2
    <2> QED
      BY <1>2, <2>1, <2>3 DEF Waiters
  <1>10. ASSUME NEW i \in 1 .. Len(parked'), NEW j \in 1 .. Len(parked'), parked'[i] = parked'[j]
         PROVE  i = j
    <2>1. c + i \in 1 .. n /\ c + j \in 1 .. n /\ parked[c + i] = parked[c + j]
      BY <1>8, <1>10
    <2>2. c + i = c + j
      BY <1>2, <2>1 DEF Waiters
    <2> QED
      BY <2>2
  <1>11. ASSUME parked' # <<>> PROVE AllOut(queue')
    <2>1. ~(n <= c)
      <3>1. ASSUME n <= c PROVE parked' = <<>>
        BY <1>5, <3>1, SubSeqEmpty
      <3> QED
        BY <1>11, <3>1
    <2>2. given = Available(q)
      BY <1>3, <1>4, <2>1
    <2>3. DOMAIN q = 1 .. Len(q)
      BY LenProperties
    <2>4. \A i \in 1 .. Len(q) : q[i].leased \/ i \in given
      BY <2>2, <2>3 DEF Available
    <2>5. /\ Len(Leased(q, given)) = Len(q)
          /\ \A i \in 1 .. Len(q) : Leased(q, given)[i].leased = (q[i].leased \/ i \in given)
      BY LeasedIs
    <2>6. \A i \in 1 .. Len(q) : Leased(q, given)[i].leased
      BY <2>4, <2>5
    <2> QED
      BY <1>5, <2>5, <2>6 DEF AllOut
  <1> QED
    BY <1>9, <1>10, <1>11 DEF Waiters

LEMMA FlushWaited ==
    ASSUME Typed, up, up', NEW q \in Seq(Entries), NEW ags \in [Agents -> Hands],
           Waiters(parked, ags), Flush(q, ags)
    PROVE  Waited'
  BY FlushServes DEF Typed, Waited

LEMMA WaitersStay ==
    ASSUME Typed, Waited, NEW ags \in [Agents -> Hands], NEW a \in Agents, agent[a].at # "parked",
           \A b \in Agents : b # a => ags[b] = agent[b]
    PROVE  Waiters(parked, ags)
  <1>1. \A i \in 1 .. Len(parked) : parked[i] \in Agents
    BY ElementOfSeq DEF Typed
  <1> QED
    BY <1>1 DEF Waited, Waiters

LEMMA WaitedStays == ASSUME Waited, UNCHANGED <<up, queue, parked, agent>> PROVE Waited'
  BY DEF Waited

LEMMA PageWaited == ASSUME Waited, PageNext PROVE Waited'
  <1>1. UNCHANGED <<up, queue, parked, agent>>
    BY DEF PageNext, Go, CaptureDone, Accept, Discard, Observe, Retry, Inject, Mount, PullIsStale,
       MountFails, CycleFails, Reload, ConnectionLost, Connect, EditedAway, serverVars, workVars
  <1> QED
    BY <1>1, WaitedStays

LEMMA ReceiveWaited ==
    ASSUME Typed, Waited, NEW r \in net,
           \/ ReceiveGenerate(r) \/ ReceiveMountFailure(r)
           \/ \E lost \in BOOLEAN : ReceiveAccept(r, lost) \/ ReceiveDiscard(r, lost)
    PROVE  Waited'
  <1>1. up /\ up'
    BY DEF ReceiveGenerate, ReceiveMountFailure, ReceiveAccept, ReceiveDiscard, Arrives
  <1>2. \E q \in Seq(Entries), e \in Events : Flush(Enqueued(q, e), agent)
    <2>1. queue \in Seq(Entries)
      BY DEF Typed
    <2>2. Retired(queue, r.id) \in Seq(Entries)
      BY <2>1, RetiredIs
    <2>3. CASE ReceiveGenerate(r)
      BY <2>1, <2>3, RequestAsks DEF ReceiveGenerate
    <2>4. CASE ReceiveMountFailure(r)
      BY <2>1, <2>4, RequestAsks DEF ReceiveMountFailure
    <2>5. CASE \E lost \in BOOLEAN : ReceiveAccept(r, lost)
      BY <2>2, <2>5, RequestAsks DEF ReceiveAccept
    <2>6. CASE \E lost \in BOOLEAN : ReceiveDiscard(r, lost)
      BY <2>2, <2>6, RequestAsks DEF ReceiveDiscard
    <2> QED
      BY <2>3, <2>4, <2>5, <2>6
  <1>3. PICK q \in Seq(Entries), e \in Events : Flush(Enqueued(q, e), agent)
    BY <1>2
  <1>4. PICK w \in Seq(Entries) : w = Enqueued(q, e)
    BY EnqueuedIs
  <1>5. agent \in [Agents -> Hands] /\ Waiters(parked, agent)
    BY DEF Typed, Waited
  <1> QED
    BY <1>1, <1>3, <1>4, <1>5, FlushWaited

\* Fewer entries are all out when all were.
LEMMA ThinnedOut == ASSUME NEW q, NEW r, Thinned(r, q), AllOut(q) PROVE AllOut(r)
  BY DEF Thinned, AllOut

LEMMA HelperWaited == ASSUME Typed, Waited, HelperNext PROVE Waited'
  <1>1. ASSUME NEW r \in net, RequestFails(r) \/ ReceiveCheckpoint(r) \/ RefuseCheckpoint(r)
        PROVE  Waited'
    BY <1>1, WaitedStays
    DEF RequestFails, ReceiveCheckpoint, RefuseCheckpoint, serverVars, workVars
  <1>2. ASSUME NEW r \in net,
               \/ ReceiveGenerate(r) \/ ReceiveMountFailure(r)
               \/ \E lost \in BOOLEAN : ReceiveAccept(r, lost) \/ ReceiveDiscard(r, lost)
        PROVE  Waited'
    BY <1>2, ReceiveWaited
  <1>3. ASSUME NEW r \in net, ReceiveOrphaned(r) PROVE Waited'
    <2>1. queue' = Retired(queue, r.id) /\ UNCHANGED <<up, parked, agent>>
      BY <1>3 DEF ReceiveOrphaned, workVars
    <2>2. Thinned(queue', queue)
      BY <2>1, RetiredIs DEF Typed
    <2> QED
      BY <2>1, <2>2, ThinnedOut DEF Waited
  <1>4. ASSUME NEW i \in DOMAIN queue, LeaseLapses(i) PROVE Waited'
    <2>1. queue \in Seq(Entries) /\ i \in 1 .. Len(queue)
      BY LenProperties DEF Typed
    <2>2. PICK q \in Seq(Entries) : q = [queue EXCEPT ![i].leased = FALSE]
      BY <2>1, UnleasedTyped
    <2>3. Flush(q, agent) /\ up /\ up'
      BY <1>4, <2>2 DEF LeaseLapses
    <2>4. agent \in [Agents -> Hands] /\ Waiters(parked, agent)
      BY DEF Typed, Waited
    <2> QED
      BY <2>3, <2>4, FlushWaited
  <1>5. ASSUME Crash \/ Restart PROVE Waited'
    <2>1. parked' = <<>>
      BY <1>5 DEF Crash, Restart, Waited
    <2>2. Len(<<>>) = 0
      OBVIOUS
    <2> QED
      BY <2>1, <2>2 DEF Waited, Waiters
  <1> QED
    BY <1>1, <1>2, <1>3, <1>4, <1>5 DEF HelperNext

LEMMA PollWaited == ASSUME Typed, Waited, NEW a \in Agents, Poll(a) PROVE Waited'
  <1>1. up /\ up' /\ agent[a].at = "idle"
    BY DEF Poll
  <1>2. queue \in Seq(Entries) /\ parked \in Seq(Agents) /\ agent \in [Agents -> Hands]
    BY DEF Typed
  <1>3. DOMAIN queue = 1 .. Len(queue) /\ Len(parked) \in Nat
    BY <1>2, LenProperties
  <1>4. CASE /\ Available(queue) = {}
             /\ parked' = Append(parked, a)
             /\ agent' = [agent EXCEPT ![a] = [at |-> "parked", ev |-> None]]
             /\ UNCHANGED queue
    <2>1. PICK n \in Nat : n = Len(parked)
      BY <1>3
    <2>2. /\ Len(parked') = n + 1 /\ parked'[n + 1] = a
          /\ \A i \in 1 .. n : parked'[i] = parked[i]
      BY <1>2, <1>4, <2>1, AppendProperties
    <2>3. \A i \in 1 .. n + 1 : i = n + 1 \/ i \in 1 .. n
      OBVIOUS
    <2>4. \A i \in 1 .. n : parked[i] \in Agents /\ parked[i] # a /\ agent[parked[i]].at = "parked"
      BY <1>1, <1>2, <2>1, ElementOfSeq DEF Waited, Waiters
    <2>5. \A i \in 1 .. n + 1 : agent'[parked'[i]].at = "parked"
      BY <1>2, <1>4, <2>2, <2>3, <2>4
    <2>6. \A i, j \in 1 .. n : parked[i] = parked[j] => i = j
      BY <2>1 DEF Waited, Waiters
    <2>7. \A i, j \in 1 .. n + 1 : parked'[i] = parked'[j] => i = j
      BY <2>2, <2>3, <2>4, <2>6
    <2>8. AllOut(queue')
      BY <1>3, <1>4 DEF Available, AllOut
    <2> QED
      BY <1>1, <2>2, <2>5, <2>7, <2>8 DEF Waited, Waiters
  <1>5. CASE \E i \in Available(queue) :
               /\ agent' = [agent EXCEPT ![a] = Handed(queue[i].ev)]
               /\ UNCHANGED parked
    <2>1. Available(queue) # {}
      BY <1>5
    <2>2. parked = <<>>
      BY <1>3, <2>1 DEF Waited, AllOut, Available
    <2>3. parked' = <<>>
      BY <1>5, <2>2
    <2>4. Len(<<>>) = 0
      OBVIOUS
    <2> QED
      BY <2>3, <2>4 DEF Waited, Waiters
  <1> QED
    BY <1>4, <1>5 DEF Poll

LEMMA ScaffoldLandsWaited ==
    ASSUME Typed, Typed', Waited, NEW a \in Agents, ScaffoldLands(a) PROVE Waited'
  <1>1. up /\ UNCHANGED <<up, parked>> /\ agent[a].at \in {"scaffolding", "hungup"}
    BY DEF ScaffoldLands
  <1>2. AllOut(queue) => AllOut(queue')
    <2>1. PICK e : e = [agent[a].ev EXCEPT !.ready = TRUE]
      OBVIOUS
    <2>2. /\ Len(queue') = Len(queue)
          /\ \A i \in 1 .. Len(queue) :
                queue'[i] = IF queue[i].ev = agent[a].ev THEN [ev |-> e, leased |-> TRUE] ELSE queue[i]
      BY <2>1, ScaffoldIs
    <2> QED
      BY <2>2 DEF AllOut
  <1>3. PICK ags \in [Agents -> Hands] : ags = agent'
    BY DEF Typed
  <1>4. \A b \in Agents : b # a => ags[b] = agent[b]
    BY <1>3 DEF ScaffoldLands, Typed
  <1>5. Waiters(parked, ags)
    BY <1>1, <1>4, WaitersStay
  <1> QED
    BY <1>1, <1>2, <1>3, <1>5 DEF Waited

LEMMA ReplyWaited ==
    ASSUME Typed, Waited, NEW a \in Agents, agent[a].ev # None,
           NEW reply \in {"done", "agent_done", "error", "complete", "discarded"}, NEW named,
           NEW carbonize \in BOOLEAN, NEW next \in Hands, Sound(next),
           Reply(a, reply, named, carbonize, next)
    PROVE  Waited'
  <1>1. ReplyJournals(a, reply, carbonize, next)
    BY ReplyIs
  <1>2. PICK rest \in Seq(Entries) : Flush(rest, [agent EXCEPT ![a] = next])
    BY <1>1 DEF ReplyJournals
  <1>3. up /\ up'
    BY ReplyIs DEF ReplyAnnounces
  <1>4. PICK ags : ags = [agent EXCEPT ![a] = next]
    OBVIOUS
  <1>5. ags \in [Agents -> Hands] /\ \A b \in Agents : b # a => ags[b] = agent[b]
    BY <1>4 DEF Typed
  <1>6. agent[a].at # "parked"
    BY DEF Typed, Sound
  <1>7. Waiters(parked, ags)
    BY <1>5, <1>6, WaitersStay
  <1> QED
    BY <1>2, <1>3, <1>4, <1>5, <1>7, FlushWaited

\* An agent that is not waiting changes what it does.
LEMMA HandsWaited ==
    ASSUME Typed, Typed', Waited, NEW a \in Agents, agent[a].ev # None, NEW next,
           agent' = [agent EXCEPT ![a] = next], UNCHANGED <<up, queue, parked>>
    PROVE  Waited'
  <1>1. PICK ags \in [Agents -> Hands] : ags = agent'
    BY DEF Typed
  <1>2. \A b \in Agents : b # a => ags[b] = agent[b]
    BY <1>1 DEF Typed
  <1>3. agent[a].at # "parked"
    BY DEF Typed, Sound
  <1>4. Waiters(parked, ags)
    BY <1>2, <1>3, WaitersStay
  <1> QED
    BY <1>1, <1>4 DEF Waited

LEMMA AnswerWaited ==
    ASSUME Typed, Typed', Waited, NEW a \in Agents,
           \/ ReplyError(a) \/ CleanUp(a)
           \/ \E lost \in BOOLEAN : ReplyDone(a, lost)
           \/ \E cleanup \in BOOLEAN : CarryOut(a, cleanup)
           \/ \E byHand \in BOOLEAN : CarryOutFails(a, byHand)
    PROVE  Waited'
  <1>1. agent[a].ev \in Events /\ agent[a].ev # None
    BY DEF ReplyError, CleanUp, ReplyDone, CarryOut, CarryOutFails, Works, Typed, Sound, Hands
  <1>2. PICK next : next = [at |-> "cleanup", ev |-> agent[a].ev]
    OBVIOUS
  <1>3. next \in Hands /\ Sound(next)
    BY <1>1, <1>2 DEF Hands, Places, Sound
  <1>4. CASE ReplyError(a)
    BY <1>1, <1>4, IdleIs, ReplyWaited DEF ReplyError
  <1>5. ASSUME NEW lost \in BOOLEAN, ReplyDone(a, lost) PROVE Waited'
    <2>1. PICK then : then = Afterwards(a, lost)
      OBVIOUS
    <2>2. then \in Hands /\ Sound(then)
      BY <2>1, IdleIs DEF Afterwards, Typed
    <2>3. Reply(a, "done", None, FALSE, then)
      BY <1>5, <2>1 DEF ReplyDone
    <2> QED
      BY <1>1, <2>2, <2>3, ReplyWaited
  <1>6. CASE CleanUp(a)
    <2>1. CASE Reply(a, "complete", None, FALSE, Idle)
      BY <1>1, <2>1, IdleIs, ReplyWaited
    <2>2. CASE agent' = [agent EXCEPT ![a] = Idle] /\ UNCHANGED <<up, queue, parked>>
      BY <1>1, <2>2, HandsWaited
    <2> QED
      BY <1>6, <2>1, <2>2 DEF CleanUp
  <1>7. ASSUME NEW cleanup \in BOOLEAN, CarryOut(a, cleanup) PROVE Waited'
    <2>1. CASE Reply(a, "agent_done", "accept", TRUE, next)
      BY <1>1, <1>3, <2>1, ReplyWaited
    <2>2. CASE Reply(a, IF agent[a].ev.type = "accept" THEN "complete" ELSE "discarded",
                     agent[a].ev.type, FALSE, Idle)
      <3>1. PICK reply \in {"complete", "discarded"}, named \in {agent[a].ev.type} :
               /\ reply = IF agent[a].ev.type = "accept" THEN "complete" ELSE "discarded"
               /\ named = agent[a].ev.type
        OBVIOUS
      <3>2. Reply(a, reply, named, FALSE, Idle)
        BY <2>2, <3>1
      <3> QED
        BY <1>1, <3>2, IdleIs, ReplyWaited
    <2>3. CASE \E then : agent' = [agent EXCEPT ![a] = then] /\ UNCHANGED <<up, queue, parked>>
      BY <1>1, <2>3, HandsWaited
    <2>4. \/ Reply(a, "agent_done", "accept", TRUE, next)
          \/ Reply(a, IF agent[a].ev.type = "accept" THEN "complete" ELSE "discarded",
                   agent[a].ev.type, FALSE, Idle)
          \/ \E then : agent' = [agent EXCEPT ![a] = then] /\ UNCHANGED <<up, queue, parked>>
      <3>1. CASE up /\ agent[a].at = "holding"
        BY <1>2, <1>7, <3>1 DEF CarryOut
      <3>2. CASE ~(up /\ agent[a].at = "holding")
        <4>1. PICK then : then = IF cleanup THEN next ELSE Idle
          OBVIOUS
        <4>2. agent' = [agent EXCEPT ![a] = then] /\ UNCHANGED serverVars
          BY <1>2, <1>7, <3>2, <4>1 DEF CarryOut
        <4> QED
          BY <4>2 DEF serverVars
      <3> QED
        BY <3>1, <3>2
    <2> QED
      BY <2>1, <2>2, <2>3, <2>4
  <1>8. ASSUME NEW byHand \in BOOLEAN, CarryOutFails(a, byHand) PROVE Waited'
    <2>1. CASE Reply(a, "agent_done", "accept", FALSE, next)
      BY <1>1, <1>3, <2>1, ReplyWaited
    <2>2. CASE Reply(a, "error", agent[a].ev.type, FALSE, Idle)
      <3>1. PICK named : named = agent[a].ev.type
        OBVIOUS
      <3>2. Reply(a, "error", named, FALSE, Idle)
        BY <2>2, <3>1
      <3> QED
        BY <1>1, <3>2, IdleIs, ReplyWaited
    <2> QED
      BY <1>2, <1>8, <2>1, <2>2 DEF CarryOutFails
  <1> QED
    BY <1>4, <1>5, <1>6, <1>7, <1>8

LEMMA AgentDiesWaited ==
    ASSUME Typed, Typed', Waited, NEW a \in Agents, AgentDies(a) PROVE Waited'
  <1>1. PICK gone : gone = {a}
    OBVIOUS
  <1>2. /\ parked' \in Seq(Agents) /\ Thinned(parked', parked)
        /\ \A i \in 1 .. Len(parked') : parked'[i] \notin gone
    BY <1>1, WithoutThins DEF AgentDies, Typed
  <1>3. PICK h \in [1 .. Len(parked') -> 1 .. Len(parked)] :
           /\ \A i \in 1 .. Len(parked') : parked'[i] = parked[h[i]]
           /\ \A i, j \in 1 .. Len(parked') : h[i] = h[j] => i = j
    BY <1>2 DEF Thinned
  <1>4. UNCHANGED <<up, queue>> /\ \A b \in Agents : b # a => agent'[b] = agent[b]
    BY DEF AgentDies, Typed
  <1>5. \A i \in 1 .. Len(parked') : parked'[i] \in Agents /\ parked'[i] # a
    BY <1>1, <1>2, ElementOfSeq
  <1>6. \A i \in 1 .. Len(parked') : agent'[parked'[i]].at = "parked"
    BY <1>3, <1>4, <1>5 DEF Waited, Waiters
  <1>7. \A i, j \in 1 .. Len(parked') : parked'[i] = parked'[j] => i = j
    BY <1>3 DEF Waited, Waiters
  <1>8. parked = <<>> => parked' = <<>>
    <2>1. ASSUME parked = <<>> PROVE parked' = <<>>
      <3>1. Len(parked) = 0
        BY <2>1
      <3>2. \A i \in 1 .. Len(parked') : FALSE
        BY <1>3, <3>1
      <3>3. Len(parked') \in Nat
        BY <1>2, LenProperties
      <3>4. Len(parked') = 0
        BY <3>2, <3>3
      <3> QED
        BY <1>2, <3>4, EmptySeq
    <2> QED
      BY <2>1
  <1> QED
    BY <1>4, <1>6, <1>7, <1>8 DEF Waited, Waiters

LEMMA WaitedInit == Init => Waited
  <1>1. Len(<<>>) = 0
    OBVIOUS
  <1> QED
    BY <1>1 DEF Init, Waited, Waiters

LEMMA WaitedStep == Typed /\ Typed' /\ Waited /\ [Next]_vars => Waited'
  <1>1. SUFFICES ASSUME Typed, Typed', Waited, [Next]_vars PROVE Waited'
    OBVIOUS
  <1>2. CASE UNCHANGED vars
    BY <1>1, <1>2, WaitedStays DEF vars
  <1>3. CASE PageNext
    BY <1>1, <1>3, PageWaited
  <1>4. CASE HelperNext
    BY <1>1, <1>4, HelperWaited
  <1>5. CASE AgentNext
    <2>1. PICK a \in Agents :
             \/ Poll(a) \/ ScaffoldLands(a) \/ Write(a) \/ Bounced(a) \/ AgentDies(a)
             \/ ReplyError(a) \/ CleanUp(a)
             \/ \E lost \in BOOLEAN : ReplyDone(a, lost)
             \/ \E cleanup \in BOOLEAN : CarryOut(a, cleanup)
             \/ \E byHand \in BOOLEAN : CarryOutFails(a, byHand)
      BY <1>5 DEF AgentNext
    <2>2. CASE Write(a)
      BY <1>1, <2>2, WaitedStays DEF Write, serverVars
    <2>3. CASE Bounced(a)
      <3>1. Thinned(queue', queue) /\ UNCHANGED <<up, parked, agent>>
        BY <1>1, <2>3, BouncedThins DEF Bounced, workVars
      <3> QED
        BY <1>1, <3>1, ThinnedOut DEF Waited
    <2>4. CASE \/ ReplyError(a) \/ CleanUp(a)
               \/ \E lost \in BOOLEAN : ReplyDone(a, lost)
               \/ \E cleanup \in BOOLEAN : CarryOut(a, cleanup)
               \/ \E byHand \in BOOLEAN : CarryOutFails(a, byHand)
      BY <1>1, <2>4, AnswerWaited
    <2> QED
      BY <1>1, <2>1, <2>2, <2>3, <2>4, PollWaited, ScaffoldLandsWaited, AgentDiesWaited
  <1> QED
    BY <1>1, <1>2, <1>3, <1>4, <1>5 DEF Next

LEMMA TypedMeansTypeOK == ASSUME Typed, Worked, Waited PROVE TypeOK
  <1>1. \A s \in Sessions :
          /\ snap[s].phase \in Phases
          /\ snap[s].arrived \in 0 .. Count
          /\ snap[s].pending # None => snap[s].pending.id = s
    BY DEF Typed, Snapshots, Worked, OwnPending
  <1>2. \A i \in DOMAIN queue : queue[i].ev.id \in Sessions /\ queue[i].leased \in BOOLEAN
    <2>1. DOMAIN queue = 1 .. Len(queue) /\ \A i \in 1 .. Len(queue) : queue[i] \in Entries
      BY LenProperties, ElementOfSeq DEF Typed
    <2> QED
      BY <2>1 DEF Entries, Events
  <1>3. \A i \in DOMAIN parked : agent[parked[i]].at = "parked"
    <2>1. DOMAIN parked = 1 .. Len(parked)
      BY LenProperties DEF Typed
    <2> QED
      BY <2>1 DEF Waited, Waiters
  <1>4. \A a \in Agents :
          /\ agent[a].at \in Places
          /\ (agent[a].ev = None) = (agent[a].at \in {"idle", "parked"})
    <2>1. SUFFICES ASSUME NEW a \in Agents
                   PROVE  /\ agent[a].at \in Places
                          /\ (agent[a].ev = None) = (agent[a].at \in {"idle", "parked"})
      OBVIOUS
    <2>2. agent[a].at \in Places /\ Sound(agent[a])
      BY DEF Typed, Hands
    <2>3. (agent[a].ev = None) <=> (agent[a].at \in {"idle", "parked"})
      BY <2>2 DEF Sound
    <2>4. (agent[a].ev = None) = (agent[a].at \in {"idle", "parked"})
      BY <2>3
    <2> QED
      BY <2>2, <2>4
  <1>5. /\ page.cur \in Sessions \union {None} /\ page.st \in States /\ page.arrived \in 0 .. Count
        /\ \A r \in net : r.id \in Sessions
    BY DEF Typed, Pages, Known, Requests
  <1> QED
    BY <1>1, <1>2, <1>3, <1>4, <1>5 DEF TypeOK, Typed, Phases, Places, States

\* Polls are parked only while the queue has nothing free, and every step of
\* the helper that frees or queues an event serves those that wait.
THEOREM PollsAreServed == Spec => []NobodyWaitsBesideWork
  <1>1. Typed /\ Worked /\ Waited => NobodyWaitsBesideWork
    <2>1. SUFFICES ASSUME Typed, Worked, Waited PROVE NobodyWaitsBesideWork
      OBVIOUS
    <2>2. DOMAIN queue = 1 .. Len(queue)
      BY <2>1, LenProperties DEF Typed
    <2>3. parked # <<>> => Available(queue) = {}
      BY <2>1, <2>2 DEF Waited, AllOut, Available
    <2> QED
      BY <2>1, <2>3, TypedMeansTypeOK DEF NobodyWaitsBesideWork
  <1>2. Spec => [](Typed /\ Worked /\ Waited)
    <2>1. Init => Typed /\ Worked /\ Waited
      BY TypedInit, WorkedInit, WaitedInit
    <2>2. Typed /\ Worked /\ Waited /\ [Next]_vars => Typed' /\ Worked' /\ Waited'
      BY TypedStep, WorkedStep, WaitedStep
    <2> QED
      BY <2>1, <2>2, PTL DEF Spec
  <1> QED
    BY <1>1, <1>2, PTL
-----------------------------------------------------------------------------
(***************************************************************************)
(* What agents do fits the events they have, and decisions are journaled.  *)
(***************************************************************************)

\* An event of a session that is decided when the event is a decision.
Fits(e, sn) ==
    /\ e.type = "generate" => e.variant = 0
    /\ e.type \in Decisions => sn[e.id].canceled

\* An agent waits for a scaffold exactly when it was given an event without
\* one, and only a decision is cut off or leaves something to clean up.
InPlace(hand) ==
    /\ hand.at \in {"scaffolding", "hungup"} =>
         hand.ev # None /\ hand.ev.type = "generate" /\ ~hand.ev.ready
    /\ hand.ev # None /\ hand.ev.type = "generate" /\ ~hand.ev.ready =>
         hand.at \in {"scaffolding", "hungup"}
    /\ hand.at \in {"cutoff", "cleanup"} => hand.ev # None /\ hand.ev.type \in Decisions

FitWork(q, ags, sn) ==
    /\ \A i \in 1 .. Len(q) : Fits(q[i].ev, sn)
    /\ \A a \in Agents : InPlace(ags[a]) /\ (ags[a].ev # None => Fits(ags[a].ev, sn))

FitJournal(sn) ==
    /\ \A s \in Sessions : Fenced(sn[s]) => sn[s].canceled = TRUE
    /\ \A s \in Sessions : sn[s].pending # None => Fits(sn[s].pending, sn)

\* An event without a scaffold is in one agent's hands at most, and nobody else
\* can be given it.
Raw(hand) == hand.ev # None /\ hand.ev.type = "generate" /\ ~hand.ev.ready

Alone(q, ags) ==
    \A a \in Agents : Raw(ags[a]) =>
        /\ \A i \in 1 .. Len(q) : q[i].ev = ags[a].ev => q[i].leased
        /\ \A b \in Agents : ags[b].ev = ags[a].ev => b = a

Fitting ==
    /\ FitWork(queue, agent, snap)
    /\ Alone(queue, agent)
    /\ FitJournal(snap)
    /\ ~up => \A a \in Agents : agent[a].at \notin {"scaffolding", "hungup"}

\* Decisions are never taken back.
Later(sn2, sn) == \A s \in Sessions : sn[s].canceled => sn2[s].canceled

LEMMA HandedInPlace == ASSUME NEW e \in Events PROVE InPlace(Handed(e))
  BY HandedTyped, SessionsAssumption DEF InPlace

LEMMA IdleInPlace == InPlace(Idle)
  BY DEF InPlace, Idle

LEMMA FitThinned ==
    ASSUME NEW q, NEW r, NEW ags, NEW sn, FitWork(q, ags, sn), Thinned(r, q)
    PROVE  FitWork(r, ags, sn)
  BY DEF Thinned, FitWork

LEMMA FitLater ==
    ASSUME NEW q \in Seq(Entries), NEW ags \in [Agents -> Hands], NEW sn, NEW sn2,
           FitWork(q, ags, sn), Later(sn2, sn)
    PROVE  FitWork(q, ags, sn2)
  <1>1. \A i \in 1 .. Len(q) : q[i].ev \in Events
    <2>1. \A i \in 1 .. Len(q) : q[i] \in Entries
      BY ElementOfSeq
    <2> QED
      BY <2>1 DEF Entries
  <1>2. \A a \in Agents : ags[a].ev # None => ags[a].ev \in Events
    BY DEF Hands
  <1>3. \A e \in Events : Fits(e, sn) => Fits(e, sn2)
    BY DEF Fits, Later, Events
  <1> QED
    BY <1>1, <1>2, <1>3 DEF FitWork

LEMMA FitEnqueued ==
    ASSUME NEW q \in Seq(Entries), NEW ags, NEW sn, NEW e \in Events,
           FitWork(q, ags, sn), Fits(e, sn)
    PROVE  FitWork(Enqueued(q, e), ags, sn)
  <1>1. PICK r : r = Enqueued(q, e)
    OBVIOUS
  <1>2. PICK n \in Nat : n = Len(q)
    BY LenProperties
  <1>3. /\ \A i \in 1 .. n : r[i] = q[i]
        /\ Len(r) = n \/ (Len(r) = n + 1 /\ r[n + 1] = [ev |-> e, leased |-> FALSE])
    BY <1>1, <1>2, EnqueuedIs
  <1>4. \A i \in 1 .. n + 1 : i = n + 1 \/ i \in 1 .. n
    OBVIOUS
  <1>5. \A i \in 1 .. Len(r) : Fits(r[i].ev, sn)
    BY <1>2, <1>3, <1>4 DEF FitWork
  <1> QED
    BY <1>1, <1>5 DEF FitWork

LEMMA FitHanded ==
    ASSUME NEW q \in Seq(Entries), NEW ags \in [Agents -> Hands], NEW q2, NEW ags2, NEW sn,
           FitWork(q, ags, sn), HandedOut(q, ags, q2, ags2)
    PROVE  FitWork(q2, ags2, sn)
  <1>1. PICK served : Handing(q, ags, q2, ags2, served)
    BY DEF HandedOut
  <1>2. \A i \in 1 .. Len(q) : q[i].ev \in Events
    <2>1. \A i \in 1 .. Len(q) : q[i] \in Entries
      BY ElementOfSeq
    <2> QED
      BY <2>1 DEF Entries
  <1>3. \A i \in 1 .. Len(q2) : Fits(q2[i].ev, sn)
    BY <1>1 DEF Handing, FitWork
  <1>4. ASSUME NEW a \in Agents PROVE InPlace(ags2[a]) /\ (ags2[a].ev # None => Fits(ags2[a].ev, sn))
    <2>1. CASE ags2[a] = ags[a]
      BY <2>1 DEF FitWork
    <2>2. CASE served[a] \in 1 .. Len(q) /\ ags2[a] = Handed(q[served[a]].ev)
      <3>1. PICK k \in 1 .. Len(q) : k = served[a]
        BY <2>2
      <3>2. PICK e \in Events : e = q[k].ev
        BY <1>2
      <3>3. ags2[a] = Handed(e) /\ Fits(e, sn)
        BY <2>2, <3>1, <3>2 DEF FitWork
      <3> QED
        BY <3>3, HandedInPlace, HandedTyped
    <2> QED
      BY <1>1, <2>1, <2>2 DEF Handing
  <1> QED
    BY <1>3, <1>4 DEF FitWork

LEMMA AloneThinned ==
    ASSUME NEW q, NEW r, NEW ags, Alone(q, ags), Thinned(r, q) PROVE Alone(r, ags)
  BY DEF Thinned, Alone

LEMMA AloneLighter ==
    ASSUME NEW q, NEW ags, NEW ags2, Alone(q, ags), Lighter(ags2, ags) PROVE Alone(q, ags2)
  BY DEF Alone, Lighter, Raw

LEMMA DistinctThinned ==
    ASSUME NEW q, NEW r, Distinct(q), Thinned(r, q) PROVE Distinct(r)
  BY DEF Thinned, Distinct

LEMMA QueuedOnce ==
    ASSUME NEW q \in Seq(Entries), NEW e \in Events, NEW ags, Distinct(q), Alone(q, ags),
           e.type = "generate" => \A a \in Agents : ags[a].ev # e
    PROVE  Distinct(Enqueued(q, e)) /\ Alone(Enqueued(q, e), ags)
  <1>1. PICK r : r = Enqueued(q, e)
    OBVIOUS
  <1>2. PICK n \in Nat : n = Len(q)
    BY LenProperties
  <1>3. /\ \A i \in 1 .. n : r[i] = q[i]
        /\ \/ Len(r) = n
           \/ /\ Len(r) = n + 1 /\ r[n + 1] = [ev |-> e, leased |-> FALSE]
              /\ \A i \in 1 .. n : ~SameEvent(q[i].ev, e)
    BY <1>1, <1>2, EnqueuedIs
  <1>4. \A i \in 1 .. n + 1 : i = n + 1 \/ i \in 1 .. n
    OBVIOUS
  <1>5. Distinct(r)
    <2>1. SUFFICES ASSUME NEW i \in 1 .. Len(r), NEW j \in 1 .. Len(r), SameEvent(r[i].ev, r[j].ev)
                   PROVE  i = j
      BY DEF Distinct
    <2>2. SameEvent(r[j].ev, r[i].ev)
      BY <2>1 DEF SameEvent
    <2>3. CASE i \in 1 .. n /\ j \in 1 .. n
      BY <1>2, <1>3, <2>1, <2>3 DEF Distinct
    <2>4. CASE ~(i \in 1 .. n /\ j \in 1 .. n)
      <3>1. /\ Len(r) = n + 1 /\ r[n + 1].ev = e
            /\ \A k \in 1 .. n : ~SameEvent(q[k].ev, e)
        BY <1>2, <1>3, <2>4
      <3>2. (i = n + 1 \/ i \in 1 .. n) /\ (j = n + 1 \/ j \in 1 .. n)
        BY <1>4, <3>1
      <3> QED
        BY <1>3, <2>1, <2>2, <2>4, <3>1, <3>2
    <2> QED
      BY <2>3, <2>4
  <1>6. Alone(r, ags)
    <2>1. SUFFICES ASSUME NEW a \in Agents, Raw(ags[a])
                   PROVE  /\ \A i \in 1 .. Len(r) : r[i].ev = ags[a].ev => r[i].leased
                          /\ \A b \in Agents : ags[b].ev = ags[a].ev => b = a
      BY DEF Alone
    <2>2. ASSUME NEW i \in 1 .. Len(r), r[i].ev = ags[a].ev PROVE r[i].leased
      <3>1. CASE i \in 1 .. n
        BY <1>2, <1>3, <2>1, <2>2, <3>1 DEF Alone
      <3>2. CASE i = n + 1 /\ Len(r) = n + 1
        <4>1. ags[a].ev = e
          BY <1>3, <2>2, <3>2
        <4>2. e.type = "generate"
          BY <2>1, <4>1 DEF Raw
        <4> QED
          BY <4>1, <4>2
      <3> QED
        BY <1>2, <1>3, <1>4, <3>1, <3>2
    <2> QED
      BY <2>1, <2>2 DEF Alone
  <1> QED
    BY <1>1, <1>5, <1>6

LEMMA AloneHanded ==
    ASSUME NEW q \in Seq(Entries), NEW ags \in [Agents -> Hands], NEW q2, NEW ags2,
           Alone(q, ags), Distinct(q), HandedOut(q, ags, q2, ags2)
    PROVE  Alone(q2, ags2)
  <1>1. PICK served : Handing(q, ags, q2, ags2, served)
    BY DEF HandedOut
  <1>2. \A i \in 1 .. Len(q) : q[i].ev \in Events
    <2>1. \A i \in 1 .. Len(q) : q[i] \in Entries
      BY ElementOfSeq
    <2> QED
      BY <2>1 DEF Entries
  <1>3. Len(q2) = Len(q) /\ \A i \in 1 .. Len(q) : q2[i].ev = q[i].ev /\ (q[i].leased => q2[i].leased)
    BY <1>1 DEF Handing
  <1>4. \A a \in Agents :
           \/ served[a] = 0 /\ ags2[a] = ags[a]
           \/ /\ served[a] \in 1 .. Len(q) /\ ~q[served[a]].leased
              /\ ags2[a] = Handed(q[served[a]].ev) /\ q2[served[a]].leased
    BY <1>1 DEF Handing
  <1>5. \A a, b \in Agents : served[a] = served[b] /\ served[a] # 0 => a = b
    BY <1>1 DEF Handing
  <1>6. \A i, j \in 1 .. Len(q) : q[i].ev = q[j].ev => i = j
    BY DEF Distinct, SameEvent
  <1>7. ASSUME NEW a \in Agents, served[a] \in 1 .. Len(q)
        PROVE  ags2[a].ev = q[served[a]].ev /\ ~q[served[a]].leased /\ q2[served[a]].leased
    <2>1. PICK k \in 1 .. Len(q) : k = served[a]
      BY <1>7
    <2>2. ags2[a] = Handed(q[k].ev) /\ ~q[k].leased /\ q2[k].leased
      BY <1>4, <2>1
    <2> QED
      BY <1>2, <2>1, <2>2, HandedTyped
  <1>8. SUFFICES ASSUME NEW a \in Agents, Raw(ags2[a])
                 PROVE  /\ \A i \in 1 .. Len(q) : q[i].ev = ags2[a].ev => q2[i].leased
                        /\ \A b \in Agents : ags2[b].ev = ags2[a].ev => b = a
    BY <1>3 DEF Alone
  <1>9. CASE served[a] = 0 /\ ags2[a] = ags[a]
    <2>1. \A i \in 1 .. Len(q) : q[i].ev = ags[a].ev => q[i].leased
      BY <1>8, <1>9 DEF Alone
    <2>2. ASSUME NEW b \in Agents, ags2[b].ev = ags2[a].ev PROVE b = a
      <3>1. CASE ags2[b] = ags[b]
        BY <1>8, <1>9, <2>2, <3>1 DEF Alone
      <3>2. CASE served[b] \in 1 .. Len(q)
        BY <1>7, <1>9, <2>1, <2>2, <3>2
      <3> QED
        BY <1>4, <3>1, <3>2
    <2> QED
      BY <1>3, <1>9, <2>1, <2>2
  <1>10. CASE served[a] \in 1 .. Len(q)
    <2>1. PICK k \in 1 .. Len(q) : k = served[a]
      BY <1>10
    <2>2. ags2[a].ev = q[k].ev /\ ~q[k].leased /\ q2[k].leased
      BY <1>7, <2>1
    <2>3. \A i \in 1 .. Len(q) : q[i].ev = ags2[a].ev => q2[i].leased
      BY <1>6, <2>2
    <2>4. ASSUME NEW b \in Agents, ags2[b].ev = ags2[a].ev PROVE b = a
      <3>1. CASE ags2[b] = ags[b]
        <4>1. Raw(ags[b]) /\ ags[b].ev = q[k].ev
          BY <1>8, <2>2, <2>4, <3>1 DEF Raw
        <4> QED
          BY <2>2, <4>1 DEF Alone
      <3>2. CASE served[b] \in 1 .. Len(q)
        <4>1. PICK l \in 1 .. Len(q) : l = served[b]
          BY <3>2
        <4>2. q[l].ev = q[k].ev
          BY <1>7, <2>2, <2>4, <4>1
        <4>3. l = k /\ k # 0
          BY <1>6, <4>2
        <4> QED
          BY <1>5, <2>1, <4>1, <4>3
      <3> QED
        BY <1>4, <3>1, <3>2
    <2> QED
      BY <2>3, <2>4
  <1> QED
    BY <1>4, <1>9, <1>10

\* Journaling an entry that takes no decision back.
LEMMA FitEntry ==
    ASSUME Typed, Fitting, NEW id \in Sessions, NEW sn \in Snapshots,
           snap' = [snap EXCEPT ![id] = sn], snap[id].canceled => sn.canceled,
           Fenced(sn) => sn.canceled,
           sn.pending # None /\ sn.pending # snap[id].pending =>
             /\ sn.pending.id = id
             /\ sn.pending.type = "generate" => sn.pending.variant = 0
             /\ sn.pending.type \in Decisions => sn.canceled
    PROVE  FitJournal(snap') /\ Later(snap', snap)
  <1>1. \A s \in Sessions : snap'[s] = IF s = id THEN sn ELSE snap[s]
    BY DEF Typed
  <1>2. Later(snap', snap)
    BY <1>1 DEF Later
  <1>3. ASSUME NEW s \in Sessions, snap[s].pending # None PROVE Fits(snap[s].pending, snap')
    <2>1. snap[s].pending \in Events
      BY <1>3 DEF Typed, Snapshots
    <2>2. snap[s].pending.id \in Sessions
      BY <2>1 DEF Events
    <2>3. Fits(snap[s].pending, snap)
      <3>1. FitJournal(snap)
        BY DEF Fitting
      <3> QED
        BY <1>3, <3>1 DEF FitJournal
    <2> QED
      BY <1>2, <2>2, <2>3 DEF Fits, Later
  <1>4. \A s \in Sessions : Fenced(snap'[s]) => snap'[s].canceled
    <2>1. FitJournal(snap)
      BY DEF Fitting
    <2>2. ASSUME NEW s \in Sessions, Fenced(snap'[s]) PROVE snap'[s].canceled
      <3>1. CASE s = id
        BY <1>1, <2>2, <3>1
      <3>2. CASE s # id
        <4>1. snap'[s] = snap[s]
          BY <1>1, <3>2
        <4>2. Fenced(snap[s])
          BY <2>2, <4>1
        <4>3. snap[s].canceled
          BY <2>1, <4>2 DEF FitJournal
        <4> QED
          BY <4>1, <4>3
      <3> QED
        BY <3>1, <3>2
    <2> QED
      BY <2>2
  <1>5. ASSUME NEW s \in Sessions, snap'[s].pending # None PROVE Fits(snap'[s].pending, snap')
    <2>1. CASE s # id \/ sn.pending = snap[id].pending
      BY <1>1, <1>3, <1>5, <2>1
    <2>2. CASE s = id /\ sn.pending # snap[id].pending
      <3>1. snap'[id] = sn /\ sn.pending # None /\ sn.pending.id = id
        BY <1>1, <1>5, <2>2
      <3> QED
        BY <2>2, <3>1 DEF Fits
    <2> QED
      BY <2>1, <2>2
  <1> QED
    BY <1>2, <1>4, <1>5 DEF FitJournal

\* The journal's entries and decisions.
LEMMA SnapshotsDecided ==
    ASSUME NEW sn \in Snapshots, Fenced(sn) => sn.canceled, NEW e \in Events
    PROVE  /\ Generated(sn, e).canceled = sn.canceled
           /\ Fenced(Generated(sn, e)) => sn.canceled
           /\ Accepted(sn, e).canceled
           /\ DiscardRequested(sn, e).canceled
           /\ Discarded(sn).canceled = sn.canceled
           /\ Completed(sn).canceled = sn.canceled
           /\ MountFailed(sn, e).canceled = sn.canceled
           /\ Fenced(MountFailed(sn, e)) => sn.canceled
           /\ \A c : c.phase \in {"generating", "cycling"} =>
                 /\ Checkpointed(sn, c).canceled = sn.canceled
                 /\ Fenced(Checkpointed(sn, c)) => sn.canceled
  <1>1. PICK t : t = Touched(sn)
    OBVIOUS
  <1>2. t \in Snapshots /\ t = [sn EXCEPT !.known = TRUE]
    BY <1>1 DEF Touched, Snapshots
  <1>3. t.canceled = sn.canceled /\ t.phase = sn.phase
    BY <1>2 DEF Snapshots
  <1>4. Generated(sn, e).canceled = sn.canceled /\ (Fenced(Generated(sn, e)) => sn.canceled)
    BY <1>1, <1>2, <1>3 DEF Generated, Snapshots, Fenced, FencedPhases, CompletedPhases
  <1>5. Accepted(sn, e).canceled /\ DiscardRequested(sn, e).canceled
    BY <1>1, <1>2 DEF Accepted, DiscardRequested, Snapshots
  <1>6. Discarded(sn).canceled = sn.canceled /\ Completed(sn).canceled = sn.canceled
    BY <1>1, <1>2, <1>3 DEF Discarded, Completed, Snapshots
  <1>7. /\ MountFailed(sn, e).canceled = sn.canceled
        /\ Fenced(MountFailed(sn, e)) => sn.canceled
    BY <1>1, <1>2, <1>3 DEF MountFailed, Snapshots, Fenced
  <1>8. ASSUME NEW c, c.phase \in {"generating", "cycling"}
        PROVE  /\ Checkpointed(sn, c).canceled = sn.canceled
               /\ Fenced(Checkpointed(sn, c)) => sn.canceled
    BY <1>1, <1>2, <1>3, <1>8 DEF Checkpointed, Snapshots, Fenced, FencedPhases, CompletedPhases
  <1> QED
    BY <1>4, <1>5, <1>6, <1>7, <1>8

LEMMA JournalOfDecided ==
    ASSUME NEW sn \in Snapshots, Fenced(sn) => sn.canceled,
           NEW reply \in {"done", "agent_done", "error", "complete", "discarded"}, NEW acked, NEW c \in BOOLEAN,
           reply \in {"complete", "discarded"} \/ c => sn.canceled
    PROVE  /\ JournalOf(reply, sn, acked, c).canceled = sn.canceled
           /\ Fenced(JournalOf(reply, sn, acked, c)) => sn.canceled
  <1>1. PICK t : t = Touched(sn)
    OBVIOUS
  <1>2. t \in Snapshots /\ t = [sn EXCEPT !.known = TRUE]
    BY <1>1 DEF Touched, Snapshots
  <1>3. t.canceled = sn.canceled /\ t.phase = sn.phase
    BY <1>2 DEF Snapshots
  <1>4. Discarded(sn).canceled = sn.canceled /\ Completed(sn).canceled = sn.canceled
    BY <1>1, <1>2, <1>3 DEF Discarded, Completed, Snapshots
  <1>5. AgentFailed(sn, acked).canceled = sn.canceled /\ (Fenced(AgentFailed(sn, acked)) => sn.canceled)
    BY <1>1, <1>2, <1>3 DEF AgentFailed, Snapshots, Fenced, FencedPhases, CompletedPhases
  <1>6. AgentDone(sn, c).canceled = sn.canceled /\ (Fenced(AgentDone(sn, c)) => sn.canceled)
    BY <1>1, <1>2, <1>3 DEF AgentDone, Snapshots, Fenced, FencedPhases, CompletedPhases
  <1> QED
    BY <1>4, <1>5, <1>6 DEF JournalOf

\* Steps of the helper that hand entries out after a journal entry.
LEMMA FitFlush ==
    ASSUME Typed, Typed', Fitting, NEW q \in Seq(Entries), NEW ags \in [Agents -> Hands], up, up',
           FitWork(q, ags, snap'), FitJournal(snap'), HandedOut(q, ags, queue', agent'),
           Alone(q, ags), Distinct(q)
    PROVE  Fitting'
  <1>1. PICK sn : sn = snap'
    OBVIOUS
  <1>2. FitWork(queue', agent', sn)
    BY <1>1, FitHanded
  <1>3. Alone(queue', agent')
    BY AloneHanded
  <1> QED
    BY <1>1, <1>2, <1>3 DEF Fitting

\* ... when an event is queued after others were retired.
LEMMA FitQueue ==
    ASSUME Typed, Typed', Fitting, up, up', NEW q \in Seq(Entries), Thinned(q, queue),
           NEW e \in Events, NEW sn \in Snapshots,
           snap' = [snap EXCEPT ![e.id] = sn], snap[e.id].canceled => sn.canceled,
           Fenced(sn) => sn.canceled, sn.pending \in {None, snap[e.id].pending, e},
           e.type = "generate" => e.variant = 0, e.type \in Decisions => sn.canceled,
           Flush(Enqueued(q, e), agent), Distinct(queue),
           e.type = "generate" => \A a \in Agents : agent[a].ev # e
    PROVE  Fitting'
  <1>1. e.id \in Sessions
    BY DEF Events
  <1>2. FitJournal(snap') /\ Later(snap', snap)
    BY <1>1, FitEntry
  <1>3. queue \in Seq(Entries) /\ agent \in [Agents -> Hands] /\ parked \in Seq(Agents)
    BY DEF Typed
  <1>4. PICK sn2 : sn2 = snap'
    OBVIOUS
  <1>5. FitWork(q, agent, sn2)
    BY <1>2, <1>3, <1>4, FitThinned, FitLater DEF Fitting
  <1>6. Fits(e, sn2)
    <2>1. snap'[e.id] = sn
      BY <1>1 DEF Typed
    <2> QED
      BY <1>4, <2>1 DEF Fits
  <1>7. PICK r \in Seq(Entries) : r = Enqueued(q, e)
    BY EnqueuedIs
  <1>8. FitWork(r, agent, sn2)
    BY <1>5, <1>6, <1>7, FitEnqueued
  <1>9. HandedOut(r, agent, queue', agent')
    BY <1>3, <1>7, FlushTyped DEF Typed
  <1>10. Alone(r, agent) /\ Distinct(r)
    <2>1. Alone(q, agent) /\ Distinct(q)
      BY AloneThinned, DistinctThinned DEF Fitting
    <2> QED
      BY <1>7, <2>1, QueuedOnce
  <1> QED
    BY <1>2, <1>3, <1>4, <1>8, <1>9, <1>10, FitFlush

LEMMA FitStays == ASSUME Fitting, UNCHANGED <<snap, queue, agent, up>> PROVE Fitting'
  BY DEF Fitting

\* What the helper makes of a request that it journals and queues.
LEMMA FitReceive ==
    ASSUME Typed, Typed', Worked, Fitting, NEW r \in net,
           \/ ReceiveGenerate(r) \/ ReceiveMountFailure(r)
           \/ \E lost \in BOOLEAN : ReceiveAccept(r, lost) \/ ReceiveDiscard(r, lost)
    PROVE  Fitting'
  <1>1. up /\ up'
    BY DEF ReceiveGenerate, ReceiveMountFailure, ReceiveAccept, ReceiveDiscard, Arrives
  <1>2. PICK old \in Snapshots : old = snap[r.id]
    BY RequestAsks
  <1>3. r.id \in Sessions /\ (Fenced(old) => old.canceled)
    <2>1. r.id \in Sessions
      BY RequestAsks
    <2>2. FitJournal(snap)
      BY DEF Fitting
    <2>3. Fenced(snap[r.id]) => snap[r.id].canceled
      BY <2>1, <2>2 DEF FitJournal
    <2> QED
      BY <1>2, <2>1, <2>3
  <1>4. queue \in Seq(Entries) /\ Thinned(queue, queue) /\ Distinct(queue)
    BY ThinnedSelf DEF Typed, Worked, Work
  <1>5. PICK w \in Seq(Entries) : w = Retired(queue, r.id) /\ Thinned(w, queue)
    BY <1>4, RetiredIs
  <1>6. CASE ReceiveGenerate(r)
    <2>1. PICK e \in Events : e = EventOf("generate", r.id, 0) /\ e.id = r.id /\ e.type = "generate"
      BY RequestAsks
    <2>2. PICK sn \in Snapshots : sn = Generated(old, e) /\ sn.pending = e
      <3>1. Generated(old, e) \in Snapshots
        BY SnapshotsTyped
      <3>2. Generated(old, e).pending = e
        BY SnapshotsKnown
      <3> QED
        BY <3>1, <3>2
    <2>3. sn.canceled = old.canceled /\ (Fenced(sn) => sn.canceled)
      BY <1>3, <2>2, SnapshotsDecided
    <2>4. snap' = [snap EXCEPT ![e.id] = sn] /\ Flush(Enqueued(queue, e), agent)
      BY <1>2, <1>6, <2>1, <2>2 DEF ReceiveGenerate, Journal
    <2>5. e.variant = 0 /\ e.type \notin Decisions
      BY <2>1 DEF EventOf, Decisions
    <2>6. ~snap[e.id].known
      BY <1>6, <2>1 DEF Worked, Creation, ReceiveGenerate, Arrives
    <2>7. \A a \in Agents : agent[a].ev # e
      BY <2>6, SessionsAssumption DEF Worked, Work, Journaled
    <2> QED
      BY <1>1, <1>2, <1>4, <2>1, <2>2, <2>3, <2>4, <2>5, <2>7, FitQueue
  <1>7. CASE ReceiveMountFailure(r)
    <2>1. PICK e \in Events : /\ e = EventOf("variant_mount_failed", r.id, r.variant)
                              /\ e.id = r.id /\ e.type = "variant_mount_failed"
      BY RequestAsks
    <2>2. MountFailed(old, e) \in Snapshots
      BY SnapshotsTyped
    <2>3. MountFailed(old, e).pending \in {old.pending, e}
      BY SnapshotsKnown
    <2>4. PICK sn \in Snapshots : sn = MountFailed(old, e) /\ sn.pending \in {old.pending, e}
      BY <2>2, <2>3
    <2>5. sn.canceled = old.canceled /\ (Fenced(sn) => sn.canceled)
      BY <1>3, <2>4, SnapshotsDecided
    <2>6. snap' = [snap EXCEPT ![e.id] = sn] /\ Flush(Enqueued(queue, e), agent)
      BY <1>2, <1>7, <2>1, <2>4 DEF ReceiveMountFailure, Journal
    <2>7. e.type \notin Decisions /\ e.type # "generate"
      BY <2>1 DEF Decisions
    <2> QED
      BY <1>1, <1>2, <1>4, <2>1, <2>4, <2>5, <2>6, <2>7, FitQueue
  <1>8. CASE \E lost \in BOOLEAN : ReceiveAccept(r, lost)
    <2>1. PICK e \in Events : e = EventOf("accept", r.id, 0) /\ e.id = r.id /\ e.type = "accept"
      BY RequestAsks
    <2>2. PICK sn \in Snapshots : sn = Accepted(old, e) /\ sn.pending = e
      <3>1. Accepted(old, e) \in Snapshots
        BY SnapshotsTyped
      <3>2. Accepted(old, e).pending = e
        BY SnapshotsKnown
      <3> QED
        BY <3>1, <3>2
    <2>3. sn.canceled
      BY <1>3, <2>2, SnapshotsDecided
    <2>4. snap' = [snap EXCEPT ![e.id] = sn] /\ Flush(Enqueued(w, e), agent)
      BY <1>2, <1>5, <1>8, <2>1, <2>2 DEF ReceiveAccept, Journal
    <2>5. e.type # "generate"
      BY <2>1
    <2> QED
      BY <1>1, <1>2, <1>4, <1>5, <2>1, <2>2, <2>3, <2>4, <2>5, FitQueue
  <1>9. CASE \E lost \in BOOLEAN : ReceiveDiscard(r, lost)
    <2>1. PICK e \in Events : e = EventOf("discard", r.id, 0) /\ e.id = r.id /\ e.type = "discard"
      BY RequestAsks
    <2>2. PICK sn \in Snapshots : sn = DiscardRequested(old, e) /\ sn.pending = e
      <3>1. DiscardRequested(old, e) \in Snapshots
        BY SnapshotsTyped
      <3>2. DiscardRequested(old, e).pending = e
        BY SnapshotsKnown
      <3> QED
        BY <3>1, <3>2
    <2>3. sn.canceled
      BY <1>3, <2>2, SnapshotsDecided
    <2>4. snap' = [snap EXCEPT ![e.id] = sn] /\ Flush(Enqueued(w, e), agent)
      BY <1>2, <1>5, <1>9, <2>1, <2>2 DEF ReceiveDiscard, Journal
    <2>5. e.type # "generate"
      BY <2>1
    <2> QED
      BY <1>1, <1>2, <1>4, <1>5, <2>1, <2>2, <2>3, <2>4, <2>5, FitQueue
  <1> QED
    BY <1>6, <1>7, <1>8, <1>9
\* Steps that journal something and give out nothing.
LEMMA FitJournaled ==
    ASSUME Typed, Typed', Fitting, NEW id \in Sessions, NEW sn \in Snapshots,
           snap' = [snap EXCEPT ![id] = sn], snap[id].canceled => sn.canceled,
           Fenced(sn) => sn.canceled, sn.pending \in {None, snap[id].pending},
           Thinned(queue', queue), UNCHANGED <<agent, up>>
    PROVE  Fitting'
  <1>1. FitJournal(snap') /\ Later(snap', snap)
    BY FitEntry
  <1>2. queue \in Seq(Entries) /\ agent \in [Agents -> Hands] /\ queue' \in Seq(Entries)
    BY DEF Typed
  <1>3. PICK sn2 : sn2 = snap'
    OBVIOUS
  <1>4. PICK q \in Seq(Entries) : q = queue'
    BY <1>2
  <1>5. FitWork(q, agent, sn2) /\ Alone(q, agent)
    BY <1>1, <1>2, <1>3, <1>4, FitThinned, FitLater, AloneThinned DEF Fitting
  <1> QED
    BY <1>1, <1>3, <1>4, <1>5 DEF Fitting

LEMMA FitCheckpoint == ASSUME Typed, Typed', Fitting, NEW r \in net, ReceiveCheckpoint(r) PROVE Fitting'
  <1>1. r.id \in Sessions /\ r \in Requests /\ r.phase \in {"generating", "cycling"}
    BY DEF Typed, Requests, ReceiveCheckpoint, Arrives
  <1>2. PICK e \in Events : e = EventOf("accept", r.id, 0)
    BY RequestAsks
  <1>3. PICK old \in Snapshots : old = snap[r.id]
    BY <1>1 DEF Typed
  <1>4. Fenced(old) => old.canceled
    BY <1>1, <1>3 DEF Fitting, FitJournal
  <1>5. PICK sn \in Snapshots : sn = Checkpointed(old, r)
    <2>1. Checkpointed(old, r) \in Snapshots
      BY <1>1, <1>2, SnapshotsTyped
    <2> QED
      BY <2>1
  <1>6. sn.pending = old.pending
    BY <1>2, <1>5, SnapshotsKnown
  <1>7. sn.canceled = old.canceled /\ (Fenced(sn) => old.canceled)
    BY <1>1, <1>2, <1>4, <1>5, SnapshotsDecided
  <1>8. snap' = [snap EXCEPT ![r.id] = sn] /\ UNCHANGED <<queue, agent, up>>
    BY <1>3, <1>5 DEF ReceiveCheckpoint, Journal, workVars
  <1>9. Thinned(queue', queue)
    BY <1>8, ThinnedSelf DEF Typed
  <1> QED
    BY <1>1, <1>3, <1>6, <1>7, <1>8, <1>9, FitJournaled

LEMMA FitOrphaned == ASSUME Typed, Typed', Fitting, NEW r \in net, ReceiveOrphaned(r) PROVE Fitting'
  <1>1. PICK e \in Events : e = EventOf("discard", r.id, 0) /\ e.id = r.id /\ e.type = "discard"
    BY RequestAsks
  <1>2. r.id \in Sessions
    BY RequestAsks
  <1>3. PICK old \in Snapshots : old = snap[r.id]
    BY <1>2 DEF Typed
  <1>4. Fenced(old) => old.canceled
    BY <1>2, <1>3 DEF Fitting, FitJournal
  <1>5. PICK mid \in Snapshots : mid = DiscardRequested(old, e)
    BY SnapshotsTyped
  <1>6. mid.canceled
    BY <1>4, <1>5, SnapshotsDecided
  <1>7. PICK sn \in Snapshots : sn = Discarded(mid)
    BY <1>1, SnapshotsTyped
  <1>8. sn.canceled = mid.canceled
    BY <1>1, <1>6, <1>7, SnapshotsDecided
  <1>9. sn.pending = None
    BY <1>1, <1>7, SnapshotsKnown
  <1>10. snap' = [snap EXCEPT ![r.id] = sn]
    BY <1>1, <1>3, <1>5, <1>7 DEF ReceiveOrphaned, Journal
  <1>11. Thinned(queue', queue)
    BY RetiredIs DEF Typed, ReceiveOrphaned
  <1>12. UNCHANGED <<agent, up>>
    BY DEF ReceiveOrphaned, workVars
  <1> QED
    BY <1>2, <1>6, <1>8, <1>9, <1>10, <1>11, <1>12, FitJournaled

\* Steps in which agents put down what they have or hold it otherwise.
LEMMA FitHands ==
    ASSUME Typed, Fitting, UNCHANGED snap, Lighter(agent', agent), Thinned(queue', queue),
           \A b \in Agents : InPlace(agent'[b]),
           ~up' => \A b \in Agents : agent'[b].at \notin {"scaffolding", "hungup"}
    PROVE  Fitting'
  <1>1. FitWork(queue', agent', snap)
    <2>1. \A i \in 1 .. Len(queue') : Fits(queue'[i].ev, snap)
      BY FitThinned DEF Fitting, FitWork
    <2>2. \A b \in Agents : agent'[b].ev # None => Fits(agent'[b].ev, snap)
      BY DEF Fitting, FitWork, Lighter
    <2> QED
      BY <2>1, <2>2 DEF FitWork
  <1>2. Alone(queue', agent')
    BY AloneThinned, AloneLighter DEF Fitting
  <1> QED
    BY <1>1, <1>2 DEF Fitting

LEMMA FitCrash == ASSUME Typed, Typed', Fitting, Crash PROVE Fitting'
  <1>1. queue' = <<>> /\ UNCHANGED snap
    BY DEF Crash
  <1>2. ASSUME NEW b \in Agents
        PROVE  /\ InPlace(agent'[b]) /\ agent'[b].at \notin {"scaffolding", "hungup"}
               /\ agent'[b].ev = None \/ agent'[b].ev = agent[b].ev
    <2>1. agent'[b] = CASE agent[b].at = "holding" /\ agent[b].ev.type \in Decisions ->
                              [agent[b] EXCEPT !.at = "cutoff"]
                        [] agent[b].at \in {"scaffolding", "hungup", "parked"} -> Idle
                        [] OTHER -> agent[b]
      BY DEF Crash
    <2>2. agent[b] \in Hands /\ Sound(agent[b]) /\ InPlace(agent[b])
      BY DEF Typed, Fitting, FitWork
    <2>3. CASE agent[b].at = "holding" /\ agent[b].ev.type \in Decisions
      <3>1. agent'[b] = [agent[b] EXCEPT !.at = "cutoff"]
        BY <2>1, <2>3
      <3>2. agent'[b].at = "cutoff" /\ agent'[b].ev = agent[b].ev /\ agent[b].ev # None
        BY <2>2, <2>3, <3>1 DEF Hands, Sound
      <3> QED
        BY <2>3, <3>2 DEF InPlace, Decisions
    <2>4. CASE agent[b].at \in {"scaffolding", "hungup", "parked"}
      BY <2>1, <2>4, IdleInPlace DEF Idle
    <2>5. CASE ~(agent[b].at = "holding" /\ agent[b].ev.type \in Decisions)
               /\ agent[b].at \notin {"scaffolding", "hungup", "parked"}
      BY <2>1, <2>2, <2>5
    <2> QED
      BY <2>3, <2>4, <2>5
  <1>3. Thinned(queue', queue)
    <2>1. PICK h : h = [i \in {} |-> 1]
      OBVIOUS
    <2>2. 1 .. Len(<<>>) = {}
      OBVIOUS
    <2>3. h \in [1 .. Len(<<>>) -> 1 .. Len(queue)]
      BY <2>1, <2>2
    <2>4. Thinned(<<>>, queue)
      BY <2>2, <2>3 DEF Thinned
    <2> QED
      BY <1>1, <2>4
  <1>4. Lighter(agent', agent)
    BY <1>2 DEF Lighter
  <1> QED
    BY <1>1, <1>2, <1>3, <1>4, FitHands

LEMMA FitRestart == ASSUME Typed, Typed', Fitting, Restart PROVE Fitting'
  <1>1. PICK waiting : waiting = {s \in Sessions : Active(snap[s]) /\ snap[s].pending # None}
    OBVIOUS
  <1>2. PICK order \in [1 .. Len(queue') -> waiting] :
           \A i \in 1 .. Len(queue') :
                 queue'[i] = [ev |-> snap[order[i]].pending, leased |-> FALSE]
    BY <1>1, RestartIs
  <1>3. UNCHANGED <<snap, agent>> /\ up' = TRUE /\ ~up
    BY DEF Restart, workVars
  <1>4. \A i \in 1 .. Len(queue') : Fits(queue'[i].ev, snap)
    <2>1. SUFFICES ASSUME NEW i \in 1 .. Len(queue') PROVE Fits(queue'[i].ev, snap)
      OBVIOUS
    <2>2. PICK s \in waiting : s = order[i]
      BY <1>2
    <2>3. s \in Sessions /\ snap[s].pending # None
      BY <1>1
    <2>4. queue'[i].ev = snap[s].pending
      <3>1. queue'[i] = [ev |-> snap[order[i]].pending, leased |-> FALSE]
        BY <1>2
      <3> QED
        BY <2>2, <3>1
    <2> QED
      BY <2>3, <2>4 DEF Fitting, FitJournal
  <1>5. FitWork(queue', agent', snap)
    BY <1>3, <1>4 DEF Fitting, FitWork
  <1>6. \A a \in Agents : ~Raw(agent[a])
    BY <1>3 DEF Fitting, FitWork, InPlace, Raw
  <1>7. Alone(queue', agent')
    BY <1>3, <1>6 DEF Alone
  <1> QED
    BY <1>3, <1>5, <1>7 DEF Fitting

LEMMA FitLapses == ASSUME Typed, Typed', Worked, Fitting, NEW i \in DOMAIN queue, LeaseLapses(i) PROVE Fitting'
  <1>1. queue \in Seq(Entries) /\ agent \in [Agents -> Hands] /\ i \in 1 .. Len(queue) /\ parked \in Seq(Agents)
    BY LenProperties DEF Typed
  <1>2. PICK q : q = [queue EXCEPT ![i].leased = FALSE]
    OBVIOUS
  <1>3. /\ q \in Seq(Entries) /\ Len(q) = Len(queue)
        /\ \A j \in 1 .. Len(queue) : q[j].ev = queue[j].ev /\ (j # i => q[j] = queue[j])
    BY <1>1, <1>2, UnleasedTyped
  <1>4. up /\ up' /\ UNCHANGED snap /\ Flush(q, agent)
        /\ ~\E a \in Agents : agent[a].at \in {"scaffolding", "hungup"} /\ agent[a].ev = queue[i].ev
    BY <1>2 DEF LeaseLapses
  <1>5. FitWork(q, agent, snap)
    BY <1>3 DEF Fitting, FitWork
  <1>6. Distinct(q)
    BY <1>3 DEF Worked, Work, Distinct
  <1>7. Alone(q, agent)
    <2>1. SUFFICES ASSUME NEW a \in Agents, Raw(agent[a])
                   PROVE  /\ \A j \in 1 .. Len(q) : q[j].ev = agent[a].ev => q[j].leased
                          /\ \A b \in Agents : agent[b].ev = agent[a].ev => b = a
      BY DEF Alone
    <2>2. agent[a].at \in {"scaffolding", "hungup"}
      BY <2>1 DEF Fitting, FitWork, InPlace, Raw
    <2>3. agent[a].ev # queue[i].ev
      BY <1>4, <2>2
    <2>4. /\ \A j \in 1 .. Len(queue) : queue[j].ev = agent[a].ev => queue[j].leased
          /\ \A b \in Agents : agent[b].ev = agent[a].ev => b = a
      BY <2>1 DEF Fitting, Alone
    <2> QED
      BY <1>3, <2>3, <2>4
  <1>8. HandedOut(q, agent, queue', agent')
    BY <1>1, <1>3, <1>4, FlushTyped DEF Typed
  <1>9. FitWork(q, agent, snap') /\ FitJournal(snap')
    BY <1>4, <1>5 DEF Fitting
  <1> QED
    BY <1>1, <1>3, <1>4, <1>6, <1>7, <1>8, <1>9, FitFlush

LEMMA FitPoll == ASSUME Typed, Typed', Worked, Fitting, NEW a \in Agents, Poll(a) PROVE Fitting'
  <1>1. UNCHANGED <<snap, up>> /\ up
    BY DEF Poll
  <1>2. queue \in Seq(Entries) /\ agent \in [Agents -> Hands] /\ Distinct(queue)
    BY DEF Typed, Worked, Work
  <1>3. CASE /\ agent' = [agent EXCEPT ![a] = [at |-> "parked", ev |-> None]]
             /\ UNCHANGED queue
    <2>1. Lighter(agent', agent)
      BY <1>2, <1>3 DEF Lighter
    <2>2. InPlace([at |-> "parked", ev |-> None])
      BY DEF InPlace
    <2>3. \A b \in Agents : InPlace(agent'[b])
      BY <1>2, <1>3, <2>2 DEF Fitting, FitWork
    <2>4. Thinned(queue', queue)
      BY <1>2, <1>3, ThinnedSelf
    <2> QED
      BY <1>1, <2>1, <2>3, <2>4, FitHands
  <1>4. CASE \E i \in Available(queue) :
               /\ queue' = Leased(queue, {i})
               /\ agent' = [agent EXCEPT ![a] = Handed(queue[i].ev)]
    <2>1. HandedOut(queue, agent, queue', agent')
      BY <1>4, PollHandsOut
    <2> QED
      BY <1>1, <1>2, <2>1, FitFlush DEF Fitting
  <1> QED
    BY <1>3, <1>4 DEF Poll

LEMMA FitScaffold == ASSUME Typed, Typed', Fitting, Worked, NEW a \in Agents, ScaffoldLands(a) PROVE Fitting'
  <1>1. PICK e : e = [agent[a].ev EXCEPT !.ready = TRUE]
    OBVIOUS
  <1>2. PICK d \in Events : d = agent[a].ev
    BY ScaffoldIs
  <1>3. /\ e \in Events /\ e.id = d.id /\ e.type = d.type /\ e.variant = d.variant /\ e.ready
        /\ snap' = [snap EXCEPT ![e.id] = Generated(snap[e.id], e)]
        /\ queue' \in Seq(Entries) /\ Len(queue') = Len(queue)
        /\ \A i \in 1 .. Len(queue) :
              queue'[i] = IF queue[i].ev = d THEN [ev |-> e, leased |-> TRUE] ELSE queue[i]
    BY <1>1, <1>2, ScaffoldIs
  <1>4. e.id \in Sessions /\ up /\ up' /\ agent[a].at \in {"scaffolding", "hungup"}
    BY <1>3 DEF Events, ScaffoldLands
  <1>5. d.type = "generate" /\ d.variant = 0 /\ ~d.ready
    BY <1>2, <1>4 DEF Fitting, FitWork, InPlace, Fits
  <1>6. PICK old \in Snapshots : old = snap[e.id]
    BY <1>4 DEF Typed
  <1>7. Fenced(old) => old.canceled
    BY <1>4, <1>6 DEF Fitting, FitJournal
  <1>8. PICK sn \in Snapshots : sn = Generated(old, e)
    BY <1>3, SnapshotsTyped
  <1>9. sn.pending = e
    BY <1>3, <1>8, SnapshotsKnown
  <1>10. sn.canceled = old.canceled /\ (Fenced(sn) => old.canceled)
    BY <1>3, <1>7, <1>8, SnapshotsDecided
  <1>11. e.type \notin Decisions
    BY <1>3, <1>5 DEF Decisions
  <1>12. snap' = [snap EXCEPT ![e.id] = sn]
    BY <1>3, <1>6, <1>8
  <1>13. FitJournal(snap') /\ Later(snap', snap)
    BY <1>3, <1>4, <1>5, <1>6, <1>9, <1>10, <1>11, <1>12, FitEntry
  <1>14. agent' = [agent EXCEPT ![a] = IF @.at = "hungup" THEN Idle ELSE [at |-> "holding", ev |-> e]]
    BY <1>1 DEF ScaffoldLands
  <1>15. queue \in Seq(Entries) /\ agent \in [Agents -> Hands]
    BY DEF Typed
  <1>16. PICK sn2 : sn2 = snap'
    OBVIOUS
  <1>17. FitWork(queue, agent, sn2)
    BY <1>13, <1>15, <1>16, FitLater DEF Fitting
  <1>18. Fits(e, sn2)
    BY <1>3, <1>5, <1>11 DEF Fits
  <1>19. \A i \in 1 .. Len(queue') : Fits(queue'[i].ev, sn2)
    BY <1>3, <1>17, <1>18 DEF FitWork
  <1>20. e # None
    BY <1>3, SessionsAssumption
  <1>21. ASSUME NEW b \in Agents
         PROVE  InPlace(agent'[b]) /\ (agent'[b].ev # None => Fits(agent'[b].ev, sn2))
    <2>1. InPlace([at |-> "holding", ev |-> e])
      BY <1>3, <1>20 DEF InPlace
    <2>2. agent'[b] = agent[b] \/ agent'[b] = Idle \/ agent'[b] = [at |-> "holding", ev |-> e]
      BY <1>14, <1>15
    <2>3. CASE agent'[b] = agent[b]
      BY <1>17, <2>3 DEF FitWork
    <2>4. CASE agent'[b] = Idle
      BY <2>4, IdleIs, IdleInPlace
    <2>5. CASE agent'[b] = [at |-> "holding", ev |-> e]
      BY <1>18, <2>1, <2>5
    <2> QED
      BY <2>2, <2>3, <2>4, <2>5
  <1>22. FitWork(queue', agent', sn2)
    BY <1>19, <1>21 DEF FitWork
  <1>23. Alone(queue', agent')
    <2>1. SUFFICES ASSUME NEW b \in Agents, Raw(agent'[b])
                   PROVE  /\ \A i \in 1 .. Len(queue') : queue'[i].ev = agent'[b].ev => queue'[i].leased
                          /\ \A c \in Agents : agent'[c].ev = agent'[b].ev => c = b
      BY DEF Alone
    <2>2. b # a /\ agent'[b] = agent[b]
      <3>1. ~Raw(Idle) /\ ~Raw([at |-> "holding", ev |-> e])
        BY <1>3, IdleIs DEF Raw
      <3> QED
        BY <1>14, <1>15, <2>1, <3>1
    <2>3. /\ \A i \in 1 .. Len(queue) : queue[i].ev = agent[b].ev => queue[i].leased
          /\ \A c \in Agents : agent[c].ev = agent[b].ev => c = b
      BY <2>1, <2>2 DEF Fitting, Alone
    <2>4. ASSUME NEW i \in 1 .. Len(queue), queue'[i].ev = agent'[b].ev PROVE queue'[i].leased
      <3>1. CASE queue[i].ev = d
        <4>1. queue'[i] = [ev |-> e, leased |-> TRUE]
          BY <1>3, <3>1
        <4> QED
          BY <4>1
      <3>2. CASE queue[i].ev # d
        BY <1>3, <2>2, <2>3, <2>4, <3>2
      <3> QED
        BY <3>1, <3>2
    <2>5. ASSUME NEW c \in Agents, agent'[c].ev = agent'[b].ev PROVE c = b
      <3>1. CASE c = a
        <4>1. agent'[a] = Idle \/ agent'[a] = [at |-> "holding", ev |-> e]
          BY <1>14, <1>15
        <4>2. agent'[a].ev = None \/ agent'[a].ev = e
          BY <4>1, IdleIs
        <4> QED
          BY <1>3, <2>1, <2>5, <3>1, <4>2 DEF Raw
      <3>2. CASE c # a
        BY <1>14, <1>15, <2>2, <2>3, <2>5, <3>2
      <3> QED
        BY <3>1, <3>2
    <2> QED
      BY <1>3, <2>4, <2>5
  <1> QED
    BY <1>4, <1>13, <1>16, <1>22, <1>23 DEF Fitting

\* Only an agent that has carried a decision out says complete or discarded,
\* or leaves cleanup behind.
LEMMA FitReply ==
    ASSUME Typed, Typed', Worked, Fitting, NEW a \in Agents, agent[a].ev # None,
           NEW reply \in {"done", "agent_done", "error", "complete", "discarded"}, NEW named,
           NEW carbonize \in BOOLEAN, NEW next \in Hands, Sound(next), InPlace(next),
           next.ev \in {None, agent[a].ev},
           reply \in {"complete", "discarded"} \/ carbonize => agent[a].ev.type \in Decisions,
           Reply(a, reply, named, carbonize, next)
    PROVE  Fitting'
  <1>1. PICK id \in Sessions : id = agent[a].ev.id
    BY ReplyIs
  <1>2. ReplyJournals(a, reply, carbonize, next)
    BY ReplyIs
  <1>3. PICK acked : \E sn \in Snapshots, rest \in Seq(Entries) :
            /\ snap' = [snap EXCEPT ![id] = sn]
            /\ \/ sn = snap[id]
               \/ sn = JournalOf(reply, snap[id], acked, carbonize)
            /\ Thinned(rest, queue)
            /\ HandedOut(rest, [agent EXCEPT ![a] = next], queue', agent')
    BY <1>1, <1>2 DEF ReplyJournals
  <1>4. PICK sn \in Snapshots, rest \in Seq(Entries) :
            /\ snap' = [snap EXCEPT ![id] = sn]
            /\ \/ sn = snap[id]
               \/ sn = JournalOf(reply, snap[id], acked, carbonize)
            /\ Thinned(rest, queue)
            /\ HandedOut(rest, [agent EXCEPT ![a] = next], queue', agent')
    BY <1>3
  <1>5. up /\ up'
    <2>1. ReplyAnnounces(a, reply, carbonize)
      BY ReplyIs
    <2> QED
      BY <2>1 DEF ReplyAnnounces
  <1>6. PICK old \in Snapshots : old = snap[id]
    BY <1>1 DEF Typed
  <1>7. Fenced(old) => old.canceled
    BY <1>1, <1>6 DEF Fitting, FitJournal
  <1>8. reply \in {"complete", "discarded"} \/ carbonize => old.canceled
    BY <1>1, <1>6 DEF Fitting, FitWork, Fits
  <1>9. sn.canceled = old.canceled /\ (Fenced(sn) => sn.canceled)
    <2>1. /\ JournalOf(reply, old, acked, carbonize).canceled = old.canceled
          /\ Fenced(JournalOf(reply, old, acked, carbonize)) => old.canceled
      BY <1>7, <1>8, JournalOfDecided
    <2> QED
      BY <1>4, <1>6, <1>7, <2>1
  <1>10. sn.pending \in {None, old.pending}
    <2>1. PICK e \in Events : e = agent[a].ev
      BY ReplyIs
    <2>2. JournalOf(reply, old, acked, carbonize).pending \in {None, old.pending}
      BY <2>1, JournalOfKnown
    <2> QED
      BY <1>4, <1>6, <2>2
  <1>11. FitJournal(snap') /\ Later(snap', snap)
    BY <1>4, <1>6, <1>9, <1>10, FitEntry
  <1>12. PICK ags : ags = [agent EXCEPT ![a] = next]
    OBVIOUS
  <1>13. /\ ags \in [Agents -> Hands] /\ Lighter(ags, agent)
         /\ \A b \in Agents : ags[b] = next \/ ags[b] = agent[b]
    BY <1>12 DEF Typed, Lighter
  <1>14. PICK sn2 : sn2 = snap'
    OBVIOUS
  <1>15. FitWork(rest, agent, sn2)
    <2>1. queue \in Seq(Entries) /\ agent \in [Agents -> Hands]
      BY DEF Typed
    <2>2. FitWork(queue, agent, sn2)
      BY <1>11, <1>14, <2>1, FitLater DEF Fitting
    <2> QED
      BY <1>4, <2>2, FitThinned
  <1>16. FitWork(rest, ags, sn2)
    <2>1. \A b \in Agents : InPlace(ags[b])
      BY <1>13, <1>15 DEF FitWork
    <2>2. \A b \in Agents : ags[b].ev # None => Fits(ags[b].ev, sn2)
      BY <1>13, <1>15 DEF FitWork, Lighter
    <2> QED
      BY <1>15, <2>1, <2>2 DEF FitWork
  <1>17. Distinct(rest) /\ Alone(rest, ags)
    <2>1. Distinct(rest)
      BY <1>4, DistinctThinned DEF Worked, Work
    <2>2. Alone(rest, agent)
      BY <1>4, AloneThinned DEF Fitting
    <2> QED
      BY <1>13, <2>1, <2>2, AloneLighter
  <1>18. HandedOut(rest, ags, queue', agent')
    BY <1>4, <1>12
  <1> QED
    BY <1>5, <1>11, <1>13, <1>14, <1>16, <1>17, <1>18, FitFlush

LEMMA FitAnswers ==
    ASSUME Typed, Typed', Worked, Fitting, NEW a \in Agents,
           \/ ReplyError(a) \/ CleanUp(a)
           \/ \E lost \in BOOLEAN : ReplyDone(a, lost)
           \/ \E cleanup \in BOOLEAN : CarryOut(a, cleanup)
           \/ \E byHand \in BOOLEAN : CarryOutFails(a, byHand)
    PROVE  Fitting'
  <1>1. agent[a].ev # None
    BY DEF ReplyError, CleanUp, ReplyDone, CarryOut, CarryOutFails, Works, Typed, Sound
  <1>2. /\ agent[a] \in Hands /\ Sound(agent[a]) /\ InPlace(agent[a]) /\ agent[a].ev \in Events
        /\ agent[a].ev.id \in Sessions
    BY <1>1 DEF Typed, Fitting, FitWork, Hands, Events
  <1>3. PICK next : next = [at |-> "cleanup", ev |-> agent[a].ev]
    OBVIOUS
  <1>4. next \in Hands /\ Sound(next) /\ next.ev = agent[a].ev
    BY <1>1, <1>2, <1>3 DEF Hands, Places, Sound
  <1>5. agent[a].ev.type \in Decisions => InPlace(next)
    BY <1>1, <1>3 DEF InPlace, Decisions
  <1>6. Idle \in Hands /\ Sound(Idle) /\ Idle.ev = None /\ InPlace(Idle)
    BY IdleIs, IdleInPlace
  <1>7. CASE ReplyError(a)
    <2>1. Reply(a, "error", None, FALSE, Idle)
      BY <1>7 DEF ReplyError
    <2> QED
      BY <1>1, <1>6, <2>1, FitReply
  <1>8. ASSUME NEW lost \in BOOLEAN, ReplyDone(a, lost) PROVE Fitting'
    <2>1. PICK then : then = Afterwards(a, lost)
      OBVIOUS
    <2>2. then = agent[a] \/ then = Idle
      BY <2>1 DEF Afterwards
    <2>3. then \in Hands /\ Sound(then) /\ InPlace(then) /\ then.ev \in {None, agent[a].ev}
      BY <1>2, <1>6, <2>2
    <2>4. Reply(a, "done", None, FALSE, then)
      BY <1>8, <2>1 DEF ReplyDone
    <2> QED
      BY <1>1, <2>3, <2>4, FitReply
  <1>9. CASE CleanUp(a)
    <2>0. agent[a].ev.type \in Decisions
      BY <1>2, <1>9 DEF CleanUp, InPlace
    <2>1. CASE Reply(a, "complete", None, FALSE, Idle)
      BY <1>1, <1>6, <2>0, <2>1, FitReply
    <2>2. CASE /\ Journal(agent[a].ev.id, Completed(snap[agent[a].ev.id]))
               /\ agent' = [agent EXCEPT ![a] = Idle]
               /\ UNCHANGED <<up, queue, parked, page, net, history>>
      <3>1. PICK id \in Sessions : id = agent[a].ev.id
        BY <1>2
      <3>2. PICK old \in Snapshots : old = snap[id]
        BY DEF Typed
      <3>3. PICK sn \in Snapshots : sn = Completed(old)
        BY <1>2, SnapshotsTyped
      <3>4. sn.pending = None
        BY <1>2, <3>3, SnapshotsKnown
      <3>5. old.canceled
        BY <1>1, <2>0, <3>1, <3>2 DEF Fitting, FitWork, Fits
      <3>6. sn.canceled = old.canceled
        BY <1>2, <3>3, <3>5, SnapshotsDecided
      <3>7. snap' = [snap EXCEPT ![id] = sn]
        BY <2>2, <3>1, <3>2, <3>3 DEF Journal
      <3>8. FitJournal(snap') /\ Later(snap', snap)
        BY <3>2, <3>4, <3>5, <3>6, <3>7, FitEntry
      <3>9. PICK sn2 : sn2 = snap'
        OBVIOUS
      <3>10. queue \in Seq(Entries) /\ agent \in [Agents -> Hands] /\ agent' \in [Agents -> Hands]
        BY DEF Typed
      <3>11. FitWork(queue, agent, sn2)
        BY <3>8, <3>9, <3>10, FitLater DEF Fitting
      <3>12. \A b \in Agents : agent'[b] = agent[b] \/ agent'[b] = Idle
        BY <2>2, <3>10
      <3>13. FitWork(queue, agent', sn2)
        BY <1>6, <3>11, <3>12 DEF FitWork
      <3>14. Alone(queue, agent')
        <4>1. Lighter(agent', agent)
          BY <1>6, <3>12 DEF Lighter
        <4> QED
          BY <4>1, AloneLighter DEF Fitting
      <3>15. ~up => \A b \in Agents : agent'[b].at \notin {"scaffolding", "hungup"}
        BY <3>12 DEF Fitting, Idle
      <3> QED
        BY <2>2, <3>8, <3>9, <3>13, <3>14, <3>15 DEF Fitting
    <2> QED
      BY <1>9, <2>1, <2>2 DEF CleanUp
  <1>10. ASSUME NEW cleanup \in BOOLEAN, CarryOut(a, cleanup) PROVE Fitting'
    <2>0. agent[a].ev.type \in Decisions
      BY <1>10 DEF CarryOut
    <2>a. PICK then : then = IF cleanup THEN next ELSE Idle
      OBVIOUS
    <2>b. then \in Hands /\ Sound(then) /\ InPlace(then) /\ then.ev \in {None, agent[a].ev}
      BY <1>4, <1>5, <1>6, <2>0, <2>a
    <2>1. CASE Reply(a, "agent_done", "accept", TRUE, then)
      BY <1>1, <2>0, <2>b, <2>1, FitReply
    <2>2. CASE Reply(a, IF agent[a].ev.type = "accept" THEN "complete" ELSE "discarded",
                     agent[a].ev.type, FALSE, then)
      <3>1. PICK reply \in {"complete", "discarded"}, named \in {agent[a].ev.type} :
               reply = IF agent[a].ev.type = "accept" THEN "complete" ELSE "discarded"
        OBVIOUS
      <3>2. Reply(a, reply, named, FALSE, then)
        BY <2>2, <3>1
      <3> QED
        BY <1>1, <2>0, <2>b, <3>2, FitReply
    <2>3. CASE agent' = [agent EXCEPT ![a] = then] /\ UNCHANGED serverVars
      <3>1. agent \in [Agents -> Hands]
        BY DEF Typed
      <3>2. \A b \in Agents : agent'[b] = agent[b] \/ (agent'[b] = then /\ b = a)
        BY <2>3, <3>1
      <3>3. Lighter(agent', agent) /\ \A b \in Agents : InPlace(agent'[b])
        BY <2>b, <3>2 DEF Lighter, Fitting, FitWork
      <3>4. Thinned(queue', queue)
        BY <2>3, ThinnedSelf DEF serverVars, Typed
      <3>5. then.at \notin {"scaffolding", "hungup"}
        BY <1>3, <2>a DEF Idle
      <3>6. ~up' => \A b \in Agents : agent'[b].at \notin {"scaffolding", "hungup"}
        BY <2>3, <3>2, <3>5 DEF Fitting, serverVars
      <3> QED
        BY <2>3, <3>3, <3>4, <3>6, FitHands DEF serverVars
    <2> QED
      BY <1>3, <1>10, <2>a, <2>1, <2>2, <2>3 DEF CarryOut
  <1>11. ASSUME NEW byHand \in BOOLEAN, CarryOutFails(a, byHand) PROVE Fitting'
    <2>0. agent[a].ev.type \in Decisions
      BY <1>11 DEF CarryOutFails, Works
    <2>1. CASE Reply(a, "agent_done", "accept", FALSE, next)
      BY <1>1, <1>4, <1>5, <2>0, <2>1, FitReply
    <2>2. CASE Reply(a, "error", agent[a].ev.type, FALSE, Idle)
      <3>1. PICK named : named = agent[a].ev.type
        OBVIOUS
      <3>2. Reply(a, "error", named, FALSE, Idle)
        BY <2>2, <3>1
      <3> QED
        BY <1>1, <1>6, <3>2, FitReply
    <2> QED
      BY <1>3, <1>11, <2>1, <2>2 DEF CarryOutFails
  <1> QED
    BY <1>7, <1>8, <1>9, <1>10, <1>11

LEMMA FitDies == ASSUME Typed, Typed', Fitting, NEW a \in Agents, AgentDies(a) PROVE Fitting'
  <1>1. UNCHANGED <<snap, up, queue>>
    BY DEF AgentDies
  <1>2. agent' = [agent EXCEPT ![a] = IF @.at = "scaffolding" THEN [@ EXCEPT !.at = "hungup"] ELSE Idle]
    BY DEF AgentDies
  <1>3. agent[a] \in Hands /\ agent \in [Agents -> Hands] /\ InPlace(agent[a])
    BY DEF Typed, Fitting, FitWork
  <1>4. PICK hand : hand = IF agent[a].at = "scaffolding" THEN [agent[a] EXCEPT !.at = "hungup"] ELSE Idle
    OBVIOUS
  <1>5. \A b \in Agents : agent'[b] = agent[b] \/ (agent'[b] = hand /\ b = a)
    BY <1>2, <1>3, <1>4
  <1>6. /\ hand.ev = None \/ hand.ev = agent[a].ev
        /\ hand.at = "hungup" => agent[a].at = "scaffolding"
        /\ hand.at \in {"hungup", "idle"}
        /\ InPlace(hand)
    <2>1. CASE agent[a].at = "scaffolding"
      <3>1. hand.at = "hungup" /\ hand.ev = agent[a].ev
        BY <1>3, <1>4, <2>1 DEF Hands
      <3> QED
        BY <1>3, <2>1, <3>1 DEF InPlace
    <2>2. CASE agent[a].at # "scaffolding"
      BY <1>4, <2>2, IdleInPlace DEF Idle
    <2> QED
      BY <2>1, <2>2
  <1>7. Lighter(agent', agent) /\ \A b \in Agents : InPlace(agent'[b])
    BY <1>5, <1>6 DEF Lighter, Fitting, FitWork
  <1>8. ~up' => \A b \in Agents : agent'[b].at \notin {"scaffolding", "hungup"}
    BY <1>1, <1>5, <1>6 DEF Fitting
  <1>9. Thinned(queue', queue)
    BY <1>1, ThinnedSelf DEF Typed
  <1> QED
    BY <1>1, <1>7, <1>8, <1>9, FitHands

LEMMA FittingInit == Init => Fitting
  <1>1. SUFFICES ASSUME Init PROVE Fitting
    OBVIOUS
  <1>2. queue = <<>> /\ up = TRUE /\ \A a \in Agents : agent[a] = Idle
    BY <1>1 DEF Init
  <1>3. \A s \in Sessions : snap[s] = BlankSnapshot
    BY <1>1 DEF Init
  <1>4. ~Fenced(BlankSnapshot) /\ BlankSnapshot.pending = None
    BY DEF BlankSnapshot, Fenced, FencedPhases, CompletedPhases
  <1>5. FitJournal(snap)
    BY <1>3, <1>4 DEF FitJournal
  <1>6. 1 .. Len(queue) = {}
    BY <1>2
  <1>7. FitWork(queue, agent, snap) /\ Alone(queue, agent)
    BY <1>2, <1>6, IdleIs, IdleInPlace DEF FitWork, Alone, Raw
  <1> QED
    BY <1>2, <1>5, <1>7 DEF Fitting

LEMMA FittingStep == Typed /\ Typed' /\ Worked /\ Fitting /\ [Next]_vars => Fitting'
  <1>1. SUFFICES ASSUME Typed, Typed', Worked, Fitting, [Next]_vars PROVE Fitting'
    OBVIOUS
  <1>2. CASE UNCHANGED vars
    BY <1>1, <1>2, FitStays DEF vars
  <1>3. CASE PageNext
    <2>1. UNCHANGED <<snap, queue, agent, up>>
      BY <1>3 DEF PageNext, Go, CaptureDone, Accept, Discard, Observe, Retry, Inject, Mount, PullIsStale,
         MountFails, CycleFails, Reload, ConnectionLost, Connect, EditedAway, serverVars, workVars
    <2> QED
      BY <1>1, <2>1, FitStays
  <1>4. CASE HelperNext
    <2>1. ASSUME NEW r \in net, RequestFails(r) \/ RefuseCheckpoint(r) PROVE Fitting'
      <3>1. UNCHANGED <<snap, queue, agent, up>>
        BY <2>1 DEF RequestFails, RefuseCheckpoint, serverVars, workVars
      <3> QED
        BY <1>1, <3>1, FitStays
    <2>2. ASSUME NEW r \in net, ReceiveCheckpoint(r) PROVE Fitting'
      BY <1>1, <2>2, FitCheckpoint
    <2>3. ASSUME NEW r \in net, ReceiveOrphaned(r) PROVE Fitting'
      BY <1>1, <2>3, FitOrphaned
    <2>4. ASSUME NEW r \in net,
                 \/ ReceiveGenerate(r) \/ ReceiveMountFailure(r)
                 \/ \E lost \in BOOLEAN : ReceiveAccept(r, lost) \/ ReceiveDiscard(r, lost)
          PROVE  Fitting'
      BY <1>1, <2>4, FitReceive
    <2>5. ASSUME NEW i \in DOMAIN queue, LeaseLapses(i) PROVE Fitting'
      BY <1>1, <2>5, FitLapses
    <2>6. CASE Crash \/ Restart
      BY <1>1, <2>6, FitCrash, FitRestart
    <2> QED
      BY <1>4, <2>1, <2>2, <2>3, <2>4, <2>5, <2>6 DEF HelperNext
  <1>5. CASE AgentNext
    <2>1. ASSUME NEW a \in Agents, Write(a) PROVE Fitting'
      <3>1. UNCHANGED <<snap, queue, agent, up>>
        BY <2>1 DEF Write, serverVars
      <3> QED
        BY <1>1, <3>1, FitStays
    <2>2. ASSUME NEW a \in Agents, Bounced(a) PROVE Fitting'
      <3>1. UNCHANGED <<snap, agent, up>> /\ Lighter(agent', agent)
        BY <2>2 DEF Bounced, workVars, Lighter
      <3>2. Thinned(queue', queue)
        BY <1>1, <2>2, BouncedThins
      <3>3. \A b \in Agents : InPlace(agent'[b])
        BY <1>1, <3>1 DEF Fitting, FitWork
      <3>4. ~up' => \A b \in Agents : agent'[b].at \notin {"scaffolding", "hungup"}
        BY <1>1, <3>1 DEF Fitting
      <3> QED
        BY <1>1, <3>1, <3>2, <3>3, <3>4, FitHands
    <2>3. ASSUME NEW a \in Agents,
                 \/ ReplyError(a) \/ CleanUp(a)
                 \/ \E lost \in BOOLEAN : ReplyDone(a, lost)
                 \/ \E cleanup \in BOOLEAN : CarryOut(a, cleanup)
                 \/ \E byHand \in BOOLEAN : CarryOutFails(a, byHand)
          PROVE  Fitting'
      BY <1>1, <2>3, FitAnswers
    <2>4. ASSUME NEW a \in Agents, Poll(a) \/ ScaffoldLands(a) \/ AgentDies(a) PROVE Fitting'
      BY <1>1, <2>4, FitPoll, FitScaffold, FitDies
    <2> QED
      BY <1>5, <2>1, <2>2, <2>3, <2>4 DEF AgentNext
  <1> QED
    BY <1>1, <1>2, <1>3, <1>4, <1>5 DEF Next

-----------------------------------------------------------------------------
(***************************************************************************)
(* Until a session has been generated for the first time there is nothing  *)
(* of it anywhere that could be decided, published or shown.               *)
(***************************************************************************)

RawOf(s) == EventOf("generate", s, 0)

\* The events that wait or are in hand.
About(q, ags) == {q[i].ev : i \in 1 .. Len(q)} \union {ags[a].ev : a \in Agents}

CleanPage(p, s) ==
    /\ p.cur = s => p.st \notin {"CYCLING", "SAVING"} /\ p.arrived = 0 /\ ~p.file
    /\ p.stored.id = s => p.stored.arrived = 0 /\ ~p.stored.file
    /\ \A pl \in p.pulls : pl.id # s

CleanNet(n, s) ==
    \A r \in n : r.id = s => r.kind \in {"generate", "checkpoint"} /\ r.arrived = 0

CleanJournal(sn, s) ==
    /\ ~sn.canceled /\ sn.phase \notin FencedPhases /\ ~sn.finished /\ sn.arrived = 0
    /\ sn.pending \in {None, RawOf(s)}

CleanWork(events, s) == \A e \in events : e # None /\ e.id = s => e = RawOf(s)

Unmade(events, sn, s) == ~sn.known \/ sn.pending = RawOf(s) \/ RawOf(s) \in events

Clean(s) ==
    /\ source[s] = 0
    /\ CleanJournal(snap[s], s)
    /\ CleanWork(About(queue, agent), s)
    /\ CleanPage(page, s)
    /\ CleanNet(net, s)

Unspoilt == \A s \in Sessions \ misled : Unmade(About(queue, agent), snap[s], s) => Clean(s)

-----------------------------------------------------------------------------
\* The page's operators and a session nothing is there of.

LEMMA PageStaysClean ==
    ASSUME NEW p \in Pages, NEW s \in Sessions, CleanPage(p, s)
    PROVE  /\ CleanPage(Saved(p), s)
           /\ CleanPage(LetGo(p), s)
           /\ CleanPage(NextRevision(p), s)
           /\ \A id, why : id # s => CleanPage(Pulling(p, id, why), s)
           /\ \A id : CleanPage(AcceptConfirmed(p, id), s)
           /\ p.cur # s => \A id : CleanPage(AcceptFailed(p, id), s)
  <1>1. CleanPage(Saved(p), s) /\ CleanPage(NextRevision(p), s)
    BY DEF Saved, NextRevision, Pages, CleanPage
  <1>2. LetGo(p) \in Pages /\ CleanPage(LetGo(p), s)
    <2>1. PICK q : q = [p EXCEPT !.handled = IF p.cur = None THEN @ ELSE p.cur]
      OBVIOUS
    <2>2. q \in Pages /\ q.pulls = p.pulls
      BY <2>1 DEF Pages
    <2>3. LetGo(p) = Cleaned(q)
      BY <2>1 DEF LetGo
    <2>4. PICK n : n = NothingSaved
      OBVIOUS
    <2>5. n.id = None
      BY <2>4 DEF NothingSaved
    <2>6. Cleaned(q) = [q EXCEPT !.cur = None, !.st = "PICKING", !.arrived = 0, !.file = FALSE,
                                 !.stored = n]
      BY <2>4 DEF Cleaned
    <2>7. /\ Cleaned(q).cur = None /\ Cleaned(q).stored = n /\ Cleaned(q).pulls = q.pulls
      BY <2>2, <2>6 DEF Pages
    <2> QED
      BY <2>2, <2>3, <2>5, <2>7, CleanedTyped, SessionsAssumption DEF CleanPage
  <1>3. ASSUME NEW id, NEW why, id # s PROVE CleanPage(Pulling(p, id, why), s)
    BY <1>3 DEF Pulling, Pages, CleanPage
  <1>4. ASSUME p.cur # s, NEW id PROVE CleanPage(AcceptFailed(p, id), s)
    BY <1>4 DEF AcceptFailed, Pages, CleanPage
  <1>5. ASSUME NEW id PROVE CleanPage(AcceptConfirmed(p, id), s)
    <2>1. PICK q \in Pages : q = LetGo(p) /\ CleanPage(q, s)
      BY <1>2
    <2>2. CleanPage([q EXCEPT !.deciding = None, !.awaiting = id], s)
      BY <2>1 DEF Pages, CleanPage
    <2> QED
      BY <2>1, <2>2 DEF AcceptConfirmed
  <1> QED
    BY <1>1, <1>2, <1>3, <1>4, <1>5

\* ... and what it hears of other sessions.
LEMMA HearingStaysClean ==
    ASSUME NEW p \in Pages, NEW s \in Sessions, NEW id \in Sessions, id # s, CleanPage(p, s)
    PROVE  /\ CleanPage(HearDone(p, id), s)
           /\ CleanPage(HearDiscarded(p, id), s)
           /\ CleanPage(HearAccepted(p, id), s)
           /\ ~(p.deciding = id /\ p.cur = s) => CleanPage(HearError(p, id), s)
  <1>1. CleanPage(HearDone(p, id), s)
    <2>1. PICK told : told = IF p.cur = id THEN [p EXCEPT !.file = TRUE] ELSE p
      OBVIOUS
    <2>2. told \in Pages /\ told.cur = p.cur /\ told.arrived = p.arrived /\ CleanPage(told, s)
      BY <2>1 DEF Pages, CleanPage
    <2>3. CleanPage(Pulling(told, id, "component"), s) /\ CleanPage(Pulling(told, id, "done"), s)
      BY <2>2, PageStaysClean
    <2>4. p.cur # None /\ p.arrived = Count =>
             CleanPage([told EXCEPT !.st = IF @ = "GENERATING" THEN "CYCLING" ELSE @], s)
      <3>1. SUFFICES ASSUME p.arrived = Count
                     PROVE  CleanPage([told EXCEPT !.st = IF @ = "GENERATING" THEN "CYCLING" ELSE @], s)
        OBVIOUS
      <3>2. told.cur # s
        BY <2>2, <3>1, CountAssumption DEF CleanPage
      <3> QED
        BY <2>2, <3>2 DEF CleanPage, Pages
    <2> QED
      BY <2>1, <2>2, <2>3, <2>4 DEF HearDone
  <1>2. CleanPage(HearDiscarded(p, id), s)
    BY PageStaysClean DEF HearDiscarded
  <1>3. CleanPage(HearAccepted(p, id), s)
    <2>1. PICK told : told = [p EXCEPT !.awaiting = IF @ = id THEN None ELSE @]
      OBVIOUS
    <2>2. told \in Pages /\ CleanPage(told, s)
      BY <2>1 DEF Pages, Known, CleanPage
    <2>3. PICK over : over = [told EXCEPT !.deciding = None]
      OBVIOUS
    <2>4. over \in Pages /\ CleanPage(over, s)
      BY <2>2, <2>3 DEF Pages, Known, CleanPage
    <2>5. CleanPage(LetGo(over), s)
      BY <2>4, PageStaysClean
    <2> QED
      BY <2>1, <2>2, <2>3, <2>4, <2>5 DEF HearAccepted
  <1>4. ASSUME ~(p.deciding = id /\ p.cur = s) PROVE CleanPage(HearError(p, id), s)
    <2>1. p.deciding = id => CleanPage([AcceptFailed(p, id) EXCEPT !.awaiting = None], s)
      <3>1. SUFFICES ASSUME p.deciding = id
                     PROVE  CleanPage([AcceptFailed(p, id) EXCEPT !.awaiting = None], s)
        OBVIOUS
      <3>2. PICK q \in Pages : q = AcceptFailed(p, id)
        BY AcceptFailedTyped
      <3>3. CleanPage(q, s)
        BY <1>4, <3>1, <3>2, PageStaysClean
      <3>4. CleanPage([q EXCEPT !.awaiting = None], s)
        BY <3>3 DEF Pages, CleanPage
      <3> QED
        BY <3>2, <3>4
    <2>2. CleanPage([p EXCEPT !.awaiting = None], s)
      BY DEF Pages, CleanPage
    <2>3. CleanPage([p EXCEPT !.st = "PICKING", !.stored = IF @.id = id THEN NothingSaved ELSE @], s)
      <3>1. PICK n : n = IF p.stored.id = id THEN NothingSaved ELSE p.stored
        OBVIOUS
      <3>2. n.id = s => n = p.stored
        BY <3>1, SessionsAssumption DEF NothingSaved
      <3>3. CleanPage([p EXCEPT !.st = "PICKING", !.stored = n], s)
        BY <3>2 DEF Pages, CleanPage
      <3> QED
        BY <3>1, <3>3
    <2>4. CleanPage(LetGo(p), s)
      BY PageStaysClean
    <2> QED
      BY <2>1, <2>2, <2>3, <2>4 DEF HearError
  <1> QED
    BY <1>1, <1>2, <1>3, <1>4

\* Taking a session up again brings nothing that was not there.
LEMMA RestoredClean ==
    ASSUME Typed, NEW p \in Pages, NEW s \in Sessions, CleanPage(p, s),
           snap[s].arrived = 0, ~snap[s].finished,
           NEW saved \in Records, saved.id # None, NEW summaries,
           saved.id = s => saved.arrived = 0 /\ ~saved.file
    PROVE  CleanPage(Restored(p, saved, summaries), s)
  <1>1. PICK id \in Sessions : id = saved.id
    BY DEF Records, Known
  <1>2. PICK file \in BOOLEAN : file = (saved.file \/ (id \in summaries /\ snap[id].finished))
    OBVIOUS
  <1>3. PICK arrived : arrived = IF saved.arrived > 0 THEN saved.arrived
                                 ELSE IF id \in mounted /\ file THEN Count
                                 ELSE IF id \in summaries THEN snap[id].arrived ELSE 0
    OBVIOUS
  <1>4. id = s => file = FALSE /\ arrived = 0
    BY <1>1, <1>2, <1>3
  <1>5. PICK why : why = IF id \in mounted THEN "component"
                         ELSE IF saved.st = "CYCLING" THEN "orphan" ELSE "restore"
    OBVIOUS
  <1>6. PICK q : q = [p EXCEPT !.cur = id, !.st = "GENERATING", !.arrived = arrived, !.file = file]
    OBVIOUS
  <1>7. arrived \in 0 .. Count
    <2>1. snap[id] \in Snapshots
      BY DEF Typed
    <2> QED
      BY <1>3, <2>1, CountAssumption DEF Records, Snapshots
  <1>8. q \in Pages /\ CleanPage(q, s)
    BY <1>4, <1>6, <1>7 DEF Pages, CleanPage, Known, States
  <1>9. Saved(q) \in Pages /\ CleanPage(Saved(q), s)
    BY <1>8, SavedTyped, PageStaysClean
  <1>10. id # s => CleanPage(Pulling(Saved(q), id, why), s)
    BY <1>9, PageStaysClean
  <1>11. Restored(p, saved, summaries) = IF file THEN Pulling(Saved(q), id, why) ELSE Saved(q)
    BY <1>1, <1>2, <1>3, <1>5, <1>6 DEF Restored
  <1> QED
    BY <1>4, <1>9, <1>10, <1>11

LEMMA CaughtUpClean ==
    ASSUME NEW p \in Pages, NEW s \in Sessions, CleanPage(p, s), ~snap[s].finished, NEW summaries
    PROVE  CleanPage(CaughtUp(p, summaries), s)
  <1>1. PICK t : t = [p EXCEPT !.file = TRUE]
    OBVIOUS
  <1>2. t \in Pages
    BY <1>1 DEF Pages
  <1>3. CASE p.cur = s
    <2>1. CaughtUp(p, summaries) = p
      BY <1>3 DEF CaughtUp
    <2> QED
      BY <2>1
  <1>4. CASE p.cur # s
    <2>1. CleanPage(t, s)
      BY <1>1, <1>4 DEF Pages, CleanPage
    <2>2. \A why : CleanPage(Pulling(t, p.cur, why), s)
      BY <1>2, <1>4, <2>1, PageStaysClean
    <2> QED
      BY <1>1, <2>2 DEF CaughtUp
  <1> QED
    BY <1>3, <1>4

\* Requests and checkpoints of a session nothing is there of.
LEMMA CheckpointClean ==
    ASSUME Typed, NEW p \in Pages, p.cur # None, NEW s \in Sessions, CleanPage(p, s)
    PROVE  CheckpointOf(p).id = s => CheckpointOf(p).kind = "checkpoint" /\ CheckpointOf(p).arrived = 0
  <1>1. /\ CheckpointOf(p).kind = "checkpoint" /\ CheckpointOf(p).id = p.cur
        /\ CheckpointOf(p).arrived = p.arrived
    BY CheckpointOfTyped DEF Typed
  <1> QED
    BY <1>1 DEF CleanPage

\* The steps of the page, and what the network and the page are afterwards.

LEMMA GoClean ==
    ASSUME Typed, NEW s \in Sessions, Clean(s), NEW g \in Sessions, NEW annotated \in BOOLEAN,
           Go(g, annotated)
    PROVE  CleanPage(page', s) /\ CleanNet(net', s)
  <1>1. PICK q : q = [page EXCEPT !.cur = g, !.st = "GENERATING", !.arrived = 0, !.file = FALSE,
                                  !.deciding = None, !.awaiting = None]
    OBVIOUS
  <1>2. PICK p : p = NextRevision(Saved(q))
    OBVIOUS
  <1>3. q \in Pages /\ p \in Pages /\ p.cur = g
    BY <1>1, <1>2, GoPage
  <1>4. CleanPage(q, s)
    BY <1>1 DEF Clean, CleanPage, Typed, Pages
  <1>5. CleanPage(p, s)
    <2>1. Saved(q) \in Pages /\ CleanPage(Saved(q), s)
      BY <1>3, <1>4, SavedTyped, PageStaysClean
    <2> QED
      BY <1>2, <2>1, PageStaysClean
  <1>6. /\ page' = [p EXCEPT !.capture = IF annotated THEN g ELSE None]
        /\ net' = net \union {CheckpointOf(p)} \union (IF annotated THEN {} ELSE {Request("generate", g)})
    BY <1>1, <1>2 DEF Go, Sends
  <1>7. CleanPage(page', s)
    BY <1>3, <1>5, <1>6 DEF Pages, CleanPage
  <1>8. CheckpointOf(p).id = s => CheckpointOf(p).kind = "checkpoint" /\ CheckpointOf(p).arrived = 0
    BY <1>3, <1>5, CheckpointClean, SessionsAssumption
  <1>9. Request("generate", g).kind = "generate" /\ Request("generate", g).arrived = 0
    BY DEF Request
  <1>10. CleanNet(net', s)
    <2>1. PICK c, d : c = CheckpointOf(p) /\ d = Request("generate", g)
      OBVIOUS
    <2>2. \A r \in net' : r \in net \/ r = c \/ r = d
      BY <1>6, <2>1
    <2> QED
      BY <1>8, <1>9, <2>1, <2>2 DEF CleanNet, Clean
  <1> QED
    BY <1>7, <1>10

LEMMA CaptureDoneClean ==
    ASSUME Typed, NEW s \in Sessions, Clean(s), CaptureDone
    PROVE  CleanPage(page', s) /\ CleanNet(net', s)
  <1>1. page' = [page EXCEPT !.capture = None]
    BY DEF CaptureDone
  <1>2. PICK d : d = Request("generate", page.capture)
    OBVIOUS
  <1>3. net' = net \union {d} /\ d.kind = "generate" /\ d.arrived = 0
    BY <1>2 DEF CaptureDone, Sends, Request
  <1>4. CleanPage(page', s)
    BY <1>1 DEF Clean, CleanPage, Typed, Pages
  <1> QED
    BY <1>3, <1>4 DEF Clean, CleanNet

LEMMA AcceptClean ==
    ASSUME Typed, NEW s \in Sessions, Clean(s), Accept
    PROVE  CleanPage(page', s) /\ CleanNet(net', s)
  <1>1. page.cur # s
    BY DEF Accept, Clean, CleanPage
  <1>2. PICK q : q = [page EXCEPT !.st = "SAVING", !.deciding = page.cur]
    OBVIOUS
  <1>3. q \in Pages /\ CleanPage(q, s)
    BY <1>1, <1>2 DEF Clean, CleanPage, Typed, Pages, Known, States
  <1>4. CleanPage(page', s)
    BY <1>2, <1>3, PageStaysClean DEF Accept
  <1>5. PICK d : d = Request("accept", page.cur)
    OBVIOUS
  <1>6. net' = net \union {d} /\ d.id = page.cur
    BY <1>5 DEF Accept, Sends, Request
  <1> QED
    BY <1>1, <1>4, <1>6 DEF Clean, CleanNet

LEMMA DiscardClean ==
    ASSUME Typed, NEW s \in Sessions, Clean(s), Discard
    PROVE  CleanPage(page', s) /\ CleanNet(net', s)
  <1>1. page.cur # s
    BY DEF Discard, Clean, CleanPage
  <1>2. PICK d : d = Request("discard", page.cur)
    OBVIOUS
  <1>3. net' = net \union {d} /\ d.id = page.cur /\ page' = page
    BY <1>2 DEF Discard, Sends, Request
  <1> QED
    BY <1>1, <1>3 DEF Clean, CleanNet

LEMMA ObserveClean ==
    ASSUME Typed, NEW s \in Sessions, Clean(s), Observe
    PROVE  CleanPage(page', s) /\ CleanNet(net', s)
  <1>1. page.cur # s
    BY DEF Observe, Wrapped, Clean
  <1>2. PICK q : q = [page EXCEPT !.arrived = source[page.cur], !.st = "CYCLING"]
    OBVIOUS
  <1>3. q \in Pages /\ q.cur = page.cur /\ q.cur # None
    BY <1>2 DEF Observe, Typed, Pages, States, Known
  <1>4. CleanPage(q, s)
    BY <1>1, <1>2, <1>3 DEF Clean, CleanPage, Typed, Pages
  <1>5. PICK p : p = NextRevision(Saved(q))
    OBVIOUS
  <1>6. Saved(q) \in Pages /\ CleanPage(Saved(q), s) /\ Saved(q).cur = q.cur
    <2>1. Saved(q) \in Pages /\ CleanPage(Saved(q), s)
      BY <1>3, <1>4, SavedTyped, PageStaysClean
    <2> QED
      BY <1>3, <2>1 DEF Saved, Pages
  <1>7. p \in Pages /\ CleanPage(p, s) /\ p.cur = page.cur
    <2>1. p \in Pages /\ CleanPage(p, s)
      BY <1>5, <1>6, NextRevisionTyped, PageStaysClean
    <2> QED
      BY <1>3, <1>5, <1>6, <2>1 DEF NextRevision, Pages
  <1>8. page' = p /\ net' = net \union {CheckpointOf(p)}
    BY <1>2, <1>5 DEF Observe, Sends
  <1>9. CheckpointOf(p).id = page.cur
    BY <1>3, <1>7, CheckpointOfTyped DEF Typed
  <1> QED
    BY <1>1, <1>7, <1>8, <1>9 DEF Clean, CleanNet

LEMMA InjectClean ==
    ASSUME Typed, NEW s \in Sessions, Clean(s), NEW pl \in page.pulls, Inject(pl)
    PROVE  CleanPage(page', s) /\ CleanNet(net', s)
  <1>1. pl.id # s /\ pl.id \in Sessions
    BY DEF Clean, CleanPage, Typed, Pages, Pulls
  <1>2. PICK p : p = [page EXCEPT !.pulls = @ \ {pl}]
    OBVIOUS
  <1>3. p \in Pages /\ p.cur = page.cur /\ CleanPage(p, s)
    BY <1>2 DEF Typed, Pages, Clean, CleanPage
  <1>4. PICK d : d = [Request("discard", pl.id) EXCEPT !.orphaned = TRUE]
    OBVIOUS
  <1>5. d.id = pl.id
    BY <1>4 DEF Request
  <1>6. \/ /\ page' = Saved([p EXCEPT !.arrived = source[pl.id], !.st = "CYCLING"])
           /\ net' = net /\ page.cur = pl.id
        \/ page' = LetGo(p) /\ net' = net \union {d}
        \/ page' = p /\ net' = net
    BY <1>2, <1>4 DEF Inject, Sends
  <1>7. PICK t : t = [p EXCEPT !.arrived = source[pl.id], !.st = "CYCLING"]
    OBVIOUS
  <1>8. t \in Pages
    BY <1>1, <1>3, <1>7 DEF Typed, Pages, States
  <1>9. page.cur = pl.id => CleanPage(t, s)
    BY <1>1, <1>3, <1>7, <1>8 DEF CleanPage, Pages
  <1>10. CleanPage(page', s)
    BY <1>3, <1>6, <1>7, <1>8, <1>9, PageStaysClean
  <1>11. CleanNet(net', s)
    BY <1>1, <1>5, <1>6 DEF Clean, CleanNet
  <1> QED
    BY <1>10, <1>11

LEMMA MountClean ==
    ASSUME Typed, NEW s \in Sessions, Clean(s), NEW pl \in page.pulls, Mount(pl)
    PROVE  CleanPage(page', s) /\ CleanNet(net', s)
  <1>1. pl.id # s /\ page.cur # s
    BY DEF Clean, CleanPage, Mount
  <1>2. PICK n \in 0 .. Count : n = Count
    BY CountAssumption
  <1>3. PICK t : t = [page EXCEPT !.pulls = @ \ {pl}, !.arrived = n, !.st = "CYCLING", !.file = TRUE]
    OBVIOUS
  <1>4. t \in Pages /\ CleanPage(t, s)
    BY <1>1, <1>3 DEF Typed, Pages, States, Clean, CleanPage
  <1>5. CleanPage(page', s) /\ net' = net
    BY <1>2, <1>3, <1>4, PageStaysClean DEF Mount
  <1> QED
    BY <1>5 DEF Clean

LEMMA MountFailsClean ==
    ASSUME Typed, NEW s \in Sessions, Clean(s), NEW pl \in page.pulls, NEW v \in 1 .. Count,
           MountFails(pl, v)
    PROVE  CleanPage(page', s) /\ CleanNet(net', s)
  <1>1. pl.id # s /\ page.cur # s /\ pl.id \in Sessions
    BY DEF Clean, CleanPage, MountFails, Typed, Pages, Pulls
  <1>2. PICK t : t = [page EXCEPT !.pulls = @ \ {pl},
                                  !.st = IF @ = "CYCLING" THEN @ ELSE "GENERATING"]
    OBVIOUS
  <1>3. t \in Pages /\ CleanPage(t, s)
    BY <1>1, <1>2 DEF Typed, Pages, States, Clean, CleanPage
  <1>4. CleanPage(page', s)
    BY <1>2, <1>3, PageStaysClean DEF MountFails
  <1>5. PICK r : r = [Request("variant_mount_failed", pl.id) EXCEPT !.variant = v]
    OBVIOUS
  <1>6. r.id = pl.id /\ net' = net \union {r}
    BY <1>5 DEF MountFails, Sends, Request
  <1> QED
    BY <1>1, <1>4, <1>6 DEF Clean, CleanNet

LEMMA CycleFailsClean ==
    ASSUME Typed, NEW s \in Sessions, Clean(s), NEW v \in 1 .. Count, CycleFails(v)
    PROVE  CleanPage(page', s) /\ CleanNet(net', s)
  <1>1. page.cur # s /\ page' = page
    BY DEF Clean, CleanPage, CycleFails
  <1>2. PICK r : r = [Request("variant_mount_failed", page.cur) EXCEPT !.variant = v]
    OBVIOUS
  <1>3. r.id = page.cur /\ net' = net \union {r}
    BY <1>2 DEF CycleFails, Sends, Request
  <1> QED
    BY <1>1, <1>3 DEF Clean, CleanNet

\* Pulls that are given up or asked for again, and a connection that is lost.
LEMMA SmallPageStepsClean ==
    ASSUME Typed, NEW s \in Sessions, Clean(s),
           Retry \/ ConnectionLost \/ \E pl \in page.pulls : PullIsStale(pl)
    PROVE  CleanPage(page', s) /\ CleanNet(net', s)
  <1>1. page \in Pages /\ CleanPage(page, s) /\ CleanNet(net, s)
    BY DEF Typed, Clean
  <1>2. CASE Retry
    <2>1. page.cur # s
      BY <1>1, <1>2 DEF Retry, CleanPage
    <2>2. page' = Pulling(page, page.cur, "component") /\ net' = net
      BY <1>2 DEF Retry
    <2>3. CleanPage(Pulling(page, page.cur, "component"), s)
      BY <1>1, <2>1, PageStaysClean
    <2> QED
      BY <1>1, <2>2, <2>3
  <1>3. CASE ConnectionLost
    <2>1. page' = [page EXCEPT !.conn = FALSE] /\ net' = net
      BY <1>3 DEF ConnectionLost
    <2> QED
      BY <1>1, <2>1 DEF Pages, CleanPage
  <1>4. ASSUME NEW pl \in page.pulls, PullIsStale(pl) PROVE CleanPage(page', s) /\ CleanNet(net', s)
    <2>1. page' = [page EXCEPT !.pulls = @ \ {pl}] /\ net' = net
      BY <1>4 DEF PullIsStale
    <2> QED
      BY <1>1, <2>1 DEF Pages, CleanPage
  <1> QED
    BY <1>2, <1>3, <1>4

LEMMA ReportsClean ==
    ASSUME Typed, NEW p \in Pages, p.cur # None, NEW s \in Sessions, CleanPage(p, s),
           NEW kept, CleanNet(kept, s), Reports(p, kept)
    PROVE  CleanPage(page', s) /\ CleanNet(net', s)
  <1>1. PICK q : q = NextRevision(p)
    OBVIOUS
  <1>2. q \in Pages /\ CleanPage(q, s)
    BY <1>1, NextRevisionTyped, PageStaysClean
  <1>3. q.cur # None
    BY <1>1 DEF NextRevision, Pages
  <1>4. PICK c \in Requests : c = CheckpointOf(q)
    BY <1>2, <1>3, CheckpointOfTyped DEF Typed
  <1>5. c.id = s => c.kind = "checkpoint" /\ c.arrived = 0
    BY <1>2, <1>3, <1>4, CheckpointClean
  <1>6. PICK d : d = [c EXCEPT !.gated = FALSE]
    OBVIOUS
  <1>7. d.id = c.id /\ d.kind = c.kind /\ d.arrived = c.arrived
    BY <1>6 DEF Requests
  <1>8. page' = q /\ net' = kept \union {d}
    BY <1>1, <1>4, <1>6 DEF Reports, Sends
  <1> QED
    BY <1>2, <1>5, <1>7, <1>8 DEF CleanNet

LEMMA ReloadClean ==
    ASSUME Typed, NEW s \in Sessions, Clean(s), Reload
    PROVE  CleanPage(page', s) /\ CleanNet(net', s)
  <1>1. PICK sent \in SUBSET {r \in net : ~r.gated} :
          LET kept  == {[r EXCEPT !.heard = FALSE] : r \in sent}
              shown == {i \in Sessions \ mounted : Wrapped(i)}
          IN  \/ \E id \in shown \ {page.handled} :
                    Reports(Saved(ResumedFromWrapper(id)), kept)
              \/ /\ page.handled \in shown
                 /\ page' = Reloaded /\ net' = kept
              \/ /\ shown = {} /\ Restores(Reloaded, page.stored, {})
                 /\ Reports(Restored(Reloaded, page.stored, {}), kept)
              \/ /\ shown = {} /\ ~Restores(Reloaded, page.stored, {})
                 /\ page' = [Reloaded EXCEPT !.stored = NothingSaved, !.handled = None]
                 /\ net' = kept
    BY DEF Reload
  <1>2. PICK kept : kept = {[r EXCEPT !.heard = FALSE] : r \in sent}
    OBVIOUS
  <1>3. page \in Pages /\ page.stored \in Records /\ CleanPage(page, s) /\ CleanNet(net, s)
    BY DEF Typed, Pages, Clean
  <1>4. CleanNet(kept, s)
    <2>1. SUFFICES ASSUME NEW x \in kept, x.id = s
                   PROVE  x.kind \in {"generate", "checkpoint"} /\ x.arrived = 0
      BY DEF CleanNet
    <2>2. PICK r \in net : x = [r EXCEPT !.heard = FALSE]
      BY <1>2
    <2>3. r \in Requests
      BY DEF Typed
    <2>4. x.id = r.id /\ x.kind = r.kind /\ x.arrived = r.arrived
      BY <2>2, <2>3 DEF Requests
    <2> QED
      BY <1>3, <2>1, <2>4 DEF CleanNet
  <1>5. /\ Reloaded \in Pages /\ Reloaded.cur = None /\ Reloaded.stored = page.stored
        /\ Reloaded.pulls = {} /\ CleanPage(Reloaded, s)
    <2>1. /\ FreshPage \in Pages /\ FreshPage.cur = None /\ FreshPage.pulls = {}
      BY NothingSavedTyped, CountAssumption DEF FreshPage, Pages, Known, States
    <2>2. /\ Reloaded \in Pages /\ Reloaded.cur = None /\ Reloaded.stored = page.stored
          /\ Reloaded.pulls = {}
      BY <1>3, <2>1, ReloadedTyped DEF Reloaded, Pages
    <2> QED
      BY <1>3, <2>2, SessionsAssumption DEF CleanPage
  <1>6. CASE \E id \in {i \in Sessions \ mounted : Wrapped(i)} :
                Reports(Saved(ResumedFromWrapper(id)), kept)
    <2>1. PICK id \in Sessions : Wrapped(id) /\ Reports(Saved(ResumedFromWrapper(id)), kept)
      BY <1>6
    <2>2. id # s
      BY <2>1 DEF Wrapped, Clean
    <2>3. PICK w : w = ResumedFromWrapper(id)
      OBVIOUS
    <2>4. w \in Pages /\ w.cur = id /\ w.pulls = {} /\ w.stored = page.stored
      BY <1>3, <1>5, <2>3, ResumedTyped DEF Typed, ResumedFromWrapper, Pages
    <2>5. CleanPage(w, s)
      BY <1>3, <2>2, <2>4 DEF CleanPage
    <2>6. Saved(w) \in Pages /\ CleanPage(Saved(w), s)
      BY <2>4, <2>5, SavedTyped, PageStaysClean
    <2>7. Saved(w).cur # None
      BY <2>4, SessionsAssumption DEF Saved, Pages
    <2> QED
      BY <1>4, <2>1, <2>3, <2>6, <2>7, ReportsClean
  <1>7. CASE page' = Reloaded /\ net' = kept
    BY <1>4, <1>5, <1>7
  <1>8. CASE Restores(Reloaded, page.stored, {}) /\ Reports(Restored(Reloaded, page.stored, {}), kept)
    <2>1. page.stored.id # None
      BY <1>8 DEF Restores
    <2>2. PICK w : w = Restored(Reloaded, page.stored, {})
      OBVIOUS
    <2>3. PICK old \in Pages, saved \in Records : old = Reloaded /\ saved = page.stored
      BY <1>3, <1>5
    <2>4. w \in Pages /\ w.cur # None
      BY <2>1, <2>2, <2>3, RestoredTyped, RestoredShows DEF Typed
    <2>5. snap[s].arrived = 0 /\ ~snap[s].finished /\ (saved.id = s => saved.arrived = 0 /\ ~saved.file)
      BY <1>3, <2>3 DEF Clean, CleanJournal, CleanPage
    <2>6. CleanPage(w, s)
      BY <1>5, <2>1, <2>2, <2>3, <2>5, RestoredClean
    <2> QED
      BY <1>4, <1>8, <2>2, <2>4, <2>6, ReportsClean
  <1>9. CASE page' = [Reloaded EXCEPT !.stored = NothingSaved, !.handled = None] /\ net' = kept
    <2>1. PICK n : n = NothingSaved
      OBVIOUS
    <2>2. n.id # s
      BY <2>1, SessionsAssumption DEF NothingSaved
    <2>3. page'.cur = None /\ page'.stored = n /\ page'.pulls = {}
      BY <1>5, <1>9, <2>1 DEF Pages
    <2> QED
      BY <1>4, <1>9, <2>2, <2>3, SessionsAssumption DEF CleanPage
  <1> QED
    BY <1>1, <1>2, <1>6, <1>7, <1>8, <1>9

LEMMA ConnectClean ==
    ASSUME Typed, NEW s \in Sessions, Clean(s), Connect
    PROVE  CleanPage(page', s) /\ CleanNet(net', s)
  <1>1. PICK p : p = [page EXCEPT !.conn = TRUE]
    OBVIOUS
  <1>2. page \in Pages /\ CleanPage(page, s) /\ CleanNet(net, s)
    BY DEF Typed, Clean
  <1>3. p \in Pages /\ p.stored \in Records /\ p.stored = page.stored /\ CleanPage(p, s)
    BY <1>1, <1>2 DEF Pages, CleanPage
  <1>4. PICK summary \in SUBSET Sessions : summary = {i \in Sessions : Active(snap[i])}
    OBVIOUS
  <1>5. snap[s].arrived = 0 /\ ~snap[s].finished
    BY DEF Clean, CleanJournal
  <1>6. \/ \E r \in IF p.stored.id # None THEN {p.stored} ELSE Adopted(p, summary) :
              LET q == NextRevision(Restored(p, r, summary))
              IN  page' = CaughtUp(q, summary) /\ net' = net \union {CheckpointOf(q)}
        \/ page' = CaughtUp(p, summary) /\ net' = net
    BY <1>1, <1>4 DEF Connect, Sends
  <1>7. \A r \in IF p.stored.id # None THEN {p.stored} ELSE Adopted(p, summary) :
           r \in Records /\ r.id # None
    BY <1>3, AdoptedTyped DEF Typed
  <1>8. \A r \in IF p.stored.id # None THEN {p.stored} ELSE Adopted(p, summary) :
           r.id = s => r.arrived = 0 /\ ~r.file
    <2>1. p.stored.id = s => p.stored.arrived = 0 /\ ~p.stored.file
      BY <1>3 DEF CleanPage
    <2>2. \A r \in Adopted(p, summary) : r.id # s
      BY <1>5 DEF Adopted, AdoptionOf, Adoptable
    <2> QED
      BY <2>1, <2>2
  <1>9. CASE \E r \in IF p.stored.id # None THEN {p.stored} ELSE Adopted(p, summary) :
               LET q == NextRevision(Restored(p, r, summary))
               IN  page' = CaughtUp(q, summary) /\ net' = net \union {CheckpointOf(q)}
    <2>1. PICK r \in IF p.stored.id # None THEN {p.stored} ELSE Adopted(p, summary) :
               LET q == NextRevision(Restored(p, r, summary))
               IN  page' = CaughtUp(q, summary) /\ net' = net \union {CheckpointOf(q)}
      BY <1>9
    <2>2. r \in Records /\ r.id # None /\ (r.id = s => r.arrived = 0 /\ ~r.file)
      BY <1>7, <1>8
    <2>3. PICK w : w = Restored(p, r, summary)
      OBVIOUS
    <2>4. w \in Pages /\ w.cur # None
      BY <1>3, <2>2, <2>3, RestoredTyped, RestoredShows DEF Typed
    <2>5. CleanPage(w, s)
      BY <1>3, <1>5, <2>2, <2>3, RestoredClean
    <2>6. PICK q : q = NextRevision(w)
      OBVIOUS
    <2>7. q \in Pages /\ CleanPage(q, s)
      BY <2>4, <2>5, <2>6, NextRevisionTyped, PageStaysClean
    <2>8. q.cur # None
      BY <2>4, <2>6 DEF NextRevision, Pages
    <2>9. page' = CaughtUp(q, summary) /\ net' = net \union {CheckpointOf(q)}
      BY <2>1, <2>3, <2>6
    <2>10. PICK c : c = CheckpointOf(q)
      OBVIOUS
    <2>11. c.id = s => c.kind = "checkpoint" /\ c.arrived = 0
      BY <2>7, <2>8, <2>10, CheckpointClean
    <2>12. CleanPage(page', s)
      BY <1>5, <2>7, <2>9, CaughtUpClean
    <2> QED
      BY <1>2, <2>9, <2>10, <2>11, <2>12 DEF CleanNet
  <1>10. CASE page' = CaughtUp(p, summary) /\ net' = net
    <2>1. CleanPage(page', s)
      BY <1>3, <1>5, <1>10, CaughtUpClean
    <2> QED
      BY <1>2, <1>10, <2>1
  <1> QED
    BY <1>6, <1>9, <1>10

\* A step of the page spoils nothing.
LEMMA PageUnspoilt == ASSUME Typed, Typed', Unspoilt, PageNext PROVE Unspoilt'
  <1>1. UNCHANGED <<snap, queue, agent, misled>>
    BY DEF PageNext, Go, CaptureDone, Accept, Discard, Observe, Retry, Inject, Mount, PullIsStale,
       MountFails, CycleFails, Reload, ConnectionLost, Connect, EditedAway, serverVars, workVars, history
  <1>2. \A s \in Sessions : source[s] = 0 => source'[s] = 0
    <2>1. CASE \E x \in Sessions : EditedAway(x)
      BY <2>1 DEF EditedAway, Typed
    <2>2. CASE ~\E x \in Sessions : EditedAway(x)
      <3>1. UNCHANGED source
        BY <2>2 DEF PageNext, Go, CaptureDone, Accept, Discard, Observe, Retry, Inject, Mount, PullIsStale,
           MountFails, CycleFails, Reload, ConnectionLost, Connect, workVars
      <3> QED
        BY <3>1
    <2> QED
      BY <2>1, <2>2
  <1>3. ASSUME NEW s \in Sessions, Clean(s) PROVE CleanPage(page', s) /\ CleanNet(net', s)
    <2>1. ASSUME NEW g \in Sessions, NEW annotated \in BOOLEAN, Go(g, annotated)
          PROVE  CleanPage(page', s) /\ CleanNet(net', s)
      BY <1>3, <2>1, GoClean
    <2>2. CASE CaptureDone \/ Accept \/ Discard \/ Observe
      BY <1>3, <2>2, CaptureDoneClean, AcceptClean, DiscardClean, ObserveClean
    <2>3. ASSUME NEW pl \in page.pulls, Inject(pl) \/ Mount(pl)
          PROVE  CleanPage(page', s) /\ CleanNet(net', s)
      BY <1>3, <2>3, InjectClean, MountClean
    <2>4. ASSUME NEW pl \in page.pulls, NEW v \in 1 .. Count, MountFails(pl, v)
          PROVE  CleanPage(page', s) /\ CleanNet(net', s)
      BY <1>3, <2>4, MountFailsClean
    <2>5. ASSUME NEW v \in 1 .. Count, CycleFails(v) PROVE CleanPage(page', s) /\ CleanNet(net', s)
      BY <1>3, <2>5, CycleFailsClean
    <2>6. CASE Retry \/ ConnectionLost \/ \E pl \in page.pulls : PullIsStale(pl)
      BY <1>3, <2>6, SmallPageStepsClean
    <2>7. CASE Reload \/ Connect
      BY <1>3, <2>7, ReloadClean, ConnectClean
    <2>8. ASSUME NEW x \in Sessions, EditedAway(x) PROVE CleanPage(page', s) /\ CleanNet(net', s)
      <3>1. UNCHANGED <<page, net>>
        BY <2>8 DEF EditedAway
      <3> QED
        BY <1>3, <3>1 DEF Clean
    <2> QED
      BY <2>1, <2>2, <2>3, <2>4, <2>5, <2>6, <2>7, <2>8 DEF PageNext
  <1>4. ASSUME NEW s \in Sessions \ misled', Unmade(About(queue', agent'), snap'[s], s)
        PROVE  Clean(s)'
    <2>1. Clean(s)
      BY <1>1, <1>4 DEF Unspoilt
    <2>2. source[s] = 0
      BY <2>1 DEF Clean
    <2>4. CleanPage(page', s) /\ CleanNet(net', s) /\ source'[s] = 0
      BY <1>2, <1>3, <2>1, <2>2
    <2>3. CleanJournal(snap'[s], s) /\ CleanWork(About(queue', agent'), s)
      BY <1>1, <2>1 DEF Clean
    <2> QED
      BY <2>3, <2>4 DEF Clean
  <1> QED
    BY <1>4 DEF Unspoilt

-----------------------------------------------------------------------------
\* The events that wait or are in hand, after entries were left out, put down,
\* handed out or queued.

LEMMA AboutQueue ==
    ASSUME NEW q \in Seq(Entries), NEW ags
    PROVE  /\ \A r : Thinned(r, q) => About(r, ags) \subseteq About(q, ags)
           /\ \A ags2 : Lighter(ags2, ags) => About(q, ags2) \subseteq About(q, ags) \union {None}
           /\ \A e \in Events : About(Enqueued(q, e), ags) \subseteq About(q, ags) \union {e}
  <1>1. ASSUME NEW r, Thinned(r, q) PROVE About(r, ags) \subseteq About(q, ags)
    BY <1>1 DEF Thinned, About
  <1>2. ASSUME NEW ags2, Lighter(ags2, ags)
        PROVE  About(q, ags2) \subseteq About(q, ags) \union {None}
    BY <1>2 DEF Lighter, About
  <1>3. ASSUME NEW e \in Events PROVE About(Enqueued(q, e), ags) \subseteq About(q, ags) \union {e}
    <2>1. PICK r : r = Enqueued(q, e)
      OBVIOUS
    <2>2. PICK n \in Nat : n = Len(q)
      BY LenProperties
    <2>3. /\ \A i \in 1 .. n : r[i] = q[i]
          /\ Len(r) = n \/ (Len(r) = n + 1 /\ r[n + 1] = [ev |-> e, leased |-> FALSE])
      BY <2>1, <2>2, EnqueuedIs
    <2>4. \A i \in 1 .. n + 1 : i = n + 1 \/ i \in 1 .. n
      OBVIOUS
    <2>5. ASSUME NEW i \in 1 .. Len(r)
          PROVE  r[i].ev = e \/ \E k \in 1 .. Len(q) : r[i].ev = q[k].ev
      BY <2>2, <2>3, <2>4
    <2>6. About(r, ags) \subseteq About(q, ags) \union {e}
      BY <2>5 DEF About
    <2> QED
      BY <2>1, <2>6
  <1> QED
    BY <1>1, <1>2, <1>3

LEMMA AboutHanded ==
    ASSUME NEW q \in Seq(Entries), NEW ags, NEW q2, NEW ags2, HandedOut(q, ags, q2, ags2)
    PROVE  About(q2, ags2) \subseteq About(q, ags)
  <1>1. PICK served : Handing(q, ags, q2, ags2, served)
    BY DEF HandedOut
  <1>2. \A i \in 1 .. Len(q) : q[i].ev \in Events
    <2>1. \A i \in 1 .. Len(q) : q[i] \in Entries
      BY ElementOfSeq
    <2> QED
      BY <2>1 DEF Entries
  <1>3. \A i \in 1 .. Len(q2) : q2[i].ev \in About(q, ags)
    BY <1>1 DEF Handing, About
  <1>4. ASSUME NEW a \in Agents PROVE ags2[a].ev \in About(q, ags)
    <2>1. CASE ags2[a] = ags[a]
      BY <2>1 DEF About
    <2>2. CASE served[a] \in 1 .. Len(q) /\ ags2[a] = Handed(q[served[a]].ev)
      <3>1. PICK k \in 1 .. Len(q) : k = served[a]
        BY <2>2
      <3>2. PICK e \in Events : e = q[k].ev
        BY <1>2
      <3>3. ags2[a].ev = q[k].ev
        BY <2>2, <3>1, <3>2, HandedTyped
      <3> QED
        BY <3>3 DEF About
    <2> QED
      BY <1>1, <2>1, <2>2 DEF Handing
  <1> QED
    BY <1>3, <1>4 DEF About

LEMMA RawOfIs ==
    ASSUME NEW s \in Sessions
    PROVE  /\ RawOf(s) \in Events /\ RawOf(s).id = s /\ RawOf(s).type = "generate"
           /\ ~RawOf(s).ready /\ RawOf(s) # None
  <1>1. RawOf(s) \in Events
    BY EventOfTyped, CountAssumption DEF RawOf
  <1> QED
    BY <1>1, SessionsAssumption DEF RawOf, EventOf

\* Nothing is known of a session whose agent holds anything but its bare event,
\* or whose page asked for anything but its creation and progress.
LEMMA NotClean ==
    ASSUME Typed, Fitting
    PROVE  /\ \A r \in net : r.kind \notin {"generate", "checkpoint"} => ~Clean(r.id)
           /\ \A a \in Agents : agent[a].at \in {"holding", "cutoff", "cleanup"} => ~Clean(agent[a].ev.id)
  <1>1. \A r \in net : r.kind \notin {"generate", "checkpoint"} => ~Clean(r.id)
    BY DEF Clean, CleanNet
  <1>2. ASSUME NEW a \in Agents, agent[a].at \in {"holding", "cutoff", "cleanup"}, Clean(agent[a].ev.id)
        PROVE  FALSE
    <2>1. PICK e \in Events : e = agent[a].ev /\ e # None
      <3>1. agent[a] \in Hands /\ Sound(agent[a])
        BY DEF Typed
      <3> QED
        BY <1>2, <3>1, SessionsAssumption DEF Hands, Sound
    <2>2. e.id \in Sessions
      BY DEF Events
    <2>3. e \in About(queue, agent)
      BY <2>1 DEF About
    <2>4. CleanWork(About(queue, agent), e.id)
      BY <1>2, <2>1 DEF Clean
    <2>5. e = RawOf(e.id)
      BY <2>1, <2>3, <2>4 DEF CleanWork
    <2>6. e.type = "generate" /\ ~e.ready
      BY <2>2, <2>5, RawOfIs
    <2>7. InPlace(agent[a])
      BY DEF Fitting, FitWork
    <2>8. agent[a].at \in {"scaffolding", "hungup"}
      BY <2>1, <2>6, <2>7 DEF InPlace
    <2> QED
      BY <1>2, <2>8
  <1> QED
    BY <1>1, <1>2

-----------------------------------------------------------------------------
\* Steps that journal nothing.
LEMMA QuietUnspoilt ==
    ASSUME Typed, Typed', Unspoilt, misled \subseteq misled', UNCHANGED snap,
           About(queue', agent') \subseteq About(queue, agent) \union {None},
           \A s \in Sessions \ misled' :
              Clean(s) => source'[s] = 0 /\ CleanPage(page', s) /\ CleanNet(net', s)
    PROVE  Unspoilt'
  <1>1. SUFFICES ASSUME NEW s \in Sessions \ misled', Unmade(About(queue', agent'), snap'[s], s)
                 PROVE  Clean(s)'
    BY DEF Unspoilt
  <1>2. Unmade(About(queue, agent), snap[s], s)
    BY <1>1, RawOfIs DEF Unmade
  <1>3. Clean(s)
    BY <1>2 DEF Unspoilt
  <1>4. CleanWork(About(queue', agent'), s)
    BY <1>3 DEF Clean, CleanWork
  <1>5. CleanJournal(snap'[s], s)
    BY <1>3 DEF Clean
  <1>6. source'[s] = 0 /\ CleanPage(page', s) /\ CleanNet(net', s)
    BY <1>3
  <1> QED
    BY <1>4, <1>5, <1>6 DEF Clean

\* Steps that journal an entry of a session something is known of, and queue
\* the event e of it.
LEMMA EntryUnspoilt ==
    ASSUME Typed, Typed', Unspoilt, misled \subseteq misled', NEW id \in Sessions, ~Clean(id),
           NEW sn \in Snapshots, snap' = [snap EXCEPT ![id] = sn], sn.known,
           NEW e \in Events \union {None}, e # None => e.id = id /\ e.type # "generate",
           sn.pending \in {None, snap[id].pending, e},
           About(queue', agent') \subseteq About(queue, agent) \union {None, e},
           UNCHANGED source,
           \A s \in Sessions \ misled' : s # id /\ Clean(s) => CleanPage(page', s) /\ CleanNet(net', s)
    PROVE  Unspoilt'
  <1>1. SUFFICES ASSUME NEW s \in Sessions \ misled', Unmade(About(queue', agent'), snap'[s], s)
                 PROVE  Clean(s)'
    BY DEF Unspoilt
  <1>2. snap'[s] = IF s = id THEN sn ELSE snap[s]
    BY DEF Typed
  <1>3. RawOf(s) # e /\ RawOf(s) # None
    BY RawOfIs
  <1>4. Unmade(About(queue, agent), snap[s], s)
    BY <1>1, <1>2, <1>3 DEF Unmade
  <1>5. Clean(s)
    BY <1>4 DEF Unspoilt
  <1>6. s # id
    BY <1>5
  <1>7. CleanWork(About(queue', agent'), s)
    BY <1>5, <1>6 DEF Clean, CleanWork
  <1>8. CleanJournal(snap'[s], s)
    BY <1>2, <1>5, <1>6 DEF Clean
  <1>9. source'[s] = 0 /\ CleanPage(page', s) /\ CleanNet(net', s)
    BY <1>5, <1>6 DEF Clean
  <1> QED
    BY <1>7, <1>8, <1>9 DEF Clean

LEMMA AboutFlush ==
    ASSUME Typed, NEW q \in Seq(Entries), Thinned(q, queue), NEW e \in Events,
           Flush(Enqueued(q, e), agent)
    PROVE  About(queue', agent') \subseteq About(queue, agent) \union {None, e}
  <1>1. queue \in Seq(Entries) /\ agent \in [Agents -> Hands] /\ parked \in Seq(Agents)
    BY DEF Typed
  <1>2. PICK r \in Seq(Entries) : r = Enqueued(q, e)
    BY EnqueuedIs
  <1>3. HandedOut(r, agent, queue', agent')
    BY <1>1, <1>2, FlushTyped DEF Typed
  <1>4. About(queue', agent') \subseteq About(r, agent)
    BY <1>3, AboutHanded
  <1>5. About(r, agent) \subseteq About(q, agent) \union {e}
    BY <1>2, AboutQueue
  <1>6. About(q, agent) \subseteq About(queue, agent)
    BY <1>1, AboutQueue
  <1> QED
    BY <1>4, <1>5, <1>6

\* The page is told that an accept has failed, or takes it for one.
LEMMA MisleadsClean ==
    ASSUME Typed, NEW id \in Sessions, ~Clean(id), Misleads(id), NEW s \in Sessions \ misled', Clean(s)
    PROVE  CleanPage(AcceptFailed(page, id), s)
  <1>1. page.cur # s
    BY SessionsAssumption DEF Misleads
  <1>2. page \in Pages /\ CleanPage(page, s)
    BY DEF Typed, Clean
  <1> QED
    BY <1>1, <1>2, PageStaysClean

LEMMA RequestFailsUnspoilt ==
    ASSUME Typed, Typed', Fitting, Unspoilt, NEW r \in net, RequestFails(r) PROVE Unspoilt'
  <1>1. UNCHANGED <<snap, queue, agent, source>> /\ net' = net \ {r} /\ r.id \in Sessions
    BY RequestAsks DEF RequestFails, serverVars, workVars
  <1>2. misled \subseteq misled'
    BY DEF RequestFails, Misleads
  <1>3. ASSUME NEW s \in Sessions \ misled', Clean(s)
        PROVE  source'[s] = 0 /\ CleanPage(page', s) /\ CleanNet(net', s)
    <2>1. source'[s] = 0 /\ CleanNet(net', s)
      BY <1>1, <1>3 DEF Clean, CleanNet
    <2>2. CASE r.kind = "accept" /\ r.heard
      <3>1. page' = AcceptFailed(page, r.id) /\ Misleads(r.id)
        BY <2>2 DEF RequestFails
      <3>2. ~Clean(r.id)
        BY <2>2, NotClean
      <3> QED
        BY <1>1, <1>3, <2>1, <3>1, <3>2, MisleadsClean
    <2>3. CASE ~(r.kind = "accept" /\ r.heard)
      <3>1. page' = page
        BY <2>3 DEF RequestFails
      <3> QED
        BY <1>3, <2>1, <3>1 DEF Clean
    <2> QED
      BY <2>2, <2>3
  <1>4. About(queue', agent') \subseteq About(queue, agent) \union {None}
    BY <1>1
  <1> QED
    BY <1>1, <1>2, <1>3, <1>4, QuietUnspoilt

LEMMA RefuseCheckpointUnspoilt ==
    ASSUME Typed, Typed', Unspoilt, NEW r \in net, RefuseCheckpoint(r) PROVE Unspoilt'
  <1>1. UNCHANGED <<snap, queue, agent, source, misled>> /\ net' = net \ {r}
    BY DEF RefuseCheckpoint, serverVars, workVars
  <1>2. page' = page \/ page' = LetGo(page)
    BY DEF RefuseCheckpoint
  <1>3. ASSUME NEW s \in Sessions \ misled', Clean(s)
        PROVE  source'[s] = 0 /\ CleanPage(page', s) /\ CleanNet(net', s)
    <2>1. source'[s] = 0 /\ CleanNet(net', s)
      BY <1>1, <1>3 DEF Clean, CleanNet
    <2>2. page \in Pages /\ CleanPage(page, s)
      BY <1>3 DEF Typed, Clean
    <2>3. CleanPage(LetGo(page), s)
      BY <2>2, PageStaysClean
    <2> QED
      BY <1>2, <2>1, <2>2, <2>3
  <1>4. About(queue', agent') \subseteq About(queue, agent) \union {None}
    BY <1>1
  <1> QED
    BY <1>1, <1>3, <1>4, QuietUnspoilt

LEMMA DecisionUnspoilt ==
    ASSUME Typed, Typed', Fitting, Unspoilt, NEW r \in net,
           \/ ReceiveMountFailure(r)
           \/ \E lost \in BOOLEAN : ReceiveAccept(r, lost) \/ ReceiveDiscard(r, lost)
    PROVE  Unspoilt'
  <1>1. r.kind \notin {"generate", "checkpoint"} /\ UNCHANGED source /\ net' = net \ {r}
    BY DEF ReceiveMountFailure, ReceiveAccept, ReceiveDiscard, Arrives
  <1>2. ~Clean(r.id)
    BY <1>1, NotClean
  <1>3. r.id \in Sessions
    BY RequestAsks
  <1>4. PICK old \in Snapshots : old = snap[r.id]
    BY RequestAsks
  <1>5. queue \in Seq(Entries) /\ Thinned(queue, queue)
    BY ThinnedSelf DEF Typed
  <1>6. PICK w \in Seq(Entries) : w = Retired(queue, r.id) /\ Thinned(w, queue)
    BY <1>5, RetiredIs
  <1>7. \A s \in Sessions : Clean(s) => CleanNet(net', s)
    BY <1>1 DEF Clean, CleanNet
  <1>8. page \in Pages /\ \A s \in Sessions : Clean(s) => CleanPage(page, s)
    BY DEF Typed, Clean
  <1>9. CASE ReceiveMountFailure(r)
    <2>1. PICK e \in Events : /\ e = EventOf("variant_mount_failed", r.id, r.variant)
                              /\ e.id = r.id /\ e.type = "variant_mount_failed"
      BY RequestAsks
    <2>2. MountFailed(old, e) \in Snapshots
      BY SnapshotsTyped
    <2>3. MountFailed(old, e).known /\ MountFailed(old, e).pending \in {old.pending, e}
      BY SnapshotsKnown
    <2>4. PICK sn \in Snapshots : sn = MountFailed(old, e) /\ sn.known /\ sn.pending \in {old.pending, e}
      BY <2>2, <2>3
    <2>5. snap' = [snap EXCEPT ![r.id] = sn] /\ Flush(Enqueued(queue, e), agent)
          /\ UNCHANGED <<page, misled>>
      BY <1>4, <1>9, <2>1, <2>4 DEF ReceiveMountFailure, Journal, history
    <2>6. About(queue', agent') \subseteq About(queue, agent) \union {None, e}
      BY <1>5, <2>5, AboutFlush
    <2>7. \A s \in Sessions \ misled' : s # r.id /\ Clean(s) => CleanPage(page', s) /\ CleanNet(net', s)
      BY <1>7, <1>8, <2>5
    <2>8. e \in Events \union {None} /\ e.type # "generate" /\ e.id = r.id
      BY <2>1
    <2>9. sn.pending \in {None, snap[r.id].pending, e}
      BY <1>4, <2>4
    <2> QED
      BY <1>1, <1>2, <1>3, <2>4, <2>5, <2>6, <2>7, <2>8, <2>9, EntryUnspoilt
  <1>10. ASSUME NEW lost \in BOOLEAN, ReceiveAccept(r, lost) PROVE Unspoilt'
    <2>1. PICK e \in Events : e = EventOf("accept", r.id, 0) /\ e.id = r.id /\ e.type = "accept"
      BY RequestAsks
    <2>2. PICK sn \in Snapshots : sn = Accepted(old, e) /\ sn.known /\ sn.pending = e
      <3>1. Accepted(old, e) \in Snapshots
        BY SnapshotsTyped
      <3>2. Accepted(old, e).known /\ Accepted(old, e).pending = e
        BY SnapshotsKnown
      <3> QED
        BY <3>1, <3>2
    <2>3. snap' = [snap EXCEPT ![r.id] = sn] /\ Flush(Enqueued(w, e), agent)
      BY <1>4, <1>6, <1>10, <2>1, <2>2 DEF ReceiveAccept, Journal
    <2>4. About(queue', agent') \subseteq About(queue, agent) \union {None, e}
      BY <1>6, <2>3, AboutFlush
    <2>5. misled \subseteq misled'
      BY <1>10 DEF ReceiveAccept, Misleads
    <2>6. \/ page' = AcceptFailed(page, r.id) /\ Misleads(r.id)
          \/ page' = AcceptConfirmed(page, r.id) \/ page' = page
      BY <1>10 DEF ReceiveAccept
    <2>7. ASSUME NEW s \in Sessions \ misled', s # r.id, Clean(s)
          PROVE  CleanPage(page', s) /\ CleanNet(net', s)
      <3>1. CASE page' = AcceptFailed(page, r.id) /\ Misleads(r.id)
        BY <1>2, <1>3, <1>7, <2>7, <3>1, MisleadsClean
      <3>2. CASE page' = AcceptConfirmed(page, r.id)
        <4>1. \A id : CleanPage(AcceptConfirmed(page, id), s)
          BY <1>8, <2>7, PageStaysClean
        <4> QED
          BY <1>7, <2>7, <3>2, <4>1
      <3>3. CASE page' = page
        BY <1>7, <1>8, <2>7, <3>3
      <3> QED
        BY <2>6, <3>1, <3>2, <3>3
    <2>8. e \in Events \union {None} /\ e.type # "generate" /\ e.id = r.id
      BY <2>1
    <2>9. sn.pending \in {None, snap[r.id].pending, e}
      BY <1>4, <2>2
    <2> QED
      BY <1>1, <1>2, <1>3, <2>2, <2>3, <2>4, <2>5, <2>7, <2>8, <2>9, EntryUnspoilt
  <1>11. ASSUME NEW lost \in BOOLEAN, ReceiveDiscard(r, lost) PROVE Unspoilt'
    <2>1. PICK e \in Events : e = EventOf("discard", r.id, 0) /\ e.id = r.id /\ e.type = "discard"
      BY RequestAsks
    <2>2. PICK sn \in Snapshots : sn = DiscardRequested(old, e) /\ sn.known /\ sn.pending = e
      <3>1. DiscardRequested(old, e) \in Snapshots
        BY SnapshotsTyped
      <3>2. DiscardRequested(old, e).known /\ DiscardRequested(old, e).pending = e
        BY SnapshotsKnown
      <3> QED
        BY <3>1, <3>2
    <2>3. snap' = [snap EXCEPT ![r.id] = sn] /\ Flush(Enqueued(w, e), agent) /\ UNCHANGED misled
      BY <1>4, <1>6, <1>11, <2>1, <2>2 DEF ReceiveDiscard, Journal, history
    <2>4. About(queue', agent') \subseteq About(queue, agent) \union {None, e}
      BY <1>6, <2>3, AboutFlush
    <2>5. page' = LetGo(page) \/ page' = page
      BY <1>11 DEF ReceiveDiscard
    <2>6. ASSUME NEW s \in Sessions \ misled', s # r.id, Clean(s)
          PROVE  CleanPage(page', s) /\ CleanNet(net', s)
      <3>1. CleanPage(LetGo(page), s)
        BY <1>8, <2>6, PageStaysClean
      <3> QED
        BY <1>7, <1>8, <2>5, <2>6, <3>1
    <2>8. e \in Events \union {None} /\ e.type # "generate" /\ e.id = r.id
      BY <2>1
    <2>9. sn.pending \in {None, snap[r.id].pending, e}
      BY <1>4, <2>2
    <2> QED
      BY <1>1, <1>2, <1>3, <2>2, <2>3, <2>4, <2>6, <2>8, <2>9, EntryUnspoilt
  <1> QED
    BY <1>9, <1>10, <1>11

LEMMA ReceiveOrphanedUnspoilt ==
    ASSUME Typed, Typed', Fitting, Unspoilt, NEW r \in net, ReceiveOrphaned(r) PROVE Unspoilt'
  <1>1. r.kind = "discard" /\ UNCHANGED <<agent, source, page, misled>> /\ net' = net \ {r}
    BY DEF ReceiveOrphaned, Arrives, workVars, history
  <1>2. ~Clean(r.id)
    BY <1>1, NotClean
  <1>3. PICK e \in Events : e = EventOf("discard", r.id, 0)
    BY RequestAsks
  <1>4. PICK old \in Snapshots : old = snap[r.id]
    BY RequestAsks
  <1>5. PICK mid \in Snapshots : mid = DiscardRequested(old, e)
    BY SnapshotsTyped
  <1>6. Discarded(mid) \in Snapshots
    BY <1>3, SnapshotsTyped
  <1>7. Discarded(mid).known /\ Discarded(mid).pending = None
    BY <1>3, SnapshotsKnown
  <1>8. PICK sn \in Snapshots : sn = Discarded(mid) /\ sn.known /\ sn.pending = None
    BY <1>6, <1>7
  <1>9. snap' = [snap EXCEPT ![r.id] = sn] /\ r.id \in Sessions
    BY <1>3, <1>4, <1>5, <1>8, RequestAsks DEF ReceiveOrphaned, Journal
  <1>10. queue \in Seq(Entries)
    BY DEF Typed
  <1>11. About(queue', agent') \subseteq About(queue, agent) \union {None}
    <2>1. Thinned(queue', queue)
      BY <1>10, RetiredIs DEF ReceiveOrphaned
    <2> QED
      BY <1>1, <1>10, <2>1, AboutQueue
  <1>12. \A s \in Sessions \ misled' : s # r.id /\ Clean(s) => CleanPage(page', s) /\ CleanNet(net', s)
    BY <1>1 DEF Clean, CleanNet
  <1> QED
    BY <1>1, <1>2, <1>8, <1>9, <1>11, <1>12, EntryUnspoilt

\* The event that creates a session is queued as it was asked for.
LEMMA ReceiveGenerateUnspoilt ==
    ASSUME Typed, Typed', Worked, Unspoilt, NEW r \in net, ReceiveGenerate(r) PROVE Unspoilt'
  <1>1. r.id \in Sessions /\ r.kind = "generate"
    BY RequestAsks DEF ReceiveGenerate, Arrives
  <1>2. PICK e \in Events : e = RawOf(r.id) /\ e.id = r.id
    BY <1>1, RawOfIs
  <1>3. PICK old \in Snapshots : old = snap[r.id]
    BY RequestAsks
  <1>4. PICK sn \in Snapshots : sn = Generated(old, e)
    BY SnapshotsTyped
  <1>5. /\ snap' = [snap EXCEPT ![r.id] = sn] /\ Flush(Enqueued(queue, e), agent)
        /\ net' = net \ {r} /\ UNCHANGED <<source, page, misled>>
    BY <1>2, <1>3, <1>4 DEF ReceiveGenerate, Journal, RawOf, history
  <1>6. ~snap[r.id].known
    BY <1>1 DEF Worked, Creation
  <1>7. About(queue', agent') \subseteq About(queue, agent) \union {None, e}
    <2>1. queue \in Seq(Entries) /\ Thinned(queue, queue)
      BY ThinnedSelf DEF Typed
    <2> QED
      BY <1>5, <2>1, AboutFlush
  <1>8. SUFFICES ASSUME NEW s \in Sessions \ misled', Unmade(About(queue', agent'), snap'[s], s)
                 PROVE  Clean(s)'
    BY DEF Unspoilt
  <1>9. snap'[s] = IF s = r.id THEN sn ELSE snap[s]
    BY <1>1, <1>5 DEF Typed
  <1>10. Unmade(About(queue, agent), snap[s], s)
    <2>1. CASE s = r.id
      BY <1>6, <2>1 DEF Unmade
    <2>2. CASE s # r.id
      <3>1. RawOf(s) # e /\ RawOf(s) # None
        BY <1>2, <2>2, RawOfIs
      <3> QED
        BY <1>7, <1>8, <1>9, <2>2, <3>1 DEF Unmade
    <2> QED
      BY <2>1, <2>2
  <1>11. Clean(s)
    BY <1>5, <1>10 DEF Unspoilt
  <1>12. CleanWork(About(queue', agent'), s)
    BY <1>2, <1>7, <1>11 DEF Clean, CleanWork
  <1>13. CleanJournal(snap'[s], s)
    <2>1. CASE s = r.id
      <3>1. PICK t : t = Touched(old)
        OBVIOUS
      <3>2. t = [old EXCEPT !.known = TRUE] /\ t \in Snapshots
        BY <3>1 DEF Touched, Snapshots
      <3>3. /\ ~t.canceled /\ ~t.finished /\ t.arrived = 0
        BY <1>3, <1>11, <2>1, <3>2 DEF Clean, CleanJournal, Snapshots
      <3>4. sn = [t EXCEPT !.phase = "generate_requested", !.pending = e]
        BY <1>4, <3>1 DEF Generated
      <3>5. /\ ~sn.canceled /\ ~sn.finished /\ sn.arrived = 0 /\ sn.pending = e
            /\ sn.phase = "generate_requested"
        BY <3>2, <3>3, <3>4 DEF Snapshots
      <3> QED
        BY <1>2, <1>9, <2>1, <3>5 DEF CleanJournal, FencedPhases, CompletedPhases
    <2>2. CASE s # r.id
      BY <1>9, <1>11, <2>2 DEF Clean
    <2> QED
      BY <2>1, <2>2
  <1>14. source'[s] = 0 /\ CleanPage(page', s) /\ CleanNet(net', s)
    BY <1>5, <1>11 DEF Clean, CleanNet
  <1> QED
    BY <1>12, <1>13, <1>14 DEF Clean

\* Progress is journaled, and the page that has missed the variants of another
\* session is told of them.
LEMMA ReceiveCheckpointUnspoilt ==
    ASSUME Typed, Typed', Unspoilt, NEW r \in net, ReceiveCheckpoint(r) PROVE Unspoilt'
  <1>1. /\ r.id \in Sessions /\ r \in Requests /\ r.kind = "checkpoint"
        /\ r.phase \in {"generating", "cycling"}
    BY RequestAsks DEF Typed, Requests, ReceiveCheckpoint, Arrives
  <1>2. PICK e \in Events : e = EventOf("accept", r.id, 0)
    BY RequestAsks
  <1>3. PICK old \in Snapshots : old = snap[r.id]
    BY RequestAsks
  <1>4. PICK sn \in Snapshots : sn = Checkpointed(old, r)
    <2>1. Checkpointed(old, r) \in Snapshots
      BY <1>1, <1>2, SnapshotsTyped
    <2> QED
      BY <2>1
  <1>5. sn.pending = old.pending /\ sn.known /\ old.known
    <2>1. sn.pending = old.pending /\ sn.known
      BY <1>2, <1>4, SnapshotsKnown
    <2> QED
      BY <1>3, <2>1 DEF ReceiveCheckpoint
  <1>6. /\ snap' = [snap EXCEPT ![r.id] = sn] /\ net' = net \ {r}
        /\ UNCHANGED <<queue, agent, source, misled>>
    BY <1>3, <1>4 DEF ReceiveCheckpoint, Journal, workVars, history
  <1>7. \/ page' = page
        \/ page' = HearDone(page, r.id) /\ MissedCompletion(old, r)
    BY <1>3 DEF ReceiveCheckpoint, Announced
  <1>8. SUFFICES ASSUME NEW s \in Sessions \ misled', Unmade(About(queue', agent'), snap'[s], s)
                 PROVE  Clean(s)'
    BY DEF Unspoilt
  <1>9. snap'[s] = IF s = r.id THEN sn ELSE snap[s]
    BY <1>1, <1>6 DEF Typed
  <1>10. Clean(s)
    <2>1. Unmade(About(queue, agent), snap[s], s)
      BY <1>3, <1>5, <1>6, <1>8, <1>9 DEF Unmade
    <2> QED
      BY <1>6, <2>1 DEF Unspoilt
  <1>11. CleanJournal(snap'[s], s)
    <2>1. CASE s = r.id
      <3>1. r.arrived = 0
        BY <1>10, <2>1 DEF Clean, CleanNet
      <3>2. PICK t : t = Touched(old)
        OBVIOUS
      <3>3. t = [old EXCEPT !.known = TRUE] /\ t \in Snapshots
        BY <3>2 DEF Touched, Snapshots
      <3>4. /\ ~t.canceled /\ ~t.finished /\ t.arrived = 0 /\ t.pending \in {None, RawOf(s)}
            /\ t.phase \notin FencedPhases
        BY <1>3, <1>10, <2>1, <3>3 DEF Clean, CleanJournal, Snapshots
      <3>5. sn = t \/ sn = [t EXCEPT !.phase = r.phase, !.rev = r.rev, !.arrived = r.arrived]
        BY <1>4, <3>2 DEF Checkpointed
      <3>6. /\ ~sn.canceled /\ ~sn.finished /\ sn.arrived = 0 /\ sn.pending \in {None, RawOf(s)}
            /\ sn.phase = t.phase \/ sn.phase = r.phase
        BY <3>1, <3>3, <3>4, <3>5 DEF Snapshots
      <3>7. r.phase \notin FencedPhases
        BY <1>1 DEF FencedPhases, CompletedPhases
      <3> QED
        BY <1>9, <2>1, <3>4, <3>6, <3>7 DEF CleanJournal
    <2>2. CASE s # r.id
      BY <1>9, <1>10, <2>2 DEF Clean
    <2> QED
      BY <2>1, <2>2
  <1>12. CleanPage(page', s)
    <2>1. page \in Pages /\ CleanPage(page, s)
      BY <1>10 DEF Typed, Clean
    <2>2. CASE page' = HearDone(page, r.id) /\ MissedCompletion(old, r)
      <3>1. r.id # s
        BY <1>3, <1>10, <2>2 DEF MissedCompletion, Clean, CleanJournal
      <3>2. CleanPage(HearDone(page, r.id), s)
        BY <1>1, <2>1, <3>1, HearingStaysClean
      <3> QED
        BY <2>2, <3>2
    <2> QED
      BY <1>7, <2>1, <2>2
  <1>13. source'[s] = 0 /\ CleanNet(net', s) /\ CleanWork(About(queue', agent'), s)
    BY <1>6, <1>10 DEF Clean, CleanNet
  <1> QED
    BY <1>11, <1>12, <1>13 DEF Clean

\* The scaffold of a session lands once.
LEMMA ScaffoldLandsUnspoilt ==
    ASSUME Typed, Typed', Fitting, Unspoilt, NEW a \in Agents, ScaffoldLands(a) PROVE Unspoilt'
  <1>1. PICK e : e = [agent[a].ev EXCEPT !.ready = TRUE]
    OBVIOUS
  <1>2. PICK d \in Events : d = agent[a].ev
    BY ScaffoldIs
  <1>3. /\ e \in Events /\ e.id = d.id /\ e.type = d.type /\ e.ready
        /\ snap' = [snap EXCEPT ![e.id] = Generated(snap[e.id], e)]
        /\ queue' \in Seq(Entries) /\ Len(queue') = Len(queue)
        /\ \A i \in 1 .. Len(queue) :
              queue'[i] = IF queue[i].ev = d THEN [ev |-> e, leased |-> TRUE] ELSE queue[i]
    BY <1>1, <1>2, ScaffoldIs
  <1>4. e.id \in Sessions /\ agent[a].at \in {"scaffolding", "hungup"}
    BY <1>3 DEF Events, ScaffoldLands
  <1>5. Raw(agent[a])
    BY <1>4 DEF Fitting, FitWork, InPlace, Raw
  <1>6. agent' = [agent EXCEPT ![a] = IF @.at = "hungup" THEN Idle ELSE [at |-> "holding", ev |-> e]]
        /\ UNCHANGED <<source, page, net, misled>>
    BY <1>1 DEF ScaffoldLands, history
  <1>7. agent'[a].ev \in {None, e} /\ \A b \in Agents : b # a => agent'[b] = agent[b]
    <2>1. agent'[a] = Idle \/ agent'[a] = [at |-> "holding", ev |-> e]
      BY <1>6 DEF Typed
    <2>2. \A b \in Agents : b # a => agent'[b] = agent[b]
      BY <1>6 DEF Typed
    <2> QED
      BY <2>1, <2>2, IdleIs
  <1>8. \A x \in About(queue', agent') : x \in {None, e} \/ (x \in About(queue, agent) /\ x # d)
    <2>1. ASSUME NEW i \in 1 .. Len(queue')
          PROVE  queue'[i].ev = e \/ (queue'[i].ev \in About(queue, agent) /\ queue'[i].ev # d)
      <3>1. CASE queue[i].ev = d
        <4>1. queue'[i] = [ev |-> e, leased |-> TRUE]
          BY <1>3, <3>1
        <4> QED
          BY <4>1
      <3>2. CASE queue[i].ev # d
        BY <1>3, <3>2 DEF About
      <3> QED
        BY <3>1, <3>2
    <2>2. ASSUME NEW b \in Agents
          PROVE  \/ agent'[b].ev \in {None, e}
                 \/ agent'[b].ev \in About(queue, agent) /\ agent'[b].ev # d
      <3>1. CASE b = a
        BY <1>7, <3>1
      <3>2. CASE b # a
        <4>1. agent'[b] = agent[b]
          BY <1>7, <3>2
        <4>2. agent[b].ev # d
          BY <1>2, <1>5, <3>2 DEF Fitting, Alone
        <4> QED
          BY <4>1, <4>2 DEF About
      <3> QED
        BY <3>1, <3>2
    <2> QED
      BY <2>1, <2>2 DEF About
  <1>9. SUFFICES ASSUME NEW s \in Sessions \ misled', Unmade(About(queue', agent'), snap'[s], s)
                 PROVE  Clean(s)'
    BY DEF Unspoilt
  <1>10. PICK old \in Snapshots : old = snap[e.id]
    BY <1>4 DEF Typed
  <1>11. PICK sn \in Snapshots : sn = Generated(old, e)
    BY <1>3, SnapshotsTyped
  <1>12. sn.known /\ sn.pending = e
    BY <1>3, <1>11, SnapshotsKnown
  <1>13. snap'[s] = IF s = e.id THEN sn ELSE snap[s]
    BY <1>3, <1>4, <1>10, <1>11 DEF Typed
  <1>14. RawOf(s) # e /\ RawOf(s) # None
    BY <1>3, RawOfIs
  <1>15. RawOf(s) \in About(queue', agent') => RawOf(s) \in About(queue, agent) /\ RawOf(s) # d
    BY <1>8, <1>14
  <1>16. s # e.id
    <2>1. SUFFICES ASSUME s = e.id PROVE FALSE
      OBVIOUS
    <2>2. RawOf(s) \in About(queue, agent) /\ RawOf(s) # d
      BY <1>9, <1>12, <1>13, <1>14, <1>15, <2>1 DEF Unmade
    <2>3. Clean(s)
      BY <1>6, <2>2 DEF Unspoilt, Unmade
    <2>4. d \in About(queue, agent) /\ d # None
      BY <1>2, SessionsAssumption DEF About
    <2>5. d = RawOf(s)
      BY <1>3, <2>1, <2>3, <2>4 DEF Clean, CleanWork
    <2> QED
      BY <2>2, <2>5
  <1>17. Clean(s)
    <2>1. Unmade(About(queue, agent), snap[s], s)
      BY <1>9, <1>13, <1>15, <1>16 DEF Unmade
    <2> QED
      BY <1>6, <2>1 DEF Unspoilt
  <1>18. CleanWork(About(queue', agent'), s)
    BY <1>8, <1>16, <1>17 DEF Clean, CleanWork
  <1>19. CleanJournal(snap'[s], s)
    BY <1>13, <1>16, <1>17 DEF Clean
  <1>20. source'[s] = 0 /\ CleanPage(page', s) /\ CleanNet(net', s)
    BY <1>6, <1>17 DEF Clean
  <1> QED
    BY <1>18, <1>19, <1>20 DEF Clean

\* A helper that is started again queues what the journal has.
LEMMA RestartUnspoilt == ASSUME Typed, Typed', Worked, Unspoilt, Restart PROVE Unspoilt'
  <1>1. PICK waiting : waiting = {s \in Sessions : Active(snap[s]) /\ snap[s].pending # None}
    OBVIOUS
  <1>2. PICK order \in [1 .. Len(queue') -> waiting] :
           \A i \in 1 .. Len(queue') :
                 queue'[i] = [ev |-> snap[order[i]].pending, leased |-> FALSE]
    BY <1>1, RestartIs
  <1>3. /\ UNCHANGED <<snap, agent, source, misled>> /\ page' = [page EXCEPT !.token = FALSE]
        /\ net' = {[r EXCEPT !.valid = FALSE] : r \in net}
    BY DEF Restart, workVars
  <1>4. \A x \in About(queue', agent') :
           \/ x \in About(queue, agent)
           \/ \E s \in Sessions : x = snap[s].pending /\ x # None /\ x.id = s
    <2>1. ASSUME NEW i \in 1 .. Len(queue')
          PROVE  \E s \in Sessions : /\ queue'[i].ev = snap[s].pending
                                     /\ queue'[i].ev # None /\ queue'[i].ev.id = s
      <3>1. PICK s \in waiting : s = order[i]
        BY <1>2
      <3>2. s \in Sessions /\ snap[s].pending # None
        BY <1>1
      <3>3. queue'[i].ev = snap[s].pending
        <4>1. queue'[i] = [ev |-> snap[order[i]].pending, leased |-> FALSE]
          BY <1>2
        <4> QED
          BY <3>1, <4>1
      <3> QED
        BY <3>2, <3>3 DEF Worked, OwnPending
    <2>2. \A a \in Agents : agent'[a].ev \in About(queue, agent)
      BY <1>3 DEF About
    <2> QED
      BY <2>1, <2>2 DEF About
  <1>5. SUFFICES ASSUME NEW s \in Sessions \ misled', Unmade(About(queue', agent'), snap'[s], s)
                 PROVE  Clean(s)'
    BY DEF Unspoilt
  <1>6. Unmade(About(queue, agent), snap[s], s)
    <2>1. CASE RawOf(s) \in About(queue', agent')
      <3>1. RawOf(s).id = s
        BY RawOfIs
      <3>2. RawOf(s) \in About(queue, agent) \/ RawOf(s) = snap[s].pending
        BY <1>4, <2>1, <3>1
      <3> QED
        BY <3>2 DEF Unmade
    <2>2. CASE RawOf(s) \notin About(queue', agent')
      BY <1>3, <1>5, <2>2 DEF Unmade
    <2> QED
      BY <2>1, <2>2
  <1>7. Clean(s)
    BY <1>3, <1>6 DEF Unspoilt
  <1>8. CleanWork(About(queue', agent'), s)
    <2>1. SUFFICES ASSUME NEW x \in About(queue', agent'), x # None, x.id = s PROVE x = RawOf(s)
      BY DEF CleanWork
    <2>2. CASE x \in About(queue, agent)
      BY <1>7, <2>1, <2>2 DEF Clean, CleanWork
    <2>3. CASE x = snap[s].pending
      BY <1>7, <2>1, <2>3 DEF Clean, CleanJournal
    <2> QED
      BY <1>4, <2>1, <2>2, <2>3
  <1>9. CleanNet(net', s)
    <2>1. SUFFICES ASSUME NEW x \in net', x.id = s
                   PROVE  x.kind \in {"generate", "checkpoint"} /\ x.arrived = 0
      BY DEF CleanNet
    <2>2. PICK r \in net : x = [r EXCEPT !.valid = FALSE]
      BY <1>3
    <2>3. r \in Requests
      BY DEF Typed
    <2>4. x.id = r.id /\ x.kind = r.kind /\ x.arrived = r.arrived
      BY <2>2, <2>3 DEF Requests
    <2> QED
      BY <1>7, <2>1, <2>4 DEF Clean, CleanNet
  <1>10. CleanPage(page', s)
    BY <1>3, <1>7 DEF Clean, CleanPage, Typed, Pages
  <1>11. source'[s] = 0 /\ CleanJournal(snap'[s], s)
    BY <1>3, <1>7 DEF Clean
  <1> QED
    BY <1>8, <1>9, <1>10, <1>11 DEF Clean

LEMMA CrashUnspoilt == ASSUME Typed, Typed', Unspoilt, Crash PROVE Unspoilt'
  <1>1. /\ queue' = <<>> /\ UNCHANGED <<snap, source, net, misled>>
        /\ page' = [page EXCEPT !.conn = FALSE]
    BY DEF Crash, history
  <1>2. ASSUME NEW b \in Agents PROVE agent'[b].ev = None \/ agent'[b].ev = agent[b].ev
    <2>1. agent'[b] = CASE agent[b].at = "holding" /\ agent[b].ev.type \in Decisions ->
                              [agent[b] EXCEPT !.at = "cutoff"]
                        [] agent[b].at \in {"scaffolding", "hungup", "parked"} -> Idle
                        [] OTHER -> agent[b]
      BY DEF Crash
    <2>2. agent[b] \in Hands
      BY DEF Typed
    <2>3. [agent[b] EXCEPT !.at = "cutoff"].ev = agent[b].ev
      BY <2>2 DEF Hands
    <2> QED
      BY <2>1, <2>3, IdleIs
  <1>3. 1 .. Len(queue') = {}
    BY <1>1
  <1>4. About(queue', agent') \subseteq About(queue, agent) \union {None}
    BY <1>2, <1>3 DEF About
  <1>5. \A s \in Sessions \ misled' : Clean(s) => source'[s] = 0 /\ CleanPage(page', s) /\ CleanNet(net', s)
    BY <1>1 DEF Clean, CleanPage, Typed, Pages
  <1> QED
    BY <1>1, <1>4, <1>5, QuietUnspoilt

LEMMA LeaseLapsesUnspoilt ==
    ASSUME Typed, Typed', Unspoilt, NEW i \in DOMAIN queue, LeaseLapses(i) PROVE Unspoilt'
  <1>1. queue \in Seq(Entries) /\ agent \in [Agents -> Hands] /\ i \in 1 .. Len(queue) /\ parked \in Seq(Agents)
    BY LenProperties DEF Typed
  <1>2. PICK q : q = [queue EXCEPT ![i].leased = FALSE]
    OBVIOUS
  <1>3. /\ q \in Seq(Entries) /\ Len(q) = Len(queue)
        /\ \A j \in 1 .. Len(queue) : q[j].ev = queue[j].ev
    BY <1>1, <1>2, UnleasedTyped
  <1>4. Flush(q, agent) /\ UNCHANGED <<snap, source, page, net, misled>>
    BY <1>2 DEF LeaseLapses
  <1>5. HandedOut(q, agent, queue', agent')
    BY <1>1, <1>3, <1>4, FlushTyped DEF Typed
  <1>6. About(queue', agent') \subseteq About(q, agent)
    BY <1>3, <1>5, AboutHanded
  <1>7. About(q, agent) \subseteq About(queue, agent)
    BY <1>3 DEF About
  <1>8. \A s \in Sessions \ misled' : Clean(s) => source'[s] = 0 /\ CleanPage(page', s) /\ CleanNet(net', s)
    BY <1>4 DEF Clean
  <1> QED
    BY <1>4, <1>6, <1>7, <1>8, QuietUnspoilt

\* Steps of agents that say nothing.
LEMMA SilentUnspoilt ==
    ASSUME Typed, Typed', Fitting, Unspoilt, NEW a \in Agents,
           Poll(a) \/ Write(a) \/ Bounced(a) \/ AgentDies(a)
    PROVE  Unspoilt'
  <1>1. UNCHANGED <<snap, page, net, misled>>
    BY DEF Poll, Write, Bounced, AgentDies, serverVars, history
  <1>2. queue \in Seq(Entries) /\ agent \in [Agents -> Hands]
    BY DEF Typed
  <1>3. \A s \in Sessions : Clean(s) => source'[s] = 0
    <2>1. CASE Write(a)
      <3>1. ~Clean(agent[a].ev.id)
        BY <2>1, NotClean DEF Write
      <3>2. \A s \in Sessions : s # agent[a].ev.id => source'[s] = source[s]
        BY <2>1 DEF Write, Typed
      <3> QED
        BY <3>1, <3>2 DEF Clean
    <2>2. CASE Poll(a) \/ Bounced(a) \/ AgentDies(a)
      BY <2>2 DEF Poll, Bounced, AgentDies, workVars, Clean
    <2> QED
      BY <2>1, <2>2
  <1>4. About(queue', agent') \subseteq About(queue, agent) \union {None}
    <2>1. CASE Write(a)
      BY <2>1 DEF Write, serverVars
    <2>2. CASE Bounced(a)
      <3>1. Thinned(queue', queue) /\ agent' = agent
        BY <2>2, BouncedThins DEF Bounced, workVars
      <3> QED
        BY <1>2, <3>1, AboutQueue
    <2>3. CASE AgentDies(a)
      <3>1. queue' = queue
        BY <2>3 DEF AgentDies
      <3>2. agent' = [agent EXCEPT ![a] = IF @.at = "scaffolding" THEN [@ EXCEPT !.at = "hungup"] ELSE Idle]
        BY <2>3 DEF AgentDies
      <3>3. PICK hand : hand = IF agent[a].at = "scaffolding" THEN [agent[a] EXCEPT !.at = "hungup"] ELSE Idle
        OBVIOUS
      <3>4. hand.ev = None \/ hand.ev = agent[a].ev
        BY <1>2, <3>3, IdleIs DEF Hands
      <3>5. \A b \in Agents : agent'[b] = agent[b] \/ (agent'[b] = hand /\ b = a)
        BY <1>2, <3>2, <3>3
      <3> QED
        BY <3>1, <3>4, <3>5 DEF About
    <2>4. CASE /\ agent' = [agent EXCEPT ![a] = [at |-> "parked", ev |-> None]]
               /\ UNCHANGED queue
      BY <1>2, <2>4 DEF About
    <2>5. CASE \E i \in Available(queue) :
                 /\ queue' = Leased(queue, {i})
                 /\ agent' = [agent EXCEPT ![a] = Handed(queue[i].ev)]
      <3>1. HandedOut(queue, agent, queue', agent')
        BY <2>5, PollHandsOut
      <3> QED
        BY <1>2, <3>1, AboutHanded
    <2> QED
      BY <2>1, <2>2, <2>3, <2>4, <2>5 DEF Poll
  <1>5. \A s \in Sessions \ misled' : Clean(s) => source'[s] = 0 /\ CleanPage(page', s) /\ CleanNet(net', s)
    BY <1>1, <1>3 DEF Clean
  <1> QED
    BY <1>1, <1>4, <1>5, QuietUnspoilt

\* What an agent replies, and what the page makes of it.
LEMMA ReplyUnspoilt ==
    ASSUME Typed, Typed', Worked, Fitting, Unspoilt, NEW a \in Agents,
           agent[a].at \in {"holding", "cutoff", "cleanup"},
           NEW reply \in {"done", "agent_done", "error", "complete", "discarded"}, NEW named,
           NEW carbonize \in BOOLEAN, NEW next \in Hands, Sound(next),
           next.ev \in {None, agent[a].ev},
           UNCHANGED source, Reply(a, reply, named, carbonize, next)
    PROVE  Unspoilt'
  <1>1. agent[a].ev # None
    BY DEF Typed, Sound
  <1>2. PICK id \in Sessions : id = agent[a].ev.id
    BY <1>1, ReplyIs
  <1>3. ReplyJournals(a, reply, carbonize, next)
    BY <1>1, ReplyIs
  <1>4. ReplyAnnounces(a, reply, carbonize)
    BY <1>1, ReplyIs
  <1>5. PICK acked : \E sn \in Snapshots, rest \in Seq(Entries) :
            /\ snap' = [snap EXCEPT ![id] = sn]
            /\ \/ sn = snap[id]
               \/ sn = JournalOf(reply, snap[id], acked, carbonize)
            /\ Thinned(rest, queue)
            /\ HandedOut(rest, [agent EXCEPT ![a] = next], queue', agent')
    BY <1>2, <1>3 DEF ReplyJournals
  <1>6. PICK sn \in Snapshots, rest \in Seq(Entries) :
            /\ snap' = [snap EXCEPT ![id] = sn]
            /\ \/ sn = snap[id]
               \/ sn = JournalOf(reply, snap[id], acked, carbonize)
            /\ Thinned(rest, queue)
            /\ HandedOut(rest, [agent EXCEPT ![a] = next], queue', agent')
    BY <1>5
  <1>7. ~Clean(id)
    BY <1>2, NotClean
  <1>8. sn.known /\ sn.pending \in {None, snap[id].pending}
    <2>1. PICK old \in Snapshots : old = snap[id]
      BY DEF Typed
    <2>2. PICK e \in Events : e = agent[a].ev
      BY <1>1, ReplyIs
    <2>3. /\ JournalOf(reply, old, acked, carbonize).known
          /\ JournalOf(reply, old, acked, carbonize).pending \in {None, old.pending}
      BY <2>2, JournalOfKnown
    <2>4. old.known
      BY <1>1, <1>2, <2>1 DEF Worked, Work, Journaled
    <2> QED
      BY <1>6, <2>1, <2>3, <2>4
  <1>9. PICK ags : ags = [agent EXCEPT ![a] = next]
    OBVIOUS
  <1>10. Lighter(ags, agent)
    BY <1>9 DEF Typed, Lighter
  <1>11. About(queue', agent') \subseteq About(queue, agent) \union {None}
    <2>1. queue \in Seq(Entries)
      BY DEF Typed
    <2>2. About(queue', agent') \subseteq About(rest, ags)
      BY <1>6, <1>9, AboutHanded
    <2>3. About(rest, ags) \subseteq About(rest, agent) \union {None}
      BY <1>10, AboutQueue
    <2>4. About(rest, agent) \subseteq About(queue, agent)
      BY <1>6, <2>1, AboutQueue
    <2> QED
      BY <2>2, <2>3, <2>4
  <1>12. misled \subseteq misled' /\ net' = net
    BY <1>4 DEF ReplyAnnounces
  <1>13. ASSUME NEW s \in Sessions \ misled', s # id, Clean(s)
         PROVE  CleanPage(page', s) /\ CleanNet(net', s)
    <2>1. page \in Pages /\ CleanPage(page, s) /\ CleanNet(net, s)
      BY <1>13 DEF Typed, Clean
    <2>2. page' = (IF page.conn THEN PageOf(reply, id, carbonize) ELSE page)
      BY <1>2, <1>4 DEF ReplyAnnounces
    <2>3. CASE ~page.conn
      BY <1>12, <2>1, <2>2, <2>3
    <2>4. CASE page.conn
      <3>1. /\ CleanPage(HearDone(page, id), s)
            /\ CleanPage(HearDiscarded(page, id), s)
            /\ CleanPage(HearAccepted(page, id), s)
        BY <1>13, <2>1, HearingStaysClean
      <3>2. CASE reply = "error"
        <4>1. misled' = IF page.deciding = id /\ page.cur \notin {id, None}
                        THEN misled \union {page.cur} ELSE misled
          BY <1>2, <1>4, <2>4, <3>2 DEF ReplyAnnounces
        <4>2. ~(page.deciding = id /\ page.cur = s)
          BY <1>13, <4>1, SessionsAssumption
        <4>3. CleanPage(HearError(page, id), s)
          BY <1>13, <2>1, <4>2, HearingStaysClean
        <4>4. page' = HearError(page, id)
          BY <2>2, <2>4, <3>2 DEF PageOf
        <4> QED
          BY <1>12, <2>1, <4>3, <4>4
      <3>3. CASE reply # "error"
        <4>1. page' \in {HearDone(page, id), HearDiscarded(page, id), HearAccepted(page, id), page}
          BY <2>2, <2>4, <3>3 DEF PageOf
        <4>2. CleanPage(page, s)
          BY <1>13, <2>1
        <4> QED
          BY <1>12, <2>1, <3>1, <4>1, <4>2
      <3> QED
        BY <3>2, <3>3
    <2> QED
      BY <2>3, <2>4
  <1> QED
    BY <1>6, <1>7, <1>8, <1>11, <1>12, <1>13, EntryUnspoilt

LEMMA AnswersUnspoilt ==
    ASSUME Typed, Typed', Worked, Fitting, Unspoilt, NEW a \in Agents,
           \/ ReplyError(a) \/ CleanUp(a)
           \/ \E lost \in BOOLEAN : ReplyDone(a, lost)
           \/ \E cleanup \in BOOLEAN : CarryOut(a, cleanup)
           \/ \E byHand \in BOOLEAN : CarryOutFails(a, byHand)
    PROVE  Unspoilt'
  <1>1. agent[a].at \in {"holding", "cutoff", "cleanup"} /\ UNCHANGED source
    BY DEF ReplyError, CleanUp, ReplyDone, CarryOut, CarryOutFails, Works
  <1>2. agent[a] \in Hands /\ Sound(agent[a]) /\ agent[a].ev \in Events
    <2>1. agent[a] \in Hands /\ Sound(agent[a])
      BY DEF Typed
    <2> QED
      BY <1>1, <2>1 DEF Hands, Sound
  <1>3. PICK next : next = [at |-> "cleanup", ev |-> agent[a].ev]
    OBVIOUS
  <1>4. next \in Hands /\ Sound(next) /\ next.ev = agent[a].ev
    BY <1>2, <1>3, SessionsAssumption DEF Hands, Places, Sound
  <1>5. Idle \in Hands /\ Sound(Idle) /\ Idle.ev = None
    BY IdleIs
  <1>6. CASE ReplyError(a)
    <2>1. Reply(a, "error", None, FALSE, Idle)
      BY <1>6 DEF ReplyError
    <2> QED
      BY <1>1, <1>5, <2>1, ReplyUnspoilt
  <1>7. ASSUME NEW lost \in BOOLEAN, ReplyDone(a, lost) PROVE Unspoilt'
    <2>1. PICK then : then = Afterwards(a, lost)
      OBVIOUS
    <2>2. then = agent[a] \/ then = Idle
      BY <2>1 DEF Afterwards
    <2>3. then \in Hands /\ Sound(then) /\ then.ev \in {None, agent[a].ev}
      BY <1>2, <1>5, <2>2
    <2>4. Reply(a, "done", None, FALSE, then)
      BY <1>7, <2>1 DEF ReplyDone
    <2> QED
      BY <1>1, <2>3, <2>4, ReplyUnspoilt
  <1>8. CASE CleanUp(a)
    <2>1. CASE Reply(a, "complete", None, FALSE, Idle)
      BY <1>1, <1>5, <2>1, ReplyUnspoilt
    <2>2. CASE /\ Journal(agent[a].ev.id, Completed(snap[agent[a].ev.id]))
               /\ agent' = [agent EXCEPT ![a] = Idle]
               /\ UNCHANGED <<up, queue, parked, page, net, history>>
      <3>1. PICK id \in Sessions : id = agent[a].ev.id
        BY <1>2 DEF Events
      <3>2. PICK old \in Snapshots : old = snap[id]
        BY DEF Typed
      <3>3. Completed(old) \in Snapshots
        BY <1>2, SnapshotsTyped
      <3>4. Completed(old).known /\ Completed(old).pending = None
        BY <1>2, SnapshotsKnown
      <3>5. PICK sn \in Snapshots : sn = Completed(old) /\ sn.known /\ sn.pending = None
        BY <3>3, <3>4
      <3>6. snap' = [snap EXCEPT ![id] = sn] /\ UNCHANGED <<queue, page, net, misled>>
        BY <2>2, <3>1, <3>2, <3>5 DEF Journal, history
      <3>7. ~Clean(id)
        BY <1>1, <3>1, NotClean
      <3>8. About(queue', agent') \subseteq About(queue, agent) \union {None}
        <4>1. \A b \in Agents : agent'[b] = agent[b] \/ agent'[b] = Idle
          BY <2>2 DEF Typed
        <4> QED
          BY <1>5, <3>6, <4>1 DEF About
      <3>9. \A s \in Sessions \ misled' : s # id /\ Clean(s) => CleanPage(page', s) /\ CleanNet(net', s)
        BY <3>6 DEF Clean
      <3> QED
        BY <1>1, <3>5, <3>6, <3>7, <3>8, <3>9, EntryUnspoilt
    <2> QED
      BY <1>8, <2>1, <2>2 DEF CleanUp
  <1>9. ASSUME NEW cleanup \in BOOLEAN, CarryOut(a, cleanup) PROVE Unspoilt'
    <2>1. PICK then : then = IF cleanup THEN next ELSE Idle
      OBVIOUS
    <2>2. then \in Hands /\ Sound(then) /\ then.ev \in {None, agent[a].ev}
      BY <1>4, <1>5, <2>1
    <2>3. CASE Reply(a, "agent_done", "accept", TRUE, then)
      BY <1>1, <2>2, <2>3, ReplyUnspoilt
    <2>4. CASE Reply(a, IF agent[a].ev.type = "accept" THEN "complete" ELSE "discarded",
                     agent[a].ev.type, FALSE, then)
      <3>1. PICK reply \in {"complete", "discarded"}, named \in {agent[a].ev.type} :
               reply = IF agent[a].ev.type = "accept" THEN "complete" ELSE "discarded"
        OBVIOUS
      <3>2. Reply(a, reply, named, FALSE, then)
        BY <2>4, <3>1
      <3> QED
        BY <1>1, <2>2, <3>2, ReplyUnspoilt
    <2>5. CASE agent' = [agent EXCEPT ![a] = then] /\ UNCHANGED <<serverVars, page, net, history>>
      <3>1. UNCHANGED <<snap, queue, page, net, misled>>
        BY <2>5 DEF serverVars, history
      <3>2. \A b \in Agents : agent'[b] = agent[b] \/ (agent'[b] = then /\ b = a)
        BY <2>5 DEF Typed
      <3>3. About(queue', agent') \subseteq About(queue, agent) \union {None}
        BY <2>2, <3>1, <3>2 DEF About
      <3>4. \A s \in Sessions \ misled' : Clean(s) => source'[s] = 0 /\ CleanPage(page', s) /\ CleanNet(net', s)
        BY <1>1, <3>1 DEF Clean
      <3> QED
        BY <3>1, <3>3, <3>4, QuietUnspoilt
    <2> QED
      BY <1>3, <1>9, <2>1, <2>3, <2>4, <2>5 DEF CarryOut
  <1>10. ASSUME NEW byHand \in BOOLEAN, CarryOutFails(a, byHand) PROVE Unspoilt'
    <2>1. CASE Reply(a, "agent_done", "accept", FALSE, next)
      BY <1>1, <1>4, <2>1, ReplyUnspoilt
    <2>2. CASE Reply(a, "error", agent[a].ev.type, FALSE, Idle)
      <3>1. PICK named : named = agent[a].ev.type
        OBVIOUS
      <3>2. Reply(a, "error", named, FALSE, Idle)
        BY <2>2, <3>1
      <3> QED
        BY <1>1, <1>5, <3>2, ReplyUnspoilt
    <2> QED
      BY <1>3, <1>10, <2>1, <2>2 DEF CarryOutFails
  <1> QED
    BY <1>6, <1>7, <1>8, <1>9, <1>10

LEMMA UnspoiltInit == Init => Unspoilt
  <1>1. SUFFICES ASSUME Init, NEW s \in Sessions PROVE Clean(s)
    BY DEF Unspoilt
  <1>2. /\ snap[s] = BlankSnapshot /\ source[s] = 0 /\ net = {} /\ queue = <<>>
        /\ \A a \in Agents : agent[a] = Idle
    BY <1>1 DEF Init
  <1>3. 1 .. Len(queue) = {}
    BY <1>2
  <1>4. About(queue, agent) \subseteq {None}
    BY <1>2, <1>3, IdleIs DEF About
  <1>5. CleanWork(About(queue, agent), s)
    BY <1>4 DEF CleanWork
  <1>6. CleanJournal(snap[s], s)
    BY <1>2 DEF CleanJournal, BlankSnapshot, FencedPhases, CompletedPhases
  <1>7. page.cur = None /\ page.stored.id = None /\ page.pulls = {}
    BY <1>1 DEF Init, FreshPage, NothingSaved
  <1>8. CleanPage(page, s) /\ CleanNet(net, s)
    BY <1>2, <1>7, SessionsAssumption DEF CleanPage, CleanNet
  <1> QED
    BY <1>2, <1>5, <1>6, <1>8 DEF Clean

LEMMA UnspoiltStep == Typed /\ Typed' /\ Worked /\ Fitting /\ Unspoilt /\ [Next]_vars => Unspoilt'
  <1>1. SUFFICES ASSUME Typed, Typed', Worked, Fitting, Unspoilt, [Next]_vars PROVE Unspoilt'
    OBVIOUS
  <1>2. CASE UNCHANGED vars
    BY <1>1, <1>2 DEF vars, Unspoilt, Unmade, Clean
  <1>3. CASE PageNext
    BY <1>1, <1>3, PageUnspoilt
  <1>4. CASE HelperNext
    <2>1. ASSUME NEW r \in net, RequestFails(r) PROVE Unspoilt'
      BY <1>1, <2>1, RequestFailsUnspoilt
    <2>2. ASSUME NEW r \in net, RefuseCheckpoint(r) PROVE Unspoilt'
      BY <1>1, <2>2, RefuseCheckpointUnspoilt
    <2>3. ASSUME NEW r \in net, ReceiveCheckpoint(r) PROVE Unspoilt'
      BY <1>1, <2>3, ReceiveCheckpointUnspoilt
    <2>4. ASSUME NEW r \in net, ReceiveOrphaned(r) PROVE Unspoilt'
      BY <1>1, <2>4, ReceiveOrphanedUnspoilt
    <2>5. ASSUME NEW r \in net, ReceiveGenerate(r) PROVE Unspoilt'
      BY <1>1, <2>5, ReceiveGenerateUnspoilt
    <2>6. ASSUME NEW r \in net,
                 \/ ReceiveMountFailure(r)
                 \/ \E lost \in BOOLEAN : ReceiveAccept(r, lost) \/ ReceiveDiscard(r, lost)
          PROVE  Unspoilt'
      BY <1>1, <2>6, DecisionUnspoilt
    <2>7. ASSUME NEW i \in DOMAIN queue, LeaseLapses(i) PROVE Unspoilt'
      BY <1>1, <2>7, LeaseLapsesUnspoilt
    <2>8. CASE Crash
      BY <1>1, <2>8, CrashUnspoilt
    <2>9. CASE Restart
      BY <1>1, <2>9, RestartUnspoilt
    <2> QED
      BY <1>4, <2>1, <2>2, <2>3, <2>4, <2>5, <2>6, <2>7, <2>8, <2>9 DEF HelperNext
  <1>5. CASE AgentNext
    <2>1. ASSUME NEW a \in Agents, Poll(a) \/ Write(a) \/ Bounced(a) \/ AgentDies(a) PROVE Unspoilt'
      BY <1>1, <2>1, SilentUnspoilt
    <2>2. ASSUME NEW a \in Agents, ScaffoldLands(a) PROVE Unspoilt'
      BY <1>1, <2>2, ScaffoldLandsUnspoilt
    <2>3. ASSUME NEW a \in Agents,
                 \/ ReplyError(a) \/ CleanUp(a)
                 \/ \E lost \in BOOLEAN : ReplyDone(a, lost)
                 \/ \E cleanup \in BOOLEAN : CarryOut(a, cleanup)
                 \/ \E byHand \in BOOLEAN : CarryOutFails(a, byHand)
          PROVE  Unspoilt'
      BY <1>1, <2>3, AnswersUnspoilt
    <2> QED
      BY <1>5, <2>1, <2>2, <2>3 DEF AgentNext
  <1> QED
    BY <1>1, <1>2, <1>3, <1>4, <1>5 DEF Next

-----------------------------------------------------------------------------
(***************************************************************************)
(* What was decided stays decided.                                         *)
(***************************************************************************)

Queued(q) == {q[i].ev : i \in 1 .. Len(q)}

\* A decided session is not one to be generated, and nothing but its decision
\* or a failed component is to be queued of it again.
ClosedJournal(sn) ==
    /\ sn.canceled => sn.phase \in FencedPhases \union {"agent_error"}
    /\ sn.pending # None /\ sn.pending.type = "generate" => ~sn.canceled

\* A queued event and the journal of its session; forgotten are the sessions
\* whose decision a reply to something else may have answered.
Stands(e, sn, forgotten) ==
    /\ e.type = "generate" => ~sn.canceled
    /\ e.type \in Decisions /\ e.id \notin forgotten /\ sn.phase \notin CompletedPhases
         => sn.pending # None /\ sn.pending.type \in Decisions

Closed ==
    /\ \A s \in Sessions \ misled : ClosedJournal(snap[s])
    /\ \A e \in Queued(queue) : e.id \notin misled => Stands(e, snap[e.id], strayed)

\* A step keeps the decision of every session.
Steady ==
    \A s \in Sessions \ misled : snap[s].canceled =>
        snap'[s].canceled /\ snap'[s].phase \in FencedPhases \union {"agent_error"}

LEMMA QueuedIs ==
    ASSUME NEW q \in Seq(Entries)
    PROVE  /\ Queued(q) \subseteq Events
           /\ \A r : Thinned(r, q) => Queued(r) \subseteq Queued(q)
           /\ \A e \in Events : Queued(Enqueued(q, e)) \subseteq Queued(q) \union {e}
           /\ \A ags, q2, ags2 : HandedOut(q, ags, q2, ags2) => Queued(q2) \subseteq Queued(q)
  <1>1. Queued(q) \subseteq Events
    <2>1. \A i \in 1 .. Len(q) : q[i] \in Entries
      BY ElementOfSeq
    <2> QED
      BY <2>1 DEF Queued, Entries
  <1>2. ASSUME NEW r, Thinned(r, q) PROVE Queued(r) \subseteq Queued(q)
    BY <1>2 DEF Thinned, Queued
  <1>3. ASSUME NEW e \in Events PROVE Queued(Enqueued(q, e)) \subseteq Queued(q) \union {e}
    <2>1. PICK r : r = Enqueued(q, e)
      OBVIOUS
    <2>2. PICK n \in Nat : n = Len(q)
      BY LenProperties
    <2>3. /\ \A i \in 1 .. n : r[i] = q[i]
          /\ Len(r) = n \/ (Len(r) = n + 1 /\ r[n + 1] = [ev |-> e, leased |-> FALSE])
      BY <2>1, <2>2, EnqueuedIs
    <2>4. \A i \in 1 .. n + 1 : i = n + 1 \/ i \in 1 .. n
      OBVIOUS
    <2>5. ASSUME NEW i \in 1 .. Len(r)
          PROVE  r[i].ev = e \/ \E k \in 1 .. Len(q) : r[i].ev = q[k].ev
      BY <2>2, <2>3, <2>4
    <2> QED
      BY <2>1, <2>5 DEF Queued
  <1>4. ASSUME NEW ags, NEW q2, NEW ags2, HandedOut(q, ags, q2, ags2)
        PROVE  Queued(q2) \subseteq Queued(q)
    BY <1>4 DEF HandedOut, Handing, Queued
  <1> QED
    BY <1>1, <1>2, <1>3, <1>4

\* Steps that journal nothing.
LEMMA QuietClosed ==
    ASSUME Closed, Fitting, misled \subseteq misled', strayed \subseteq strayed', UNCHANGED snap,
           Queued(queue') \subseteq Queued(queue)
    PROVE  Closed' /\ Steady
  <1>1. Closed'
    BY DEF Closed, Stands
  <1>2. Steady
    BY DEF Closed, ClosedJournal, Steady
  <1> QED
    BY <1>1, <1>2

\* Steps that journal an entry.
LEMMA EntryClosed ==
    ASSUME Typed, Closed, misled \subseteq misled', strayed \subseteq strayed',
           queue' \in Seq(Entries), NEW id \in Sessions,
           NEW sn, snap' = [snap EXCEPT ![id] = sn],
           id \notin misled => ClosedJournal(sn) /\ (snap[id].canceled => sn.canceled),
           \A e \in Queued(queue') : e.id # id => e \in Queued(queue),
           \A e \in Queued(queue') : e.id = id /\ id \notin misled => Stands(e, sn, strayed')
    PROVE  Closed' /\ Steady
  <1>1. \A s \in Sessions : snap'[s] = IF s = id THEN sn ELSE snap[s]
    BY DEF Typed
  <1>2. \A e \in Queued(queue') : e.id \in Sessions
    BY QueuedIs DEF Events
  <1>3. \A s \in Sessions \ misled' : ClosedJournal(snap'[s])
    BY <1>1 DEF Closed
  <1>4. ASSUME NEW e \in Queued(queue'), e.id \notin misled'
        PROVE  Stands(e, snap'[e.id], strayed')
    <2>1. CASE e.id = id
      BY <1>1, <1>4, <2>1
    <2>2. CASE e.id # id
      <3>1. Stands(e, snap[e.id], strayed) /\ snap'[e.id] = snap[e.id]
        BY <1>1, <1>2, <1>4, <2>2 DEF Closed
      <3> QED
        BY <3>1 DEF Stands
    <2> QED
      BY <2>1, <2>2
  <1>5. Steady
    <2>1. SUFFICES ASSUME NEW s \in Sessions \ misled, snap[s].canceled
                   PROVE  snap'[s].canceled /\ snap'[s].phase \in FencedPhases \union {"agent_error"}
      BY DEF Steady
    <2>2. CASE s = id
      BY <1>1, <2>1, <2>2 DEF ClosedJournal
    <2>3. CASE s # id
      BY <1>1, <2>1, <2>3 DEF Closed, ClosedJournal
    <2> QED
      BY <2>2, <2>3
  <1> QED
    BY <1>3, <1>4, <1>5 DEF Closed

LEMMA SnapshotsClosed ==
    ASSUME NEW sn \in Snapshots, Fenced(sn) => sn.canceled, NEW e \in Events, NEW d, NEW st
    PROVE  /\ ~sn.canceled => ClosedJournal(Generated(sn, e))
           /\ e.type \in Decisions =>
                 /\ ClosedJournal(Accepted(sn, e)) /\ ClosedJournal(DiscardRequested(sn, e))
                 /\ d.type # "generate" =>
                       Stands(d, Accepted(sn, e), st) /\ Stands(d, DiscardRequested(sn, e), st)
           /\ ClosedJournal(Discarded(sn)) /\ ClosedJournal(Completed(sn))
           /\ d.type # "generate" => Stands(d, Discarded(sn), st)
           /\ Stands(d, sn, st) => Stands(d, Completed(sn), st)
           /\ e.type # "generate" /\ ClosedJournal(sn) => ClosedJournal(MountFailed(sn, e))
           /\ Stands(d, sn, st) => Stands(d, MountFailed(sn, e), st)
           /\ \A c \in Requests : ClosedJournal(sn) => ClosedJournal(Checkpointed(sn, c))
           /\ \A c \in Requests : Stands(d, sn, st) /\ (d.type \in Decisions => sn.canceled) =>
                 Stands(d, Checkpointed(sn, c), st)
  <1>1. PICK t : t = Touched(sn)
    OBVIOUS
  <1>2. t \in Snapshots /\ t = [sn EXCEPT !.known = TRUE]
    BY <1>1 DEF Touched, Snapshots
  <1>3. t.canceled = sn.canceled /\ t.phase = sn.phase /\ t.pending = sn.pending
    BY <1>2 DEF Snapshots
  <1>4. ~sn.canceled => ClosedJournal(Generated(sn, e))
    BY <1>1, <1>2, <1>3 DEF Generated, Snapshots, ClosedJournal
  <1>5. PICK acc, dis : acc = Accepted(sn, e) /\ dis = DiscardRequested(sn, e)
    OBVIOUS
  <1>6. /\ acc.phase = "accept_requested" /\ acc.pending = e
        /\ dis.phase = "discard_requested" /\ dis.pending = e
    BY <1>1, <1>2, <1>5 DEF Accepted, DiscardRequested, Snapshots
  <1>7. "generate" \notin Decisions /\ e # None
    BY SessionsAssumption DEF Decisions
  <1>8. e.type \in Decisions =>
           /\ ClosedJournal(acc) /\ ClosedJournal(dis)
           /\ d.type # "generate" => Stands(d, acc, st) /\ Stands(d, dis, st)
    BY <1>6, <1>7 DEF ClosedJournal, Stands, FencedPhases
  <1>9. PICK over, done : over = Discarded(sn) /\ done = Completed(sn)
    OBVIOUS
  <1>10. /\ over.phase = "discarded" /\ over.pending = None /\ over.canceled = sn.canceled
         /\ done.phase = "completed" /\ done.pending = None /\ done.canceled = sn.canceled
    BY <1>1, <1>2, <1>3, <1>9 DEF Discarded, Completed, Snapshots
  <1>11. /\ ClosedJournal(over) /\ ClosedJournal(done)
         /\ d.type # "generate" => Stands(d, over, st)
         /\ Stands(d, sn, st) => Stands(d, done, st)
    BY <1>10 DEF ClosedJournal, Stands, FencedPhases, CompletedPhases
  <1>12. PICK mf : mf = MountFailed(sn, e)
    OBVIOUS
  <1>13. /\ mf.phase = sn.phase /\ mf.canceled = sn.canceled
         /\ mf.pending = IF sn.pending = None THEN e ELSE sn.pending
    BY <1>1, <1>2, <1>3, <1>12 DEF MountFailed, Snapshots
  <1>14. /\ e.type # "generate" /\ ClosedJournal(sn) => ClosedJournal(mf)
         /\ Stands(d, sn, st) => Stands(d, mf, st)
    BY <1>13 DEF ClosedJournal, Stands
  <1>15. ASSUME NEW c \in Requests
         PROVE  /\ ClosedJournal(sn) => ClosedJournal(Checkpointed(sn, c))
                /\ Stands(d, sn, st) /\ (d.type \in Decisions => sn.canceled) =>
                      Stands(d, Checkpointed(sn, c), st)
    <2>1. PICK n : n = Checkpointed(sn, c)
      OBVIOUS
    <2>2. n.canceled = sn.canceled /\ n.pending = sn.pending /\ (sn.canceled => n.phase = sn.phase)
      BY <1>1, <1>2, <1>3, <2>1 DEF Checkpointed, Snapshots, Fenced
    <2> QED
      BY <2>1, <2>2 DEF ClosedJournal, Stands
  <1> QED
    BY <1>4, <1>5, <1>8, <1>9, <1>11, <1>12, <1>14, <1>15

LEMMA JournalOfClosed ==
    ASSUME NEW sn \in Snapshots, Fenced(sn) => sn.canceled, ClosedJournal(sn),
           NEW reply \in {"done", "agent_done", "error", "complete", "discarded"}, NEW acked, NEW c \in BOOLEAN,
           NEW d, NEW st
    PROVE  /\ ClosedJournal(JournalOf(reply, sn, acked, c))
           /\ /\ Stands(d, sn, st)
              /\ d.type \in Decisions => sn.canceled
              /\ (reply = "error" \/ c) /\ d.type \in Decisions => d.id \in st
              => Stands(d, JournalOf(reply, sn, acked, c), st)
  <1>1. PICK t : t = Touched(sn)
    OBVIOUS
  <1>2. t \in Snapshots /\ t = [sn EXCEPT !.known = TRUE]
    BY <1>1 DEF Touched, Snapshots
  <1>3. t.canceled = sn.canceled /\ t.phase = sn.phase /\ t.pending = sn.pending
    BY <1>2 DEF Snapshots
  <1>4. ClosedJournal(t) /\ (Stands(d, sn, st) => Stands(d, t, st))
    BY <1>3 DEF ClosedJournal, Stands
  <1>5. CASE reply = "discarded"
    <2>1. PICK n : n = Discarded(sn)
      OBVIOUS
    <2>2. n.phase = "discarded" /\ n.pending = None /\ n.canceled = sn.canceled
      BY <1>1, <1>2, <1>3, <2>1 DEF Discarded, Snapshots
    <2>3. ClosedJournal(n) /\ (Stands(d, sn, st) => Stands(d, n, st))
      BY <2>2 DEF ClosedJournal, Stands, FencedPhases, CompletedPhases
    <2> QED
      BY <1>5, <2>1, <2>3 DEF JournalOf
  <1>6. CASE reply = "complete"
    <2>1. PICK n : n = Completed(sn)
      OBVIOUS
    <2>2. n.phase = "completed" /\ n.pending = None /\ n.canceled = sn.canceled
      BY <1>1, <1>2, <1>3, <2>1 DEF Completed, Snapshots
    <2>3. ClosedJournal(n) /\ (Stands(d, sn, st) => Stands(d, n, st))
      BY <2>2 DEF ClosedJournal, Stands, FencedPhases, CompletedPhases
    <2> QED
      BY <1>6, <2>1, <2>3 DEF JournalOf
  <1>7. CASE reply = "error"
    <2>1. PICK n : n = AgentFailed(sn, acked)
      OBVIOUS
    <2>2. \/ n = t
          \/ n.phase = "agent_error" /\ n.pending = None /\ n.canceled = sn.canceled
      BY <1>1, <1>2, <1>3, <2>1 DEF AgentFailed, Snapshots
    <2>3. ClosedJournal(n)
      BY <1>4, <2>2 DEF ClosedJournal
    <2>4. Stands(d, sn, st) /\ (d.type \in Decisions => d.id \in st) => Stands(d, n, st)
      BY <1>4, <2>2 DEF Stands
    <2> QED
      BY <1>7, <2>1, <2>3, <2>4 DEF JournalOf
  <1>8. CASE reply \in {"done", "agent_done"}
    <2>1. PICK n : n = AgentDone(sn, c)
      OBVIOUS
    <2>2. \/ n = t
          \/ /\ n.canceled = sn.canceled /\ n.pending = None
             /\ \/ ~Fenced(sn)
                \/ c /\ n.phase = "carbonize_required"
      BY <1>1, <1>2, <1>3, <2>1 DEF AgentDone, Snapshots
    <2>3. ClosedJournal(n)
      BY <1>4, <2>2 DEF ClosedJournal, Fenced, FencedPhases
    <2>4. /\ Stands(d, sn, st)
          /\ d.type \in Decisions => sn.canceled
          /\ c /\ d.type \in Decisions => d.id \in st
          => Stands(d, n, st)
      BY <1>4, <2>2 DEF Stands, Fenced
    <2> QED
      BY <1>8, <2>1, <2>3, <2>4 DEF JournalOf
  <1> QED
    BY <1>5, <1>6, <1>7, <1>8

\* What the journal of an open session, and of one that nothing is known of, says.
LEMMA ClosedOf ==
    ASSUME Typed, Fitting, NEW s \in Sessions
    PROVE  /\ snap[s] \in Snapshots /\ (Fenced(snap[s]) => snap[s].canceled)
           /\ Closed /\ s \notin misled => ClosedJournal(snap[s])
           /\ \A e \in Queued(queue) : e.id = s /\ e.type \in Decisions => snap[s].canceled
           /\ Closed /\ s \notin misled => \A e \in Queued(queue) : e.id = s => Stands(e, snap[s], strayed)
           /\ Clean(s) => ~snap[s].canceled
           /\ Clean(s) => \A e \in Queued(queue) : e.id = s => e.type = "generate"
  <1>1. snap[s] \in Snapshots /\ (Fenced(snap[s]) => snap[s].canceled)
    BY DEF Typed, Fitting, FitJournal
  <1>2. Closed /\ s \notin misled => ClosedJournal(snap[s])
    BY DEF Closed
  <1>3. \A e \in Queued(queue) : e.id = s /\ e.type \in Decisions => snap[s].canceled
    BY DEF Queued, Fitting, FitWork, Fits
  <1>4. Closed /\ s \notin misled => \A e \in Queued(queue) : e.id = s => Stands(e, snap[s], strayed)
    BY DEF Closed
  <1>5. Clean(s) => ~snap[s].canceled
    BY DEF Clean, CleanJournal
  <1>6. Clean(s) => \A e \in Queued(queue) : e.id = s => e.type = "generate"
    <2>1. \A e \in Queued(queue) : e \in Events /\ e \in About(queue, agent)
      BY QueuedIs DEF Queued, About, Typed
    <2>2. \A e \in Queued(queue) : e # None
      BY <2>1, SessionsAssumption
    <2> QED
      BY <2>1, <2>2, RawOfIs DEF Clean, CleanWork
  <1> QED
    BY <1>1, <1>2, <1>3, <1>4, <1>5, <1>6

\* What the helper makes of a request that it journals and queues.
LEMMA ReceiveClosed ==
    ASSUME Typed, Typed', Worked, Fitting, Unspoilt, Closed, NEW r \in net,
           \/ ReceiveGenerate(r) \/ ReceiveMountFailure(r)
           \/ \E lost \in BOOLEAN : ReceiveAccept(r, lost) \/ ReceiveDiscard(r, lost)
    PROVE  Closed' /\ Steady
  <1>1. PICK id \in Sessions : id = r.id
    BY RequestAsks
  <1>2. PICK old \in Snapshots : old = snap[id] /\ (Fenced(old) => old.canceled)
    BY ClosedOf
  <1>3. queue \in Seq(Entries) /\ agent \in [Agents -> Hands] /\ parked \in Seq(Agents)
        /\ queue' \in Seq(Entries)
    BY DEF Typed
  <1>4. misled \subseteq misled' /\ strayed \subseteq strayed'
    BY DEF ReceiveGenerate, ReceiveMountFailure, ReceiveAccept, ReceiveDiscard, history, Misleads
  <1>5. ASSUME NEW q \in Seq(Entries), Thinned(q, queue), NEW e \in Events, Flush(Enqueued(q, e), agent)
        PROVE  Queued(queue') \subseteq Queued(q) \union {e} /\ Queued(q) \subseteq Queued(queue)
    <2>1. PICK w \in Seq(Entries) : w = Enqueued(q, e)
      BY EnqueuedIs
    <2>2. HandedOut(w, agent, queue', agent')
      BY <1>3, <1>5, <2>1, FlushTyped DEF Typed
    <2>3. Queued(queue') \subseteq Queued(w)
      BY <2>2, QueuedIs
    <2>4. Queued(w) \subseteq Queued(q) \union {e}
      BY <2>1, QueuedIs
    <2>5. Queued(q) \subseteq Queued(queue)
      BY <1>3, <1>5, QueuedIs
    <2> QED
      BY <2>3, <2>4, <2>5
  <1>6. Thinned(queue, queue)
    BY <1>3, ThinnedSelf
  <1>7. CASE ReceiveGenerate(r)
    <2>1. PICK e \in Events : e = EventOf("generate", id, 0) /\ e.id = id /\ e.type = "generate"
      BY <1>1, RequestAsks
    <2>2. ~snap[id].known
      BY <1>1, <1>7 DEF Worked, Creation, ReceiveGenerate, Arrives
    <2>3. id \notin misled => Clean(id)
      BY <2>2 DEF Unspoilt, Unmade
    <2>4. id \notin misled => ~old.canceled
      BY <1>2, <2>3, ClosedOf
    <2>5. PICK sn : sn = Generated(old, e)
      OBVIOUS
    <2>6. sn.canceled = old.canceled
      BY <1>2, <2>5, SnapshotsDecided
    <2>7. id \notin misled => ClosedJournal(sn)
      BY <1>2, <2>4, <2>5, SnapshotsClosed
    <2>8. snap' = [snap EXCEPT ![id] = sn] /\ Flush(Enqueued(queue, e), agent)
      BY <1>1, <1>2, <1>7, <2>1, <2>5 DEF ReceiveGenerate, Journal
    <2>9. Queued(queue') \subseteq Queued(queue) \union {e}
      BY <1>3, <1>5, <1>6, <2>8
    <2>10. ASSUME NEW d \in Queued(queue'), d.id = id, id \notin misled PROVE Stands(d, sn, strayed')
      <3>1. d.type = "generate"
        BY <2>1, <2>3, <2>9, <2>10, ClosedOf
      <3> QED
        BY <2>4, <2>6, <2>10, <3>1 DEF Stands, Decisions
    <2> QED
      BY <1>2, <1>3, <1>4, <2>1, <2>6, <2>7, <2>8, <2>9, <2>10, EntryClosed
  <1>8. CASE ReceiveMountFailure(r)
    <2>1. PICK e \in Events : /\ e = EventOf("variant_mount_failed", id, r.variant)
                              /\ e.id = id /\ e.type = "variant_mount_failed"
      BY <1>1, RequestAsks
    <2>2. PICK sn : sn = MountFailed(old, e)
      OBVIOUS
    <2>3. sn.canceled = old.canceled
      BY <1>2, <2>2, SnapshotsDecided
    <2>4. id \notin misled => ClosedJournal(old)
      BY <1>2, ClosedOf
    <2>5. id \notin misled => ClosedJournal(sn)
      BY <1>2, <2>1, <2>2, <2>4, SnapshotsClosed
    <2>6. snap' = [snap EXCEPT ![id] = sn] /\ Flush(Enqueued(queue, e), agent)
      BY <1>1, <1>2, <1>8, <2>1, <2>2 DEF ReceiveMountFailure, Journal
    <2>7. Queued(queue') \subseteq Queued(queue) \union {e}
      BY <1>3, <1>5, <1>6, <2>6
    <2>8. strayed' = strayed
      BY <1>8 DEF ReceiveMountFailure, history
    <2>9. ASSUME NEW d \in Queued(queue'), d.id = id, id \notin misled PROVE Stands(d, sn, strayed')
      <3>1. CASE d = e
        BY <2>1, <3>1 DEF Stands, Decisions
      <3>2. CASE d \in Queued(queue)
        <4>1. Stands(d, old, strayed)
          BY <1>2, <2>9, <3>2, ClosedOf
        <4> QED
          BY <1>2, <2>2, <2>8, <4>1, SnapshotsClosed
      <3> QED
        BY <2>7, <2>9, <3>1, <3>2
    <2> QED
      BY <1>2, <1>3, <1>4, <2>1, <2>3, <2>5, <2>6, <2>7, <2>9, EntryClosed
  <1>9. CASE \E lost \in BOOLEAN : ReceiveAccept(r, lost) \/ ReceiveDiscard(r, lost)
    <2>1. PICK w \in Seq(Entries) : w = Retired(queue, id)
      BY <1>3, RetiredIs
    <2>2. Thinned(w, queue) /\ \A i \in 1 .. Len(w) : ~(w[i].ev.id = id /\ w[i].ev.type = "generate")
      BY <1>3, <2>1, RetiredIs
    <2>3. \A d \in Queued(w) : d.id = id => d.type # "generate"
      BY <2>2 DEF Queued
    <2>4. PICK e \in Events :
             /\ e.id = id /\ e.type \in Decisions
             /\ Flush(Enqueued(w, e), agent)
             /\ \/ snap' = [snap EXCEPT ![id] = Accepted(old, e)]
                \/ snap' = [snap EXCEPT ![id] = DiscardRequested(old, e)]
      <3>1. PICK acc \in Events : acc = EventOf("accept", id, 0) /\ acc.id = id /\ acc.type = "accept"
        BY <1>1, RequestAsks
      <3>2. PICK dis \in Events : dis = EventOf("discard", id, 0) /\ dis.id = id /\ dis.type = "discard"
        BY <1>1, RequestAsks
      <3>3. CASE \E lost \in BOOLEAN : ReceiveAccept(r, lost)
        <4>1. Flush(Enqueued(w, acc), agent) /\ snap' = [snap EXCEPT ![id] = Accepted(old, acc)]
          BY <1>1, <1>2, <2>1, <3>1, <3>3 DEF ReceiveAccept, Journal
        <4> QED
          BY <3>1, <4>1 DEF Decisions
      <3>4. CASE \E lost \in BOOLEAN : ReceiveDiscard(r, lost)
        <4>1. Flush(Enqueued(w, dis), agent) /\ snap' = [snap EXCEPT ![id] = DiscardRequested(old, dis)]
          BY <1>1, <1>2, <2>1, <3>2, <3>4 DEF ReceiveDiscard, Journal
        <4> QED
          BY <3>2, <4>1 DEF Decisions
      <3> QED
        BY <1>9, <3>3, <3>4
    <2>5. PICK sn : /\ snap' = [snap EXCEPT ![id] = sn]
                    /\ sn = Accepted(old, e) \/ sn = DiscardRequested(old, e)
      BY <2>4
    <2>6. sn.canceled
      BY <1>2, <2>5, SnapshotsDecided
    <2>7. ClosedJournal(sn)
      BY <1>2, <2>4, <2>5, SnapshotsClosed
    <2>8. Queued(queue') \subseteq Queued(w) \union {e} /\ Queued(w) \subseteq Queued(queue)
      BY <1>5, <2>2, <2>4
    <2>9. ASSUME NEW d \in Queued(queue'), d.id = id PROVE Stands(d, sn, strayed')
      <3>1. d.type # "generate"
        BY <2>3, <2>4, <2>8, <2>9 DEF Decisions
      <3>2. PICK st : st = strayed'
        OBVIOUS
      <3>3. Stands(d, sn, st)
        BY <1>2, <2>4, <2>5, <3>1, SnapshotsClosed
      <3> QED
        BY <3>2, <3>3
    <2> QED
      BY <1>3, <1>4, <2>4, <2>5, <2>6, <2>7, <2>8, <2>9, EntryClosed
  <1> QED
    BY <1>7, <1>8, <1>9

\* What it makes of one that it journals only.
LEMMA JournalClosed ==
    ASSUME Typed, Typed', Fitting, Closed, NEW r \in net, ReceiveCheckpoint(r) \/ ReceiveOrphaned(r)
    PROVE  Closed' /\ Steady
  <1>1. PICK id \in Sessions : id = r.id
    BY RequestAsks
  <1>2. PICK old \in Snapshots : old = snap[id] /\ (Fenced(old) => old.canceled)
    BY ClosedOf
  <1>3. queue \in Seq(Entries) /\ queue' \in Seq(Entries)
    BY DEF Typed
  <1>4. UNCHANGED <<misled, strayed>>
    BY DEF ReceiveCheckpoint, ReceiveOrphaned, history
  <1>5. PICK e \in Events : e = EventOf("discard", id, 0) /\ e.id = id /\ e.type = "discard"
    BY <1>1, RequestAsks
  <1>6. CASE ReceiveCheckpoint(r)
    <2>1. PICK c \in Requests : c = r /\ c.phase \in {"generating", "cycling"}
      BY <1>6 DEF Typed, Requests, ReceiveCheckpoint, Arrives
    <2>2. PICK sn : sn = Checkpointed(old, c)
      OBVIOUS
    <2>3. sn.canceled = old.canceled
      BY <1>2, <1>5, <2>1, <2>2, SnapshotsDecided
    <2>4. id \notin misled => ClosedJournal(old)
      BY <1>2, ClosedOf
    <2>5. id \notin misled => ClosedJournal(sn)
      BY <1>2, <1>5, <2>2, <2>4, SnapshotsClosed
    <2>6. snap' = [snap EXCEPT ![id] = sn] /\ queue' = queue
      BY <1>1, <1>2, <1>6, <2>1, <2>2 DEF ReceiveCheckpoint, Journal
    <2>7. ASSUME NEW d \in Queued(queue'), d.id = id, id \notin misled PROVE Stands(d, sn, strayed')
      <3>1. Stands(d, old, strayed) /\ (d.type \in Decisions => old.canceled)
        BY <1>2, <2>6, <2>7, ClosedOf
      <3> QED
        BY <1>2, <1>4, <1>5, <2>2, <3>1, SnapshotsClosed
    <2> QED
      BY <1>2, <1>3, <1>4, <2>3, <2>5, <2>6, <2>7, EntryClosed
  <1>7. CASE ReceiveOrphaned(r)
    <2>1. PICK mid \in Snapshots : mid = DiscardRequested(old, e)
      BY SnapshotsTyped
    <2>2. mid.canceled
      BY <1>2, <2>1, SnapshotsDecided
    <2>3. PICK sn : sn = Discarded(mid)
      OBVIOUS
    <2>4. sn.canceled
      BY <1>5, <2>2, <2>3, SnapshotsDecided
    <2>5. ClosedJournal(sn)
      BY <1>5, <2>2, <2>3, SnapshotsClosed
    <2>6. snap' = [snap EXCEPT ![id] = sn] /\ queue' = Retired(queue, id)
      BY <1>1, <1>2, <1>5, <1>7, <2>1, <2>3 DEF ReceiveOrphaned, Journal
    <2>7. /\ Thinned(queue', queue)
          /\ \A i \in 1 .. Len(queue') : ~(queue'[i].ev.id = id /\ queue'[i].ev.type = "generate")
      BY <1>3, <2>6, RetiredIs
    <2>8. Queued(queue') \subseteq Queued(queue)
      BY <1>3, <2>7, QueuedIs
    <2>9. ASSUME NEW d \in Queued(queue'), d.id = id PROVE Stands(d, sn, strayed')
      <3>1. d.type # "generate"
        BY <2>7, <2>9 DEF Queued
      <3>2. PICK st : st = strayed'
        OBVIOUS
      <3>3. Stands(d, sn, st)
        BY <1>5, <2>2, <2>3, <3>1, SnapshotsClosed
      <3> QED
        BY <3>2, <3>3
    <2> QED
      BY <1>3, <1>4, <2>4, <2>5, <2>6, <2>8, <2>9, EntryClosed
  <1> QED
    BY <1>6, <1>7

LEMMA ScaffoldLandsClosed ==
    ASSUME Typed, Typed', Fitting, Unspoilt, Closed, NEW a \in Agents, ScaffoldLands(a)
    PROVE  Closed' /\ Steady
  <1>1. PICK e : e = [agent[a].ev EXCEPT !.ready = TRUE]
    OBVIOUS
  <1>2. PICK d \in Events : d = agent[a].ev
    BY ScaffoldIs
  <1>3. /\ e \in Events /\ e.id = d.id /\ e.type = d.type
        /\ snap' = [snap EXCEPT ![e.id] = Generated(snap[e.id], e)]
        /\ queue' \in Seq(Entries) /\ Len(queue') = Len(queue)
        /\ \A i \in 1 .. Len(queue) :
              queue'[i] = IF queue[i].ev = d THEN [ev |-> e, leased |-> TRUE] ELSE queue[i]
    BY <1>1, <1>2, ScaffoldIs
  <1>4. PICK id \in Sessions : id = e.id
    BY <1>3 DEF Events
  <1>5. d.type = "generate" /\ d.variant = 0 /\ ~d.ready
    BY <1>2 DEF Fitting, FitWork, InPlace, Fits, ScaffoldLands
  <1>6. d = RawOf(id)
    <2>1. d = [type |-> d.type, id |-> d.id, variant |-> d.variant, ready |-> d.ready] /\ d.ready \in BOOLEAN
      BY DEF Events
    <2> QED
      BY <1>3, <1>4, <1>5, <2>1 DEF RawOf, EventOf
  <1>7. id \notin misled => Clean(id)
    <2>1. d \in About(queue, agent)
      BY <1>2 DEF About
    <2> QED
      BY <1>6, <2>1 DEF Unspoilt, Unmade
  <1>8. PICK old \in Snapshots : old = snap[id] /\ (Fenced(old) => old.canceled)
    BY ClosedOf
  <1>9. PICK sn : sn = Generated(old, e)
    OBVIOUS
  <1>10. sn.canceled = old.canceled
    BY <1>3, <1>8, <1>9, SnapshotsDecided
  <1>11. id \notin misled => ~old.canceled
    BY <1>7, <1>8, ClosedOf
  <1>12. id \notin misled => ClosedJournal(sn)
    BY <1>3, <1>8, <1>9, <1>11, SnapshotsClosed
  <1>13. Queued(queue') \subseteq Queued(queue) \union {e}
    <2>1. ASSUME NEW i \in 1 .. Len(queue') PROVE queue'[i].ev \in Queued(queue) \union {e}
      <3>1. CASE queue[i].ev = d
        <4>1. queue'[i] = [ev |-> e, leased |-> TRUE]
          BY <1>3, <3>1
        <4> QED
          BY <4>1
      <3>2. CASE queue[i].ev # d
        BY <1>3, <3>2 DEF Queued
      <3> QED
        BY <3>1, <3>2
    <2> QED
      BY <2>1 DEF Queued
  <1>14. ASSUME NEW x \in Queued(queue'), x.id = id, id \notin misled PROVE Stands(x, sn, strayed')
    <2>1. x.type = "generate"
      BY <1>3, <1>5, <1>7, <1>13, <1>14, ClosedOf
    <2> QED
      BY <1>10, <1>11, <1>14, <2>1 DEF Stands, Decisions
  <1>15. UNCHANGED <<misled, strayed>>
    BY DEF ScaffoldLands, history
  <1>16. snap' = [snap EXCEPT ![id] = sn]
    BY <1>3, <1>4, <1>8, <1>9
  <1> QED
    BY <1>3, <1>4, <1>8, <1>10, <1>12, <1>13, <1>14, <1>15, <1>16, EntryClosed

LEMMA RestartClosed == ASSUME Typed, Typed', Worked, Fitting, Closed, Restart PROVE Closed' /\ Steady
  <1>1. PICK waiting : waiting = {s \in Sessions : Active(snap[s]) /\ snap[s].pending # None}
    OBVIOUS
  <1>2. PICK order \in [1 .. Len(queue') -> waiting] :
           \A i \in 1 .. Len(queue') :
                 queue'[i] = [ev |-> snap[order[i]].pending, leased |-> FALSE]
    BY <1>1, RestartIs
  <1>3. UNCHANGED <<snap, misled, strayed>>
    BY DEF Restart
  <1>4. ASSUME NEW e \in Queued(queue'), e.id \notin misled PROVE Stands(e, snap[e.id], strayed)
    <2>1. PICK i \in 1 .. Len(queue') : e = queue'[i].ev
      BY DEF Queued
    <2>2. PICK s \in waiting : s = order[i]
      BY <1>2
    <2>3. queue'[i] = [ev |-> snap[order[i]].pending, leased |-> FALSE]
      BY <1>2
    <2>4. e = snap[s].pending /\ e # None /\ s \in Sessions
      BY <1>1, <2>1, <2>2, <2>3
    <2>5. e.id = s
      BY <2>4 DEF Worked, OwnPending
    <2>6. ClosedJournal(snap[s])
      BY <1>4, <2>4, <2>5 DEF Closed
    <2> QED
      BY <2>4, <2>5, <2>6 DEF ClosedJournal, Stands
  <1>5. Closed'
    BY <1>3, <1>4 DEF Closed
  <1>6. Steady
    BY <1>3 DEF Closed, ClosedJournal, Steady
  <1> QED
    BY <1>5, <1>6

LEMMA ReplyClosed ==
    ASSUME Typed, Typed', Fitting, Closed, NEW a \in Agents, agent[a].ev # None,
           NEW reply \in {"done", "agent_done", "error", "complete", "discarded"}, NEW named,
           NEW carbonize \in BOOLEAN, NEW next \in Hands, Sound(next),
           reply \in {"complete", "discarded"} \/ carbonize => agent[a].ev.type \in Decisions,
           Reply(a, reply, named, carbonize, next)
    PROVE  Closed' /\ Steady
  <1>1. PICK id \in Sessions : id = agent[a].ev.id
    BY ReplyIs
  <1>2. ReplyJournals(a, reply, carbonize, next)
    BY ReplyIs
  <1>3. PICK acked : \E sn \in Snapshots, rest \in Seq(Entries) :
            /\ snap' = [snap EXCEPT ![id] = sn]
            /\ \/ sn = snap[id]
               \/ sn = JournalOf(reply, snap[id], acked, carbonize)
            /\ Thinned(rest, queue)
            /\ HandedOut(rest, [agent EXCEPT ![a] = next], queue', agent')
            /\ strayed' = IF (reply = "error" \/ carbonize)
                             /\ TypesQueued(rest, id) \intersect Decisions # {}
                          THEN strayed \union {id} ELSE strayed
    BY <1>1, <1>2 DEF ReplyJournals
  <1>4. PICK sn \in Snapshots, rest \in Seq(Entries) :
            /\ snap' = [snap EXCEPT ![id] = sn]
            /\ \/ sn = snap[id]
               \/ sn = JournalOf(reply, snap[id], acked, carbonize)
            /\ Thinned(rest, queue)
            /\ HandedOut(rest, [agent EXCEPT ![a] = next], queue', agent')
            /\ strayed' = IF (reply = "error" \/ carbonize)
                             /\ TypesQueued(rest, id) \intersect Decisions # {}
                          THEN strayed \union {id} ELSE strayed
    BY <1>3
  <1>5. PICK old \in Snapshots : old = snap[id] /\ (Fenced(old) => old.canceled)
    BY ClosedOf
  <1>6. reply \in {"complete", "discarded"} \/ carbonize => old.canceled
    BY <1>1, <1>5 DEF Fitting, FitWork, Fits
  <1>7. sn.canceled = old.canceled
    <2>1. JournalOf(reply, old, acked, carbonize).canceled = old.canceled
      BY <1>5, <1>6, JournalOfDecided
    <2> QED
      BY <1>4, <1>5, <2>1
  <1>8. id \notin misled => ClosedJournal(old)
    BY <1>5, ClosedOf
  <1>9. id \notin misled => ClosedJournal(sn)
    <2>1. SUFFICES ASSUME id \notin misled PROVE ClosedJournal(sn)
      OBVIOUS
    <2>2. ClosedJournal(old)
      BY <1>8, <2>1
    <2>3. ClosedJournal(JournalOf(reply, old, acked, carbonize))
      BY <1>5, <2>2, JournalOfClosed
    <2> QED
      BY <1>4, <1>5, <2>2, <2>3
  <1>10. Queued(queue') \subseteq Queued(rest) /\ Queued(rest) \subseteq Queued(queue)
    <2>1. Queued(queue') \subseteq Queued(rest)
      BY <1>4, QueuedIs
    <2>2. queue \in Seq(Entries)
      BY DEF Typed
    <2> QED
      BY <1>4, <2>1, <2>2, QueuedIs
  <1>11. misled \subseteq misled' /\ strayed \subseteq strayed'
    <2>1. ReplyAnnounces(a, reply, carbonize)
      BY ReplyIs
    <2> QED
      BY <1>4, <2>1 DEF ReplyAnnounces
  <1>12. ASSUME NEW d \in Queued(queue'), d.id = id, id \notin misled PROVE Stands(d, sn, strayed')
    <2>1. /\ Stands(d, old, strayed)
          /\ d.type \in Decisions => old.canceled
      BY <1>5, <1>10, <1>12, ClosedOf
    <2>2. PICK st : st = strayed'
      OBVIOUS
    <2>3. Stands(d, old, st)
      BY <1>11, <2>1, <2>2 DEF Stands
    <2>4. (reply = "error" \/ carbonize) /\ d.type \in Decisions => d.id \in st
      <3>1. SUFFICES ASSUME reply = "error" \/ carbonize, d.type \in Decisions PROVE d.id \in st
        OBVIOUS
      <3>2. d \in Queued(rest) /\ DOMAIN rest = 1 .. Len(rest)
        BY <1>10, <1>12, LenProperties
      <3>3. PICK i \in 1 .. Len(rest) : rest[i].ev = d
        BY <3>2 DEF Queued
      <3>4. d.type \in TypesQueued(rest, id)
        BY <1>12, <3>2, <3>3 DEF TypesQueued
      <3> QED
        BY <1>4, <1>12, <2>2, <3>1, <3>4
    <2>5. ClosedJournal(old)
      BY <1>8, <1>12
    <2>6. Stands(d, JournalOf(reply, old, acked, carbonize), st)
      BY <1>5, <2>1, <2>3, <2>4, <2>5, JournalOfClosed
    <2> QED
      BY <1>4, <1>5, <2>2, <2>3, <2>6
  <1>13. queue' \in Seq(Entries)
    BY DEF Typed
  <1> QED
    BY <1>4, <1>5, <1>7, <1>9, <1>10, <1>11, <1>12, <1>13, EntryClosed

LEMMA AnswersClosed ==
    ASSUME Typed, Typed', Fitting, Closed, NEW a \in Agents,
           \/ ReplyError(a) \/ CleanUp(a)
           \/ \E lost \in BOOLEAN : ReplyDone(a, lost)
           \/ \E cleanup \in BOOLEAN : CarryOut(a, cleanup)
           \/ \E byHand \in BOOLEAN : CarryOutFails(a, byHand)
    PROVE  Closed' /\ Steady
  <1>1. agent[a].at \in {"holding", "cutoff", "cleanup"}
    BY DEF ReplyError, CleanUp, ReplyDone, CarryOut, CarryOutFails, Works
  <1>2. /\ agent[a] \in Hands /\ Sound(agent[a]) /\ InPlace(agent[a])
        /\ agent[a].ev \in Events /\ agent[a].ev # None
    <2>1. agent[a] \in Hands /\ Sound(agent[a]) /\ InPlace(agent[a])
      BY DEF Typed, Fitting, FitWork
    <2> QED
      BY <1>1, <2>1 DEF Hands, Sound
  <1>3. PICK next : next = [at |-> "cleanup", ev |-> agent[a].ev]
    OBVIOUS
  <1>4. next \in Hands /\ Sound(next)
    BY <1>2, <1>3 DEF Hands, Places, Sound
  <1>5. Idle \in Hands /\ Sound(Idle)
    BY IdleIs
  <1>6. CASE ReplyError(a)
    <2>1. Reply(a, "error", None, FALSE, Idle)
      BY <1>6 DEF ReplyError
    <2> QED
      BY <1>2, <1>5, <2>1, ReplyClosed
  <1>7. ASSUME NEW lost \in BOOLEAN, ReplyDone(a, lost) PROVE Closed' /\ Steady
    <2>1. PICK then : then = Afterwards(a, lost)
      OBVIOUS
    <2>2. then \in Hands /\ Sound(then)
      BY <1>2, <1>5, <2>1 DEF Afterwards
    <2>3. Reply(a, "done", None, FALSE, then)
      BY <1>7, <2>1 DEF ReplyDone
    <2> QED
      BY <1>2, <2>2, <2>3, ReplyClosed
  <1>8. CASE CleanUp(a)
    <2>0. agent[a].ev.type \in Decisions
      BY <1>2, <1>8 DEF CleanUp, InPlace
    <2>1. CASE Reply(a, "complete", None, FALSE, Idle)
      BY <1>2, <1>5, <2>0, <2>1, ReplyClosed
    <2>2. CASE /\ Journal(agent[a].ev.id, Completed(snap[agent[a].ev.id]))
               /\ UNCHANGED <<up, queue, parked, page, net, history>>
      <3>1. PICK id \in Sessions : id = agent[a].ev.id
        BY <1>2 DEF Events
      <3>2. PICK old \in Snapshots : old = snap[id] /\ (Fenced(old) => old.canceled)
        BY ClosedOf
      <3>3. PICK sn : sn = Completed(old)
        OBVIOUS
      <3>4. PICK e \in Events : e = agent[a].ev
        BY <1>2
      <3>5. sn.canceled = old.canceled
        BY <3>2, <3>3, <3>4, SnapshotsDecided
      <3>6. ClosedJournal(sn)
        BY <3>2, <3>3, <3>4, SnapshotsClosed
      <3>7. snap' = [snap EXCEPT ![id] = sn] /\ UNCHANGED <<queue, misled, strayed>>
        BY <2>2, <3>1, <3>2, <3>3 DEF Journal, history
      <3>8. ASSUME NEW d \in Queued(queue'), d.id = id, id \notin misled PROVE Stands(d, sn, strayed')
        <4>1. Stands(d, old, strayed)
          BY <3>2, <3>7, <3>8, ClosedOf
        <4> QED
          BY <3>2, <3>3, <3>4, <3>7, <4>1, SnapshotsClosed
      <3>9. queue' \in Seq(Entries)
        BY DEF Typed
      <3> QED
        BY <3>2, <3>5, <3>6, <3>7, <3>8, <3>9, EntryClosed
    <2> QED
      BY <1>8, <2>1, <2>2 DEF CleanUp
  <1>9. ASSUME NEW cleanup \in BOOLEAN, CarryOut(a, cleanup) PROVE Closed' /\ Steady
    <2>0. agent[a].ev.type \in Decisions
      BY <1>9 DEF CarryOut
    <2>1. PICK then : then = IF cleanup THEN next ELSE Idle
      OBVIOUS
    <2>2. then \in Hands /\ Sound(then)
      BY <1>4, <1>5, <2>1
    <2>3. CASE Reply(a, "agent_done", "accept", TRUE, then)
      BY <1>2, <2>0, <2>2, <2>3, ReplyClosed
    <2>4. CASE Reply(a, IF agent[a].ev.type = "accept" THEN "complete" ELSE "discarded",
                     agent[a].ev.type, FALSE, then)
      <3>1. PICK reply \in {"complete", "discarded"}, named \in {agent[a].ev.type} :
               reply = IF agent[a].ev.type = "accept" THEN "complete" ELSE "discarded"
        OBVIOUS
      <3>2. Reply(a, reply, named, FALSE, then)
        BY <2>4, <3>1
      <3> QED
        BY <1>2, <2>0, <2>2, <3>2, ReplyClosed
    <2>5. CASE UNCHANGED <<serverVars, page, net, history>>
      BY <2>5, QuietClosed DEF serverVars, history
    <2> QED
      BY <1>3, <1>9, <2>1, <2>3, <2>4, <2>5 DEF CarryOut
  <1>10. ASSUME NEW byHand \in BOOLEAN, CarryOutFails(a, byHand) PROVE Closed' /\ Steady
    <2>1. CASE Reply(a, "agent_done", "accept", FALSE, next)
      BY <1>2, <1>4, <2>1, ReplyClosed
    <2>2. CASE Reply(a, "error", agent[a].ev.type, FALSE, Idle)
      <3>1. PICK named : named = agent[a].ev.type
        OBVIOUS
      <3>2. Reply(a, "error", named, FALSE, Idle)
        BY <2>2, <3>1
      <3> QED
        BY <1>2, <1>5, <3>2, ReplyClosed
    <2> QED
      BY <1>3, <1>10, <2>1, <2>2 DEF CarryOutFails
  <1> QED
    BY <1>6, <1>7, <1>8, <1>9, <1>10

\* Steps that journal nothing and queue nothing new.
LEMMA SilentClosed ==
    ASSUME Typed, Typed', Fitting, Closed,
           \/ UNCHANGED vars \/ PageNext \/ Crash
           \/ \E r \in net : RequestFails(r) \/ RefuseCheckpoint(r)
           \/ \E i \in DOMAIN queue : LeaseLapses(i)
           \/ \E a \in Agents : Poll(a) \/ Write(a) \/ Bounced(a) \/ AgentDies(a)
    PROVE  Closed' /\ Steady
  <1>1. queue \in Seq(Entries) /\ agent \in [Agents -> Hands] /\ parked \in Seq(Agents)
    BY DEF Typed
  <1>2. CASE UNCHANGED vars
    BY <1>2, QuietClosed DEF vars
  <1>3. CASE PageNext
    <2>1. UNCHANGED <<snap, queue, misled, strayed>>
      BY <1>3 DEF PageNext, Go, CaptureDone, Accept, Discard, Observe, Retry, Inject, Mount, PullIsStale,
         MountFails, CycleFails, Reload, ConnectionLost, Connect, EditedAway, serverVars, history
    <2> QED
      BY <2>1, QuietClosed
  <1>4. CASE Crash
    <2>1. UNCHANGED <<snap, misled, strayed>> /\ queue' = <<>>
      BY <1>4 DEF Crash, history
    <2>2. 1 .. Len(queue') = {}
      BY <2>1
    <2>3. Queued(queue') = {}
      BY <2>2 DEF Queued
    <2> QED
      BY <2>1, <2>3, QuietClosed
  <1>5. ASSUME NEW r \in net, RequestFails(r) \/ RefuseCheckpoint(r) PROVE Closed' /\ Steady
    <2>1. UNCHANGED <<snap, queue, strayed>> /\ misled \subseteq misled'
      BY <1>5 DEF RequestFails, RefuseCheckpoint, serverVars, Misleads
    <2> QED
      BY <2>1, QuietClosed
  <1>6. ASSUME NEW i \in DOMAIN queue, LeaseLapses(i) PROVE Closed' /\ Steady
    <2>1. UNCHANGED <<snap, misled, strayed>>
      BY <1>6 DEF LeaseLapses
    <2>2. PICK q : q = [queue EXCEPT ![i].leased = FALSE]
      OBVIOUS
    <2>3. i \in 1 .. Len(queue)
      BY <1>1, LenProperties
    <2>4. q \in Seq(Entries) /\ Len(q) = Len(queue) /\ \A j \in 1 .. Len(queue) : q[j].ev = queue[j].ev
      BY <1>1, <2>2, <2>3, UnleasedTyped
    <2>5. Flush(q, agent)
      BY <1>6, <2>2 DEF LeaseLapses
    <2>6. HandedOut(q, agent, queue', agent')
      BY <1>1, <2>4, <2>5, FlushTyped DEF Typed
    <2>7. Queued(queue') \subseteq Queued(q)
      BY <2>4, <2>6, QueuedIs
    <2>8. Queued(q) \subseteq Queued(queue)
      BY <2>4 DEF Queued
    <2> QED
      BY <2>1, <2>7, <2>8, QuietClosed
  <1>7. ASSUME NEW a \in Agents, Write(a) \/ AgentDies(a) PROVE Closed' /\ Steady
    <2>1. UNCHANGED <<snap, queue, misled, strayed>>
      BY <1>7 DEF Write, AgentDies, serverVars, history
    <2> QED
      BY <2>1, QuietClosed
  <1>8. ASSUME NEW a \in Agents, Bounced(a) PROVE Closed' /\ Steady
    <2>1. UNCHANGED <<snap, misled, strayed>>
      BY <1>8 DEF Bounced, history
    <2>2. Thinned(queue', queue)
      BY <1>8, BouncedThins
    <2>3. Queued(queue') \subseteq Queued(queue)
      BY <1>1, <2>2, QueuedIs
    <2> QED
      BY <2>1, <2>3, QuietClosed
  <1>9. ASSUME NEW a \in Agents, Poll(a) PROVE Closed' /\ Steady
    <2>1. UNCHANGED <<snap, misled, strayed>>
      BY <1>9 DEF Poll, history
    <2>2. CASE UNCHANGED queue
      BY <2>1, <2>2, QuietClosed
    <2>3. CASE \E i \in Available(queue) :
                 /\ queue' = Leased(queue, {i})
                 /\ agent' = [agent EXCEPT ![a] = Handed(queue[i].ev)]
      <3>1. HandedOut(queue, agent, queue', agent')
        BY <2>3, PollHandsOut
      <3>2. Queued(queue') \subseteq Queued(queue)
        BY <1>1, <3>1, QueuedIs
      <3> QED
        BY <2>1, <3>2, QuietClosed
    <2> QED
      BY <1>9, <2>2, <2>3 DEF Poll
  <1> QED
    BY <1>2, <1>3, <1>4, <1>5, <1>6, <1>7, <1>8, <1>9

LEMMA ClosedInit == Init => Closed
  <1>1. SUFFICES ASSUME Init PROVE Closed
    OBVIOUS
  <1>2. queue = <<>> /\ \A s \in Sessions : snap[s] = BlankSnapshot
    BY <1>1 DEF Init
  <1>3. 1 .. Len(queue) = {}
    BY <1>2
  <1>4. Queued(queue) = {}
    BY <1>3 DEF Queued
  <1>5. ClosedJournal(BlankSnapshot)
    BY DEF ClosedJournal, BlankSnapshot
  <1> QED
    BY <1>2, <1>4, <1>5 DEF Closed

LEMMA ClosedStep ==
    Typed /\ Typed' /\ Worked /\ Fitting /\ Unspoilt /\ Closed /\ [Next]_vars => Closed' /\ Steady
  <1>1. SUFFICES ASSUME Typed, Typed', Worked, Fitting, Unspoilt, Closed, [Next]_vars
                 PROVE  Closed' /\ Steady
    OBVIOUS
  <1>2. CASE UNCHANGED vars \/ PageNext
    BY <1>1, <1>2, SilentClosed
  <1>3. CASE HelperNext
    <2>1. ASSUME NEW r \in net, RequestFails(r) \/ RefuseCheckpoint(r) PROVE Closed' /\ Steady
      BY <1>1, <2>1, SilentClosed
    <2>2. ASSUME NEW r \in net, ReceiveCheckpoint(r) \/ ReceiveOrphaned(r) PROVE Closed' /\ Steady
      BY <1>1, <2>2, JournalClosed
    <2>3. ASSUME NEW r \in net,
                 \/ ReceiveGenerate(r) \/ ReceiveMountFailure(r)
                 \/ \E lost \in BOOLEAN : ReceiveAccept(r, lost) \/ ReceiveDiscard(r, lost)
          PROVE  Closed' /\ Steady
      BY <1>1, <2>3, ReceiveClosed
    <2>4. ASSUME NEW i \in DOMAIN queue, LeaseLapses(i) PROVE Closed' /\ Steady
      BY <1>1, <2>4, SilentClosed
    <2>5. CASE Crash
      BY <1>1, <2>5, SilentClosed
    <2>6. CASE Restart
      BY <1>1, <2>6, RestartClosed
    <2> QED
      BY <1>3, <2>1, <2>2, <2>3, <2>4, <2>5, <2>6 DEF HelperNext
  <1>4. CASE AgentNext
    <2>1. ASSUME NEW a \in Agents, Poll(a) \/ Write(a) \/ Bounced(a) \/ AgentDies(a)
          PROVE  Closed' /\ Steady
      BY <1>1, <2>1, SilentClosed
    <2>2. ASSUME NEW a \in Agents, ScaffoldLands(a) PROVE Closed' /\ Steady
      BY <1>1, <2>2, ScaffoldLandsClosed
    <2>3. ASSUME NEW a \in Agents,
                 \/ ReplyError(a) \/ CleanUp(a)
                 \/ \E lost \in BOOLEAN : ReplyDone(a, lost)
                 \/ \E cleanup \in BOOLEAN : CarryOut(a, cleanup)
                 \/ \E byHand \in BOOLEAN : CarryOutFails(a, byHand)
          PROVE  Closed' /\ Steady
      BY <1>1, <2>3, AnswersClosed
    <2> QED
      BY <1>4, <2>1, <2>2, <2>3 DEF AgentNext
  <1> QED
    BY <1>1, <1>2, <1>3, <1>4 DEF Next

\* All of it together, as a formula that its own steps keep.
IndInv == Typed /\ Worked /\ Fitting /\ Unspoilt /\ Closed

LEMMA AlwaysIndInv == Spec => []IndInv
  <1>1. Init => IndInv
    BY TypedInit, WorkedInit, FittingInit, UnspoiltInit, ClosedInit DEF IndInv
  <1>2. IndInv /\ [Next]_vars => IndInv'
    BY TypedStep, WorkedStep, FittingStep, UnspoiltStep, ClosedStep DEF IndInv
  <1> QED
    BY <1>1, <1>2, PTL DEF Spec

\* The generation of a session that was accepted or discarded is not in the
\* queue (retirePendingGeneration), through restarts, lapsed leases and late
\* scaffolds, unless the page was misled about the session.
THEOREM DecisionRetires == Spec => []DecisionRetiresGeneration
  <1>1. IndInv => DecisionRetiresGeneration
    <2>1. SUFFICES ASSUME IndInv, NEW i \in DOMAIN queue, queue[i].ev.type = "generate",
                          queue[i].ev.id \notin misled
                   PROVE  ~snap[queue[i].ev.id].canceled
      BY DEF DecisionRetiresGeneration
    <2>2. i \in 1 .. Len(queue)
      BY <2>1, LenProperties DEF IndInv, Typed
    <2>3. PICK e \in Queued(queue) : e = queue[i].ev
      BY <2>2 DEF Queued
    <2> QED
      BY <2>1, <2>3 DEF IndInv, Closed, Stands
  <1> QED
    BY <1>1, AlwaysIndInv, PTL

\* A queued decision of an open session is the event that a restarted helper
\* would queue again, unless the reply to another event was journaled over it
\* or the page was misled.
THEOREM DecisionsAreRemembered == Spec => []ForgottenDecisionWasStrayed
  <1>1. IndInv => ForgottenDecisionWasStrayed
    <2>1. SUFFICES ASSUME IndInv, NEW i \in DOMAIN queue, queue[i].ev.type \in Decisions,
                          Active(snap[queue[i].ev.id]), queue[i].ev.id \notin strayed \union misled
                   PROVE  /\ snap[queue[i].ev.id].pending # None
                          /\ snap[queue[i].ev.id].pending.type \in Decisions
      BY DEF ForgottenDecisionWasStrayed
    <2>2. i \in 1 .. Len(queue)
      BY <2>1, LenProperties DEF IndInv, Typed
    <2>3. PICK e \in Queued(queue) : e = queue[i].ev
      BY <2>2 DEF Queued
    <2> QED
      BY <2>1, <2>3 DEF IndInv, Closed, Stands, Active
  <1> QED
    BY <1>1, AlwaysIndInv, PTL

\* A session that was decided is never again generated, resumed or adopted:
\* whatever is reported or published of it afterwards is fenced off, and a
\* failure of the agent is all that may still be journaled.
THEOREM DecisionsAreFinal == Spec => DecidedStaysDecided
  <1> DEFINE Final == \A s \in Sessions \ misled : Fenced(snap[s]) =>
                        /\ snap'[s].canceled = snap[s].canceled
                        /\ snap'[s].phase \in FencedPhases \union {"agent_error"}
  <1>1. IndInv /\ IndInv' /\ [Next]_vars => Final
    <2>1. SUFFICES ASSUME IndInv, IndInv', [Next]_vars, NEW s \in Sessions \ misled, Fenced(snap[s])
                   PROVE  /\ snap'[s].canceled = snap[s].canceled
                          /\ snap'[s].phase \in FencedPhases \union {"agent_error"}
      OBVIOUS
    <2>2. Steady
      BY <2>1, ClosedStep DEF IndInv
    <2>3. snap[s].canceled = TRUE
      BY <2>1 DEF IndInv, Fitting, FitJournal
    <2>4. snap'[s] \in Snapshots
      BY <2>1 DEF IndInv, Typed
    <2>5. snap'[s].canceled \in BOOLEAN
      BY <2>4 DEF Snapshots
    <2> QED
      BY <2>2, <2>3, <2>5 DEF Steady
  <1>2. IndInv /\ IndInv' /\ [Next]_vars => [Final]_vars
    BY <1>1
  <1> QED
    BY <1>2, AlwaysIndInv, PTL DEF Spec, DecidedStaysDecided
=============================================================================
