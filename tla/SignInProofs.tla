---------------------------- MODULE SignInProofs ----------------------------
(***************************************************************************)
(* What ends sessions ends them, for every number of accounts, sessions,   *)
(* codes and requests; then that codes are used once and guesses counted;  *)
(* then the types of the rows.                                             *)
(***************************************************************************)
EXTENDS SignIn, TLAPS

(***************************************************************************)
(* The inductive invariant                                                 *)
(***************************************************************************)
\* A session as it is committed, and in its newest version; who wrote that.
Was(s) == db[SessionRow(s)]
Now(s) == draft[SessionRow(s)]
Writer(s) == lock[SessionRow(s)]
Owner(s) == Now(s).user
Family(s) == Now(s).family
WasThere(s) == Was(s).state # "absent"
WasLive(s) == Was(s).state = "live"
IsThere(s) == Now(s).state # "absent"
IsLive(s) == Now(s).state = "live"
SomewhereLive(s) == IsLive(s) \/ WasLive(s)

\* The same of an account.
WasGone(u) == db[UserRow(u)].status = "inactive"
IsGone(u) == draft[UserRow(u)].status = "inactive"
Keeper(u) == lock[UserRow(u)]

SessionShape(x) == DOMAIN x = {"state", "user", "family"}
UserShape(x) == DOMAIN x = {"status", "address"}
JobShape(x) == DOMAIN x = DOMAIN Blank("idle")

Shaped(rows) ==
    /\ DOMAIN rows = Row
    /\ \A s \in AllSessions : SessionShape(rows[SessionRow(s)])
    /\ \A u \in Accounts : UserShape(rows[UserRow(u)])

\* A session that is committed keeps its user and its family, is live only
\* if it is live there, and rotated only from being live.
Lasting ==
    \A s \in AllSessions :
        /\ WasThere(s) => IsThere(s) /\ Was(s).user = Owner(s) /\ Was(s).family = Family(s)
        /\ WasThere(s) /\ IsLive(s) => WasLive(s)
        /\ Now(s).state = "rotated" => Was(s).state \in {"live", "rotated"}
        /\ IsThere(s) => Owner(s) \in Accounts

TablesInv ==
    /\ Shaped(db) /\ Shaped(draft)
    /\ lock \in [Row -> Jobs \union {Nobody}]
    /\ \A r \in Row : lock[r] = Nobody => draft[r] = db[r]
    /\ Lasting

\* The sessions of a family are one user's, and one of them is live: in the
\* committed rows, in the newest, and across the two but for a rotation's own.
FamiliesInv ==
    /\ \A s, t \in AllSessions :
         IsThere(s) /\ IsThere(t) /\ Family(s) = Family(t) => Owner(s) = Owner(t)
    /\ \A s, t \in AllSessions :
         IsLive(s) /\ IsLive(t) /\ Family(s) = Family(t) => s = t
    /\ \A s, t \in AllSessions :
         IsLive(s) /\ WasLive(t) /\ Family(s) = Family(t) /\ s # t
           => Writer(s) = Writer(t) /\ Writer(s) \in Jobs
    /\ \A s, t \in AllSessions :
         WasLive(s) /\ WasLive(t) /\ Family(s) = Family(t) => s = t

\* What a session not committed yet holds: its user, and the session it
\* replaces, unless it is the first of its family.
Newborn(s, k) ==
    /\ k \in Jobs
    /\ UserRow(Owner(s)) \in job[k].refs \/ Keeper(Owner(s)) = k
    /\ \/ \E p \in AllSessions : /\ WasLive(p) /\ Now(p).state = "rotated"
                                 /\ Family(p) = Family(s) /\ Writer(p) = k
       \/ \A t \in AllSessions : IsThere(t) /\ Family(t) = Family(s) => t = s

NewbornsInv == \A s \in AllSessions : IsLive(s) /\ ~WasLive(s) => Newborn(s, Writer(s))

\* A user who is locked is no new session's of another, but by those who touch
\* no key of it; and these neither delete an account nor bring it back.
KeepersInv ==
    /\ \A j, k \in Jobs, u \in Accounts :
         Keeper(u) = j /\ j # k /\ UserRow(u) \in job[k].refs
            => job[j].kind \in {"status", "change"}
    /\ \A u \in Accounts : (IsGone(u) # WasGone(u)) =>
         Keeper(u) \in Jobs /\ job[Keeper(u)].kind \notin {"status", "change"}

\* An account deleted, or about to be, has no live session but those the
\* deletion has revoked.
DeletedInv ==
    /\ \A s \in AllSessions : IsLive(s) => ~IsGone(Owner(s))
    /\ \A s \in AllSessions : WasLive(s) /\ IsGone(Owner(s))
         => Writer(s) = Keeper(Owner(s)) /\ Writer(s) \in Jobs
    /\ \A s \in AllSessions : WasLive(s) => ~WasGone(Owner(s))

\* A session made by j has j's name, and a family of that name is j's.
FreshInv ==
    \A j \in Jobs : job[j].pc # "done" =>
        /\ ~WasThere(j)
        /\ IsThere(j) => Writer(j) = j /\ job[j].pc = "commit"
        /\ \A t \in AllSessions : IsThere(t) /\ Family(t) = j => t = j
        /\ j \notin ended
        /\ \A k \in Jobs : j \notin job[k].struck

\* What the place of a request says.
JobInv(j) ==
    LET me == job[j] IN
    /\ JobShape(me)
    /\ me.pc \in {"idle", "done"} => \A r \in Row : lock[r] # j
    /\ me.pc \in {"start", "take", "resolve", "move"} =>
         /\ me.kind \in {"verify", "google", "change"}
         /\ me.user \in Accounts \/ (me.user = None /\ me.kind # "change")
    /\ me.pc = "resolve" => me.kind # "change"
    /\ me.pc = "move" => me.kind = "change"
    /\ me.pc \in {"rotate", "hunt"} =>
         \A s \in AllSessions : Writer(s) = j => Now(s) = Was(s)
    /\ me.pc = "rotate" =>
         /\ me.session \in AllSessions /\ Writer(me.session) = j
         /\ WasLive(me.session) /\ me.user = Owner(me.session)
    /\ me.pc = "strike" => \A r \in me.todo : r \in SessionRows
    /\ me.pc = "write" => \A r \in me.todo : r \in CodeRows
    /\ me.kind = "account" =>
         /\ me.user \in Accounts /\ Keeper(me.user) = j /\ me.wide
         /\ me.pc \in {"hunt", "strike", "look", "write", "commit"}
    /\ me.pc \in {"look", "write"} => me.kind \in {"code", "account"}
    /\ me.pc \notin {"strike", "commit"} /\ ~(me.pc \in {"look", "write"} /\ me.kind = "account")
         => me.struck = {}

JobsInv == DOMAIN job = Jobs /\ \A j \in Jobs : JobInv(j)

\* A statement that ends sessions has found every one of the family f that is
\* live, or the one a rotation replaces by it.
Found(j, f) ==
    \A s \in AllSessions : SomewhereLive(s) /\ Family(s) = f =>
        \/ SessionRow(s) \in job[j].todo
        \/ \E p \in AllSessions : /\ SessionRow(p) \in job[j].todo /\ Family(p) = f
                                  /\ Now(p).state = "rotated"

\* The session is over when j commits.
Over(j, s) == ~IsLive(s) /\ (WasLive(s) => Writer(s) = j)

\* Where a request stands that ends sessions.
EndingOf(j) ==
    LET me == job[j] IN
    /\ me.pc = "strike" /\ me.kind # "account" => \A f \in me.struck : Found(j, f)
    /\ me.pc = "strike" /\ me.kind = "account" =>
         \A s \in AllSessions : SomewhereLive(s) =>
           /\ Owner(s) = me.user => SessionRow(s) \in me.todo
           /\ Family(s) \in me.struck => Owner(s) = me.user
    /\ me.pc \in {"look", "write", "commit"} =>
         \A s \in AllSessions :
           /\ Family(s) \in me.struck \ me.missed => Over(j, s)
           /\ me.kind = "account" /\ Owner(s) = me.user => Over(j, s)

EndingInv ==
    /\ \A j \in Jobs : EndingOf(j)
    /\ \A s \in AllSessions : Family(s) \in ended \ outlived => ~SomewhereLive(s)

Inv == /\ TablesInv /\ FamiliesInv /\ NewbornsInv /\ KeepersInv /\ DeletedInv
       /\ FreshInv /\ JobsInv /\ EndingInv

(***************************************************************************)
(* Rows and requests                                                       *)
(***************************************************************************)
LEMMA RowsApart ==
    /\ \A s, t : SessionRow(s) = SessionRow(t) => s = t
    /\ \A u, v : UserRow(u) = UserRow(v) => u = v
    /\ \A s, u : SessionRow(s) # UserRow(u)
    /\ \A s, c : SessionRow(s) # CodeRow(c) /\ UserRow(s) # CodeRow(c)
    /\ \A s, k : SessionRow(s) # KeyRow(k) /\ UserRow(s) # KeyRow(k)
    /\ \A s : SessionRow(s)[1] = "session" /\ SessionRow(s)[2] = s
    /\ \A u : UserRow(u)[1] = "user" /\ UserRow(u)[2] = u
  BY DEF SessionRow, UserRow, CodeRow, KeyRow

LEMMA RowsAreRows ==
    /\ \A s \in AllSessions : SessionRow(s) \in Row /\ SessionRow(s) \in SessionRows
    /\ \A u \in Accounts : UserRow(u) \in Row
    /\ \A r \in CodeRows : (\A s \in AllSessions : r # SessionRow(s))
                           /\ (\A u \in Accounts : r # UserRow(u))
  BY RowsApart DEF Row, SessionRows, CodeRows

LEMMA Names ==
    /\ Nobody \notin Jobs
    /\ Jobs \subseteq AllSessions /\ Jobs \subseteq Accounts
    /\ None \notin Accounts
    /\ \A j \in Jobs : j \notin Sessions
  BY SignInAssumption DEF AllSessions, Accounts

LEMMA BlankShape ==
    ASSUME NEW pc
    PROVE  /\ JobShape(Blank(pc)) /\ Blank(pc).pc = pc /\ Blank(pc).kind = "none"
           /\ Blank(pc).struck = {} /\ Blank(pc).refs = {} /\ Blank(pc).missed = {}
  BY DEF JobShape, Blank

\* What a write is, row by row.
LEMMA PutRows ==
    ASSUME NEW j \in Jobs, NEW R, NEW new, Put(j, R, new)
    PROVE  /\ db' = db /\ DOMAIN lock' = Row /\ DOMAIN draft' = Row
           /\ \A r \in Row : r \in R => /\ lock[r] \in {Nobody, j}
                                        /\ lock'[r] = j /\ draft'[r] = new[r]
           /\ \A r \in Row : r \notin R => lock'[r] = lock[r] /\ draft'[r] = draft[r]
  BY DEF Put, Free

LEMMA OtherJobs ==
    ASSUME JobsInv, NEW j \in Jobs, NEW next, Becomes(j, next)
    PROVE  /\ DOMAIN job' = Jobs /\ job'[j] = next
           /\ \A k \in Jobs \ {j} : job'[k] = job[k]
  BY DEF Becomes, JobsInv

\* What the invariant says of a request, another's step leaves true: it touches
\* none of its rows.
Same(k) ==
    /\ JobShape(job'[k]) /\ job'[k].pc = job[k].pc /\ job'[k].kind = job[k].kind
    /\ job'[k].user = job[k].user /\ job'[k].session = job[k].session
    /\ job'[k].wide = job[k].wide /\ job'[k].todo = job[k].todo
    /\ job'[k].refs = job[k].refs /\ job'[k].struck = job[k].struck
    /\ job'[k].missed = job[k].missed

RowsOfStay(k) ==
    /\ \A r \in Row : lock[r] = k <=> lock'[r] = k
    /\ \A s \in AllSessions : Writer(s) = k => Now(s)' = Now(s) /\ Was(s)' = Was(s)

LEMMA JobKept ==
    ASSUME NEW k \in Jobs, JobInv(k), Same(k), RowsOfStay(k)
    PROVE  JobInv(k)'
<1> USE RowsAreRows DEF Same, RowsOfStay, Writer, Now, Was, WasLive, Owner, Keeper
<1> QED  BY DEF JobInv

(***************************************************************************)
(* Statements that leave the sessions, and who is gone, as they are        *)
(***************************************************************************)
QuietRows ==
    /\ db' = db
    /\ DOMAIN draft' = Row /\ lock' \in [Row -> Jobs \union {Nobody}]
    /\ \A s \in AllSessions : Now(s)' = Now(s)
    /\ \A u \in Accounts : UserShape(draft'[UserRow(u)]) /\ (IsGone(u)' <=> IsGone(u))
    /\ \A r \in Row : lock[r] \in Jobs => lock'[r] = lock[r]
    /\ \A r \in Row : lock'[r] = Nobody => draft'[r] = db'[r]

LEMMA QuietTables ==
    ASSUME Inv, QuietRows,
           \A k \in Jobs : job[k].refs \subseteq job'[k].refs \/ (\A r \in Row : lock[r] # k)
    PROVE  TablesInv' /\ FamiliesInv' /\ NewbornsInv' /\ DeletedInv'
<1> USE RowsAreRows
    DEF Was, Now, Writer, Owner, Family, WasThere, WasLive, IsThere, IsLive, WasGone, IsGone, Keeper
<1>1. Lasting'
  BY DEF QuietRows, Inv, TablesInv, Lasting
<1>2. TablesInv'
  BY <1>1 DEF QuietRows, Inv, TablesInv, Shaped
<1>3. FamiliesInv'
  BY DEF QuietRows, Inv, FamiliesInv
<1>4. NewbornsInv'
  <2> SUFFICES ASSUME NEW s \in AllSessions, IsLive(s)', ~WasLive(s)'
               PROVE  Newborn(s, Writer(s))'
    BY DEF NewbornsInv
  <2>1. IsLive(s) /\ ~WasLive(s)
    BY DEF QuietRows
  <2>2. Newborn(s, Writer(s)) /\ Owner(s) \in Accounts
    BY <2>1 DEF Inv, NewbornsInv, TablesInv, Lasting
  <2>3. PICK k \in Jobs : k = Writer(s)
    BY <2>2 DEF Newborn
  <2>4. Writer(s)' = k /\ job[k].refs \subseteq job'[k].refs
    BY <2>3 DEF QuietRows
  <2>5. UserRow(Owner(s)') \in job'[k].refs \/ Keeper(Owner(s))' = k
    BY <2>2, <2>3, <2>4 DEF Newborn, QuietRows
  <2>6. CASE \E p \in AllSessions : /\ WasLive(p) /\ Now(p).state = "rotated"
                                    /\ Family(p) = Family(s) /\ Writer(p) = k
    <3> PICK p \in AllSessions : /\ WasLive(p) /\ Now(p).state = "rotated"
                                 /\ Family(p) = Family(s) /\ Writer(p) = k
      BY <2>6
    <3>1. WasLive(p)' /\ Now(p)'.state = "rotated" /\ Family(p)' = Family(s)' /\ Writer(p)' = k
      BY DEF QuietRows
    <3> QED  BY <2>4, <2>5, <3>1 DEF Newborn
  <2>7. CASE \A t \in AllSessions : IsThere(t) /\ Family(t) = Family(s) => t = s
    BY <2>4, <2>5, <2>7 DEF Newborn, QuietRows
  <2> QED  BY <2>2, <2>3, <2>6, <2>7 DEF Newborn
<1>5. DeletedInv'
  <2>1. \A s \in AllSessions : IsThere(s) => Owner(s) \in Accounts
    BY DEF Inv, TablesInv, Lasting
  <2>2. \A s \in AllSessions : WasLive(s) => Owner(s) \in Accounts
    BY <2>1 DEF Inv, TablesInv, Lasting
  <2> QED  BY <2>1, <2>2 DEF QuietRows, Inv, DeletedInv
<1> QED  BY <1>2, <1>3, <1>4, <1>5

\* Where the others stand, who end sessions, is not disturbed.
LEMMA QuietEnding ==
    ASSUME Inv, QuietRows, NEW k \in Jobs, Same(k)
    PROVE  EndingOf(k)'
<1> USE RowsAreRows
    DEF Was, Now, Writer, Owner, Family, WasLive, IsLive, SomewhereLive
<1>1. EndingOf(k)
  BY DEF Inv, EndingInv
<1>2. \A s \in AllSessions : Over(k, s) => Over(k, s)'
  BY DEF Over, QuietRows
<1>3. \A f : Found(k, f) => Found(k, f)'
  BY DEF Found, QuietRows, Same
<1> QED  BY <1>1, <1>2, <1>3 DEF EndingOf, QuietRows, Same

LEMMA QuietStep ==
    ASSUME Inv, NEW j \in Jobs, job[j].pc \notin {"done", "commit"},
           QuietRows, \A r \in Row : lock'[r] = lock[r] \/ lock'[r] = j,
           NEW next, Becomes(j, next), ended' = ended, outlived' = outlived,
           \/ next.refs = job[j].refs /\ next.kind = job[j].kind
           \/ next.refs = {} /\ \A r \in Row : lock[r] # j,
           \A u \in Accounts : UserRow(u) \in Row /\ lock'[UserRow(u)] = j =>
              \/ lock[UserRow(u)] = j
              \/ next.kind \in {"status", "change"}
              \/ \A k \in Jobs \ {j} : UserRow(u) \notin job[k].refs,
           next.struck = job[j].struck \/ \A k \in Jobs : job[k].pc # "done" => k \notin next.struck,
           JobInv(j)', EndingOf(j)'
    PROVE  Inv'
<1> USE Names, RowsAreRows
<1>1. /\ DOMAIN job' = Jobs /\ job'[j] = next
      /\ \A k \in Jobs \ {j} : job'[k] = job[k]
  BY OtherJobs DEF Inv
<1>2. \A k \in Jobs \ {j} : Same(k)
  BY <1>1 DEF Same, Inv, JobsInv, JobInv
<1>3. \A k \in Jobs : job[k].refs \subseteq job'[k].refs \/ (\A r \in Row : lock[r] # k)
  BY <1>1
<1>4. TablesInv' /\ FamiliesInv' /\ NewbornsInv' /\ DeletedInv'
  BY <1>3, QuietTables
<1>5. \A k \in Jobs \ {j} : RowsOfStay(k)
  BY DEF RowsOfStay, QuietRows, Was
<1>6. JobsInv'
  BY <1>1, <1>2, <1>5, JobKept DEF Inv, JobsInv
<1>7. KeepersInv'
  <2>1. ASSUME NEW i \in Jobs, NEW k \in Jobs, NEW u \in Accounts,
               Keeper(u)' = i, i # k, UserRow(u) \in job'[k].refs
        PROVE  job'[i].kind \in {"status", "change"}
    <3>1. UserRow(u) \in job[k].refs
      BY <1>1, <2>1
    <3>2. CASE Keeper(u) = i
      <4>1. job[i].kind \in {"status", "change"}
        BY <2>1, <3>1, <3>2 DEF Inv, KeepersInv
      <4> QED  BY <1>1, <3>2, <4>1 DEF Keeper
    <3>3. CASE Keeper(u) # i
      <4>1. i = j
        BY <2>1, <3>3 DEF Keeper
      <4> QED  BY <1>1, <2>1, <3>1, <3>3, <4>1 DEF Keeper
    <3> QED  BY <3>2, <3>3
  <2>2. ASSUME NEW u \in Accounts, IsGone(u)' # WasGone(u)'
        PROVE  Keeper(u)' \in Jobs /\ job'[Keeper(u)'].kind \notin {"status", "change"}
    <3>1. IsGone(u) # WasGone(u)
      BY <2>2 DEF QuietRows, IsGone, WasGone
    <3>2. PICK i \in Jobs : i = Keeper(u) /\ job[i].kind \notin {"status", "change"}
      BY <3>1 DEF Inv, KeepersInv
    <3>3. Keeper(u)' = i
      BY <3>2 DEF QuietRows, Keeper
    <3>4. job'[i].kind = job[i].kind
      BY <1>1, <3>2 DEF Keeper
    <3> QED  BY <3>2, <3>3, <3>4
  <2> QED  BY <2>1, <2>2 DEF KeepersInv
<1>8. FreshInv'
  <2> SUFFICES ASSUME NEW i \in Jobs, job'[i].pc # "done"
               PROVE  /\ ~WasThere(i)'
                      /\ IsThere(i)' => Writer(i)' = i /\ job'[i].pc = "commit"
                      /\ \A t \in AllSessions : IsThere(t)' /\ Family(t)' = i => t = i
                      /\ i \notin ended'
                      /\ \A k \in Jobs : i \notin job'[k].struck
    BY DEF FreshInv
  <2>1. job[i].pc # "done"
    BY <1>1
  <2>2. /\ ~WasThere(i)
        /\ IsThere(i) => Writer(i) = i /\ job[i].pc = "commit"
        /\ \A t \in AllSessions : IsThere(t) /\ Family(t) = i => t = i
        /\ i \notin ended
        /\ \A k \in Jobs : i \notin job[k].struck
    BY <2>1 DEF Inv, FreshInv
  <2>3. ~WasThere(i)' /\ (IsThere(i)' <=> IsThere(i))
        /\ \A t \in AllSessions : (IsThere(t)' <=> IsThere(t)) /\ Family(t)' = Family(t)
    BY <2>2 DEF QuietRows, WasThere, IsThere, Family, Was, Now
  <2>4. IsThere(i) => i # j /\ Writer(i)' = i
    BY <2>2 DEF QuietRows, Writer
  <2>5. \A k \in Jobs : i \notin job'[k].struck
    BY <1>1, <2>1, <2>2
  <2> QED  BY <1>1, <2>2, <2>3, <2>4, <2>5
<1>9. EndingInv'
  <2>1. \A k \in Jobs : EndingOf(k)'
    BY <1>2, QuietEnding
  <2>2. \A s \in AllSessions : Family(s)' \in ended' \ outlived' => ~SomewhereLive(s)'
    BY DEF QuietRows, Inv, EndingInv, SomewhereLive, IsLive, WasLive, Family, Now, Was
  <2> QED  BY <2>1, <2>2 DEF EndingInv
<1> QED  BY <1>4, <1>6, <1>7, <1>8, <1>9 DEF Inv

\* A statement that only looks, or only asks.
LEMMA LookingStep ==
    ASSUME Inv, NEW j \in Jobs, job[j].pc \notin {"done", "commit"}, UNCHANGED tables,
           NEW next, Becomes(j, next), ended' = ended, outlived' = outlived,
           \/ next.refs = job[j].refs /\ next.kind = job[j].kind
           \/ next.refs = {} /\ \A r \in Row : lock[r] # j,
           next.struck = job[j].struck \/ \A k \in Jobs : job[k].pc # "done" => k \notin next.struck,
           JobInv(j)', EndingOf(j)'
    PROVE  Inv'
<1> USE Names, RowsAreRows
<1>1. QuietRows
  BY DEF tables, QuietRows, Inv, TablesInv, Shaped, Now, IsGone
<1> QED  BY <1>1, QuietStep DEF tables

\* A request that comes and locks nothing yet.
LEMMA Asking ==
    ASSUME Inv, NEW j \in Jobs, job[j].pc = "idle", UNCHANGED <<tables, history>>,
           NEW next, Becomes(j, next), JobShape(next),
           next.refs = {}, next.struck = {}, next.kind # "account",
           next.pc \in {"look", "start", "hunt"},
           next.pc = "look" => next.kind = "code",
           next.pc = "start" =>
             /\ next.kind \in {"verify", "google", "change"}
             /\ next.user \in Accounts \/ (next.user = None /\ next.kind # "change")
    PROVE  Inv'
<1> USE Names, RowsAreRows
<1>1. job'[j] = next
  BY OtherJobs DEF Inv
<1>2. \A r \in Row : lock[r] # j /\ lock'[r] # j
  BY DEF Inv, JobsInv, JobInv, tables
<1>3. \A s \in AllSessions : Writer(s)' # j
  BY <1>2 DEF Writer
<1>4. JobInv(j)'
  BY <1>1, <1>2, <1>3 DEF JobInv
<1>5. EndingOf(j)'
  BY <1>1 DEF EndingOf
<1> QED  BY <1>2, <1>4, <1>5, LookingStep DEF history

LEMMA RequestCodeKeeps ==
    ASSUME Inv, NEW j \in Jobs, RequestCode(j)
    PROVE  Inv'
<1> PICK a \in Addresses : Becomes(j, [Blank("look") EXCEPT !.kind = "code", !.address = a, !.made = clock])
  BY DEF RequestCode
<1> DEFINE next == [Blank("look") EXCEPT !.kind = "code", !.address = a, !.made = clock]
<1>1. /\ JobShape(next) /\ next.refs = {} /\ next.struck = {} /\ next.kind = "code" /\ next.pc = "look"
  BY DEF JobShape, Blank
<1>2. Becomes(j, next)
  OBVIOUS
<1> HIDE DEF next
<1> QED  BY <1>1, <1>2, Asking DEF RequestCode

LEMMA VerifyCodeKeeps ==
    ASSUME Inv, NEW j \in Jobs, VerifyCode(j)
    PROVE  Inv'
<1> PICK a \in Addresses, g \in AllCodes \union {None} :
      Becomes(j, [Blank("start") EXCEPT !.kind = "verify", !.address = a, !.key = a, !.guess = g, !.turn = 1])
  BY DEF VerifyCode, Guesses
<1> DEFINE next == [Blank("start") EXCEPT !.kind = "verify", !.address = a, !.key = a, !.guess = g, !.turn = 1]
<1>1. /\ JobShape(next) /\ next.refs = {} /\ next.struck = {}
      /\ next.kind = "verify" /\ next.pc = "start" /\ next.user = None
  BY DEF JobShape, Blank
<1>2. Becomes(j, next)
  OBVIOUS
<1> HIDE DEF next
<1> QED  BY <1>1, <1>2, Asking DEF VerifyCode

LEMMA GoogleKeeps ==
    ASSUME Inv, NEW j \in Jobs, Google(j)
    PROVE  Inv'
<1> PICK g \in Subjects :
      Becomes(j, [Blank("start") EXCEPT !.kind = "google", !.address = Mail[g], !.key = g, !.turn = 1])
  BY DEF Google
<1> DEFINE next == [Blank("start") EXCEPT !.kind = "google", !.address = Mail[g], !.key = g, !.turn = 1]
<1>1. /\ JobShape(next) /\ next.refs = {} /\ next.struck = {}
      /\ next.kind = "google" /\ next.pc = "start" /\ next.user = None
  BY DEF JobShape, Blank
<1>2. Becomes(j, next)
  OBVIOUS
<1> HIDE DEF next
<1> QED  BY <1>1, <1>2, Asking DEF Google

\* Who is signed in has an account.
LEMMA SignedInHasAccount ==
    ASSUME Inv, NEW s \in AllSessions, SignedIn(s)
    PROVE  db[SessionRow(s)].user \in Accounts
  BY DEF SignedIn, Inv, TablesInv, Lasting, WasThere, IsThere, Was, Now, Owner

LEMMA ChangeEmailKeeps ==
    ASSUME Inv, NEW j \in Jobs, ChangeEmail(j)
    PROVE  Inv'
<1> PICK s \in AllSessions, a \in Addresses, g \in AllCodes \union {None} :
      /\ SignedIn(s)
      /\ Becomes(j, [Blank("start") EXCEPT !.kind = "change", !.address = a, !.guess = g,
                                           !.user = db[SessionRow(s)].user])
  BY DEF ChangeEmail, Guesses
<1> DEFINE next == [Blank("start") EXCEPT !.kind = "change", !.address = a, !.guess = g,
                                          !.user = db[SessionRow(s)].user]
<1>1. /\ JobShape(next) /\ next.refs = {} /\ next.struck = {}
      /\ next.kind = "change" /\ next.pc = "start" /\ next.user = db[SessionRow(s)].user
  BY DEF JobShape, Blank
<1>2. Becomes(j, next)
  OBVIOUS
<1> HIDE DEF next
<1> QED  BY <1>1, <1>2, SignedInHasAccount, Asking DEF ChangeEmail

LEMMA LogoutKeeps ==
    ASSUME Inv, NEW j \in Jobs, Logout(j)
    PROVE  Inv'
<1> PICK s \in AllSessions, all \in BOOLEAN :
      Becomes(j, [Blank("hunt") EXCEPT !.kind = "logout", !.session = s, !.wide = all,
                                       !.user = db[SessionRow(s)].user])
  BY DEF Logout
<1> DEFINE next == [Blank("hunt") EXCEPT !.kind = "logout", !.session = s, !.wide = all,
                                         !.user = db[SessionRow(s)].user]
<1>1. /\ JobShape(next) /\ next.refs = {} /\ next.struck = {} /\ next.kind = "logout" /\ next.pc = "hunt"
  BY DEF JobShape, Blank
<1>2. Becomes(j, next)
  OBVIOUS
<1> HIDE DEF next
<1> QED  BY <1>1, <1>2, Asking DEF Logout

LEMMA LookForCodesKeeps ==
    ASSUME Inv, NEW j \in Jobs, LookForCodes(j)
    PROVE  Inv'
<1> USE Names, RowsAreRows
<1> PICK found : /\ found \subseteq CodeRows
                 /\ Becomes(j, [job[j] EXCEPT !.pc = "write", !.todo = found])
  BY DEF LookForCodes, CodeRows
<1> DEFINE next == [job[j] EXCEPT !.pc = "write", !.todo = found]
<1>1. JobShape(job[j]) /\ job[j].pc = "look" /\ UNCHANGED <<tables, history>>
  BY DEF LookForCodes, Inv, JobsInv, JobInv
<1>2. /\ JobShape(next) /\ next.pc = "write" /\ next.todo = found /\ next.kind = job[j].kind
      /\ next.user = job[j].user /\ next.wide = job[j].wide /\ next.refs = job[j].refs
      /\ next.struck = job[j].struck /\ next.missed = job[j].missed
  BY <1>1 DEF JobShape, Blank
<1>3. Becomes(j, next)
  OBVIOUS
<1> HIDE DEF next
<1>4. job'[j] = next
  BY <1>3, OtherJobs DEF Inv
<1>5. JobInv(j)'
  BY <1>1, <1>2, <1>4 DEF Inv, JobsInv, JobInv, Keeper, tables
<1>6. EndingOf(j)'
  <2>1. EndingOf(j) /\ \A s \in AllSessions : Over(j, s)' <=> Over(j, s)
    BY <1>1 DEF Inv, EndingInv, Over, IsLive, WasLive, Was, Now, Writer, tables
  <2>2. \A s \in AllSessions : Family(s)' = Family(s) /\ Owner(s)' = Owner(s)
    BY <1>1 DEF Family, Owner, Now, tables
  <2> QED  BY <1>1, <1>2, <1>4, <2>1, <2>2 DEF EndingOf
<1> QED  BY <1>1, <1>2, <1>3, <1>5, <1>6, LookingStep DEF history

LEMMA StartKeeps ==
    ASSUME Inv, NEW j \in Jobs, Start(j)
    PROVE  Inv'
<1> USE Names, RowsAreRows
<1> PICK c \in AllCodes \union {None}, u \in Accounts \union {None}, keyed \in BOOLEAN :
      /\ IF job[j].kind = "google" THEN c = None ELSE c \in AllCodes
      /\ job[j].kind = "change" => u = job[j].user
      /\ Becomes(j, [job[j] EXCEPT !.pc = IF c = None THEN "resolve" ELSE "take", !.code = c, !.user = u,
                                   !.keyed = keyed])
  BY DEF Start
<1> DEFINE next == [job[j] EXCEPT !.pc = IF c = None THEN "resolve" ELSE "take", !.code = c, !.user = u,
                                  !.keyed = keyed]
<1>1. JobInv(j) /\ JobShape(job[j]) /\ job[j].pc = "start" /\ UNCHANGED <<tables, history>>
  BY DEF Start, Inv, JobsInv, JobInv
<1>2. /\ JobShape(next) /\ next.pc = (IF c = None THEN "resolve" ELSE "take") /\ next.kind = job[j].kind
      /\ next.user = u /\ next.refs = job[j].refs /\ next.struck = job[j].struck
  BY <1>1 DEF JobShape, Blank
<1>3. Becomes(j, next)
  OBVIOUS
<1> HIDE DEF next
<1>4. job'[j] = next
  BY <1>3, OtherJobs DEF Inv
<1>5. None \notin AllCodes
  BY SignInAssumption DEF AllCodes
<1>6. JobInv(j)'
  BY <1>1, <1>2, <1>4, <1>5 DEF JobInv
<1>7. EndingOf(j)'
  BY <1>2, <1>4 DEF EndingOf
<1> QED  BY <1>1, <1>2, <1>3, <1>6, <1>7, LookingStep DEF history

LEMMA HuntKeeps ==
    ASSUME Inv, NEW j \in Jobs, Hunt(j)
    PROVE  Inv'
<1> USE Names, RowsAreRows
<1> DEFINE me == job[j]
           found == {s \in AllSessions : Concerned(j, s)}
           hit == {s \in found : me.kind = "account" \/ Sees(j, SessionRow(s)).state = "live"}
           next == [me EXCEPT !.pc = "strike", !.todo = {SessionRow(s) : s \in hit},
                              !.struck = {Sees(j, SessionRow(s)).family : s \in found}]
<1>1. JobInv(j) /\ JobShape(me) /\ me.pc = "hunt" /\ UNCHANGED <<tables, history>>
  BY DEF Hunt, Inv, JobsInv, JobInv
<1>2. /\ JobShape(next) /\ next.pc = "strike" /\ next.todo = {SessionRow(s) : s \in hit}
      /\ next.struck = {Sees(j, SessionRow(s)).family : s \in found}
      /\ next.kind = me.kind /\ next.user = me.user /\ next.wide = me.wide /\ next.refs = me.refs
  BY <1>1 DEF JobShape, Blank
<1>3. Becomes(j, next)
  BY DEF Hunt
<1>4. \A s \in AllSessions : Sees(j, SessionRow(s)) = Was(s)
  BY <1>1 DEF JobInv, Sees, Was, Now, Writer
<1>5. ASSUME NEW s \in AllSessions
      PROVE  /\ s \in found => WasThere(s) /\ IsThere(s) /\ Owner(s) = me.user /\ Was(s).family = Family(s)
             /\ WasThere(s) /\ Owner(s) = me.user /\ me.wide => s \in found
             /\ \A t \in found : WasThere(s) /\ Owner(s) = me.user /\ Family(s) = Family(t) => s \in found
  <2>1. WasThere(s) => IsThere(s) /\ Was(s).user = Owner(s) /\ Was(s).family = Family(s)
    BY DEF Inv, TablesInv, Lasting
  <2>2. s \in found => WasThere(s) /\ Was(s).user = me.user
    BY <1>4 DEF Concerned, WasThere
  <2>3. WasThere(s) /\ Was(s).user = me.user /\ me.wide => s \in found
    BY <1>4 DEF Concerned, WasThere
  <2>4. ASSUME NEW t \in found, WasThere(s), Owner(s) = me.user, Family(s) = Family(t)
        PROVE  s \in found
    <3>1. WasThere(t) /\ Was(t).family = Family(t)
      BY <1>4 DEF Concerned, WasThere, Inv, TablesInv, Lasting
    <3>2. Was(s).family = Was(t).family
      BY <2>1, <2>4, <3>1
    <3>3. me.wide \/ Was(t).family = Sees(j, SessionRow(me.session)).family
      BY <1>4 DEF Concerned
    <3> QED  BY <1>4, <2>1, <2>4, <3>2, <3>3 DEF Concerned, WasThere
  <2> QED  BY <2>1, <2>2, <2>3, <2>4
<1> HIDE DEF next, found
<1>6. job'[j] = next
  BY <1>3, OtherJobs DEF Inv
<1>7. JobInv(j)'
  BY <1>1, <1>2, <1>6 DEF JobInv, Keeper, tables, found
<1>8. \A f \in next.struck : \E t \in found : WasThere(t) /\ IsThere(t) /\ Owner(t) = me.user /\ Family(t) = f
  BY <1>2, <1>4, <1>5 DEF found
<1>9. \A k \in Jobs : job[k].pc # "done" => k \notin next.struck
  BY <1>8 DEF Inv, FreshInv, found
<1>10. \A s \in AllSessions : WasLive(s) => WasThere(s) /\ IsThere(s)
  BY DEF WasLive, WasThere, Inv, TablesInv, Lasting
<1>11. ASSUME me.kind # "account", NEW f \in next.struck, NEW s \in AllSessions,
              SomewhereLive(s), Family(s) = f
       PROVE  \/ SessionRow(s) \in next.todo
              \/ \E p \in AllSessions : /\ SessionRow(p) \in next.todo /\ Family(p) = f
                                        /\ Now(p).state = "rotated"
  <2>1. PICK t \in found : WasThere(t) /\ IsThere(t) /\ Owner(t) = me.user /\ Family(t) = f
    BY <1>8
  <2>2. t \in AllSessions
    BY DEF found
  <2>3. ASSUME NEW p \in AllSessions, WasLive(p), Family(p) = f
        PROVE  SessionRow(p) \in next.todo
    <3>1. Owner(p) = me.user
      BY <1>10, <2>1, <2>2, <2>3 DEF Inv, FamiliesInv
    <3>2. p \in found
      BY <1>5, <1>10, <2>1, <2>3, <3>1
    <3> QED  BY <1>2, <1>4, <2>3, <3>2 DEF WasLive
  <2>4. CASE WasLive(s)
    BY <1>11, <2>3, <2>4
  <2>5. CASE ~WasLive(s)
    <3>1. IsLive(s) /\ IsThere(s) /\ Newborn(s, Writer(s))
      BY <1>11, <2>5 DEF SomewhereLive, Inv, NewbornsInv, IsLive, IsThere
    <3>2. CASE \E p \in AllSessions : WasLive(p) /\ Now(p).state = "rotated" /\ Family(p) = Family(s)
      BY <1>11, <2>3, <3>2
    <3>3. CASE \A q \in AllSessions : IsThere(q) /\ Family(q) = Family(s) => q = s
      <4>1. WasThere(s)
        BY <1>11, <2>1, <2>2, <3>3
      <4> QED  BY <2>5, <3>1, <4>1 DEF Inv, TablesInv, Lasting
    <3> QED  BY <3>1, <3>2, <3>3 DEF Newborn
  <2> QED  BY <2>4, <2>5
<1>12. ASSUME me.kind = "account", NEW s \in AllSessions, SomewhereLive(s)
       PROVE  /\ Owner(s) = me.user => SessionRow(s) \in next.todo
              /\ Family(s) \in next.struck => Owner(s) = me.user
  <2>1. me.user \in Accounts /\ Keeper(me.user) = j /\ me.wide
    BY <1>1, <1>12 DEF JobInv
  <2>2. ASSUME Owner(s) = me.user PROVE SessionRow(s) \in next.todo
    <3>1. CASE WasLive(s)
      BY <1>2, <1>5, <1>10, <1>12, <2>1, <2>2, <3>1
    <3>2. CASE ~WasLive(s)
      <4>1. IsLive(s) /\ Newborn(s, Writer(s))
        BY <1>12, <3>2 DEF SomewhereLive, Inv, NewbornsInv
      <4>2. Writer(s) # j
        BY <1>1, <3>2, <4>1 DEF JobInv, IsLive, WasLive
      <4> QED  BY <1>12, <2>1, <2>2, <4>1, <4>2 DEF Newborn, Inv, KeepersInv
    <3> QED  BY <3>1, <3>2
  <2>3. ASSUME Family(s) \in next.struck PROVE Owner(s) = me.user
    <3>1. IsThere(s)
      BY <1>10, <1>12 DEF SomewhereLive, IsLive, IsThere
    <3> QED  BY <1>8, <2>3, <3>1 DEF Inv, FamiliesInv, found
  <2> QED  BY <2>2, <2>3
<1>13. EndingOf(j)'
  <2>1. \A s \in AllSessions : /\ SomewhereLive(s)' <=> SomewhereLive(s)
                               /\ Family(s)' = Family(s) /\ Owner(s)' = Owner(s)
                               /\ Now(s)' = Now(s)
    BY <1>1 DEF SomewhereLive, IsLive, WasLive, Family, Owner, Was, Now, tables
  <2>2. next.kind # "account" => \A f \in next.struck : Found(j, f)'
    BY <1>2, <1>6, <1>11, <2>1 DEF Found
  <2> QED  BY <1>2, <1>6, <1>12, <2>1, <2>2 DEF EndingOf
<1> QED  BY <1>1, <1>2, <1>3, <1>7, <1>9, <1>13, LookingStep DEF history

\* A write that is no session's, and makes nobody's account gone or back.
LEMMA QuietPut ==
    ASSUME Inv, NEW j \in Jobs, NEW R, NEW new, Put(j, R, new),
           \A s \in AllSessions : SessionRow(s) \in R => new[SessionRow(s)] = Now(s),
           \A u \in Accounts : UserRow(u) \in R =>
              /\ UserShape(new[UserRow(u)])
              /\ new[UserRow(u)].status = "inactive" <=> IsGone(u)
    PROVE  QuietRows /\ \A r \in Row : lock'[r] = lock[r] \/ lock'[r] = j
<1> USE Names, RowsAreRows
<1>1. db' = db /\ lock' \in [Row -> Jobs \union {Nobody}] /\ DOMAIN draft' = Row
  BY DEF Put, Inv, TablesInv
<1>2. \A s \in AllSessions : Now(s)' = Now(s)
  BY PutRows DEF Now
<1>3. \A u \in Accounts : UserShape(draft'[UserRow(u)]) /\ (IsGone(u)' <=> IsGone(u))
  BY PutRows DEF IsGone, Inv, TablesInv, Shaped
<1>4. \A r \in Row : lock[r] \in Jobs => lock'[r] = lock[r]
  BY PutRows
<1>5. \A r \in Row : lock'[r] = Nobody => draft'[r] = db'[r]
  BY PutRows DEF Inv, TablesInv
<1> QED  BY <1>1, <1>2, <1>3, <1>4, <1>5, PutRows DEF QuietRows

LEMMA ReplaceCodesKeeps ==
    ASSUME Inv, NEW j \in Jobs, ReplaceCodes(j)
    PROVE  Inv'
<1> USE Names, RowsAreRows
<1> DEFINE next == [job[j] EXCEPT !.pc = "commit", !.todo = {}]
           R == job[j].todo \union {CodeRow(j)}
<1>1. /\ JobInv(j) /\ JobShape(job[j]) /\ job[j].pc = "write" /\ job[j].kind = "code"
      /\ ended' = ended /\ outlived' = outlived
  BY DEF ReplaceCodes, Inv, JobsInv, JobInv, history
<1>2. /\ JobShape(next) /\ next.pc = "commit" /\ next.kind = "code" /\ next.refs = job[j].refs
      /\ next.struck = job[j].struck /\ next.struck = {}
  BY <1>1 DEF JobShape, Blank, JobInv
<1>3. Becomes(j, next)
  BY DEF ReplaceCodes
<1>4. \A r \in R : (\A s \in AllSessions : r # SessionRow(s)) /\ (\A u \in Accounts : r # UserRow(u))
  BY <1>1, RowsApart DEF JobInv
<1>5. PICK new : Put(j, R, new)
  BY DEF ReplaceCodes
<1> HIDE DEF next, R
<1>6. job'[j] = next
  BY <1>3, OtherJobs DEF Inv
<1>7. QuietRows /\ \A r \in Row : lock'[r] = lock[r] \/ lock'[r] = j
  BY <1>4, <1>5, QuietPut
<1>8. \A u \in Accounts : lock'[UserRow(u)] = j => lock[UserRow(u)] = j
  BY <1>4, <1>5, PutRows
<1>9. JobInv(j)'
  BY <1>2, <1>6 DEF JobInv
<1>10. EndingOf(j)'
  BY <1>2, <1>6 DEF EndingOf
<1> QED  BY <1>1, <1>2, <1>3, <1>7, <1>8, <1>9, <1>10, QuietStep

LEMMA TakeCodeKeeps ==
    ASSUME Inv, NEW j \in Jobs, TakeCode(j)
    PROVE  Inv'
<1> USE Names, RowsAreRows
<1> PICK right \in BOOLEAN :
      Becomes(j, [job[j] EXCEPT !.pc = AfterGuess(job[j], right)])
  BY DEF TakeCode, Goto
<1> DEFINE next == [job[j] EXCEPT !.pc = AfterGuess(job[j], right)]
           R == {CodeRow(job[j].code)}
<1>1. /\ JobInv(j) /\ JobShape(job[j]) /\ job[j].pc = "take"
      /\ ended' = ended /\ outlived' = outlived
  BY DEF TakeCode, Inv, JobsInv, JobInv, history
<1>2. /\ JobShape(next) /\ next.pc \in {"commit", "move", "resolve"}
      /\ next.kind = job[j].kind /\ next.refs = job[j].refs /\ next.user = job[j].user
      /\ next.struck = job[j].struck /\ next.struck = {}
      /\ next.pc = "move" => next.kind = "change"
      /\ next.pc = "resolve" => next.kind # "change"
  BY <1>1 DEF JobShape, Blank, JobInv, AfterGuess
<1>3. Becomes(j, next)
  OBVIOUS
<1>4. \A r \in R : (\A s \in AllSessions : r # SessionRow(s)) /\ (\A u \in Accounts : r # UserRow(u))
  BY RowsApart
<1>5. PICK new : Put(j, R, new)
  BY DEF TakeCode, Put1
<1> HIDE DEF next, R
<1>6. job'[j] = next
  BY <1>3, OtherJobs DEF Inv
<1>7. QuietRows /\ \A r \in Row : lock'[r] = lock[r] \/ lock'[r] = j
  BY <1>4, <1>5, QuietPut
<1>8. \A u \in Accounts : lock'[UserRow(u)] = j => lock[UserRow(u)] = j
  BY <1>4, <1>5, PutRows
<1>9. JobInv(j)'
  BY <1>1, <1>2, <1>6 DEF JobInv
<1>10. EndingOf(j)'
  BY <1>1, <1>2, <1>6 DEF EndingOf, JobInv
<1> QED  BY <1>1, <1>2, <1>3, <1>7, <1>8, <1>9, <1>10, QuietStep

LEMMA MoveAddressKeeps ==
    ASSUME Inv, NEW j \in Jobs, MoveAddress(j)
    PROVE  Inv'
<1> USE Names, RowsAreRows
<1> DEFINE me == job[j]
           u == UserRow(me.user)
           others == {KeyRow(a) : a \in {b \in Addresses \ {me.address} : db[KeyRow(b)] = me.user}}
           R == {u, KeyRow(me.address)} \union others
           new == [r \in R |->
                    CASE r = u -> [db[u] EXCEPT !.address = me.address]
                      [] r = KeyRow(me.address) -> me.user
                      [] OTHER -> None]
           next == [me EXCEPT !.pc = "commit"]
<1>1. /\ JobInv(j) /\ JobShape(me) /\ me.pc = "move" /\ me.kind = "change" /\ me.user \in Accounts
      /\ ended' = ended /\ outlived' = outlived
  BY DEF MoveAddress, Inv, JobsInv, JobInv, history
<1>2. /\ JobShape(next) /\ next.pc = "commit" /\ next.kind = "change" /\ next.refs = me.refs
      /\ next.struck = me.struck /\ next.struck = {}
  BY <1>1 DEF JobShape, Blank, JobInv
<1>3. Becomes(j, next) /\ Put(j, R, new)
  BY DEF MoveAddress, Goto
<1>0. \A r \in R : r = u \/ \E a : r = KeyRow(a)
  OBVIOUS
<1>4. \A s \in AllSessions : SessionRow(s) \notin R
  BY <1>0, RowsApart
<1>5. \A v \in Accounts : UserRow(v) \in R => v = me.user
  BY <1>0, RowsApart
<1>6. UserShape(new[u]) /\ (new[u].status = "inactive" <=> IsGone(me.user))
  <2>1. new[u] = [db[u] EXCEPT !.address = me.address] /\ UserShape(db[u])
    <3>1. u \in R
      OBVIOUS
    <3> HIDE DEF R
    <3>2. new[u] = [db[u] EXCEPT !.address = me.address]
      BY <3>1, RowsApart
    <3> QED  BY <1>1, <3>2 DEF Inv, TablesInv, Shaped
  <2>2. UserShape(new[u]) /\ new[u].status = db[u].status
    BY <2>1 DEF UserShape
  <2>3. lock[u] \in {Nobody, j}
    BY <1>1, <1>3, PutRows
  <2>4. lock[u] = Nobody => draft[u] = db[u]
    BY <1>1 DEF Inv, TablesInv
  <2>5. lock[u] = j => (IsGone(me.user) <=> WasGone(me.user))
    BY <1>1 DEF Inv, KeepersInv, Keeper
  <2> QED  BY <2>2, <2>3, <2>4, <2>5 DEF IsGone, WasGone
<1> HIDE DEF next, R, new
<1>7. job'[j] = next
  BY <1>3, OtherJobs DEF Inv
<1>8. QuietRows /\ \A r \in Row : lock'[r] = lock[r] \/ lock'[r] = j
  BY <1>3, <1>4, <1>5, <1>6, QuietPut
<1>9. JobInv(j)'
  BY <1>2, <1>7 DEF JobInv
<1>10. EndingOf(j)'
  BY <1>2, <1>7 DEF EndingOf
<1> QED  BY <1>1, <1>2, <1>3, <1>8, <1>9, <1>10, QuietStep

LEMMA RefreshKeeps ==
    ASSUME Inv, NEW j \in Jobs, Refresh(j)
    PROVE  Inv'
<1> USE Names, RowsAreRows
<1> PICK s \in AllSessions :
      /\ Put1(j, SessionRow(s), Was(s))
      /\ Becomes(j, [Blank(IF WasLive(s) THEN "rotate" ELSE "hunt")
                       EXCEPT !.kind = "refresh", !.session = s, !.user = Was(s).user])
  BY DEF Refresh, Was, WasLive
<1> DEFINE next == [Blank(IF WasLive(s) THEN "rotate" ELSE "hunt")
                      EXCEPT !.kind = "refresh", !.session = s, !.user = Was(s).user]
           R == {SessionRow(s)}
           new == [r \in R |-> Was(s)]
<1>1. job[j].pc = "idle" /\ ended' = ended /\ outlived' = outlived
  BY DEF Refresh, history
<1>2. /\ JobShape(next) /\ next.pc = (IF WasLive(s) THEN "rotate" ELSE "hunt") /\ next.kind = "refresh"
      /\ next.session = s /\ next.user = Was(s).user /\ next.refs = {} /\ next.struck = {}
  BY DEF JobShape, Blank
<1>3. Becomes(j, next) /\ Put(j, R, new)
  BY DEF Put1
<1>4. \A r \in Row : lock[r] # j
  BY <1>1 DEF Inv, JobsInv, JobInv
<1>5. lock[SessionRow(s)] = Nobody /\ Now(s) = Was(s)
  BY <1>3, <1>4, PutRows DEF Inv, TablesInv, Now, Was
<1>6. \A t \in AllSessions : SessionRow(t) \in R => t = s /\ new[SessionRow(t)] = Now(t)
  BY <1>5, RowsApart
<1>7. \A u \in Accounts : UserRow(u) \notin R
  BY RowsApart
<1>8. SessionRow(s) \in R
  OBVIOUS
<1> HIDE DEF next, R, new
<1>9. job'[j] = next
  BY <1>3, OtherJobs DEF Inv
<1>10. QuietRows /\ \A r \in Row : lock'[r] = lock[r] \/ lock'[r] = j
  BY <1>3, <1>6, <1>7, QuietPut
<1>11. \A u \in Accounts : lock'[UserRow(u)] # j
  BY <1>3, <1>4, <1>7, PutRows
<1>12. JobInv(j)'
  <2>1. Writer(s)' = j /\ \A t \in AllSessions : Writer(t)' = j => t = s
    BY <1>3, <1>4, <1>6, <1>8, PutRows DEF Writer
  <2>2. Now(s)' = Now(s) /\ Was(s)' = Was(s)
    BY <1>10 DEF QuietRows, Was
  <2>3. \A t \in AllSessions : Writer(t)' = j => Now(t)' = Was(t)'
    BY <1>5, <2>1, <2>2
  <2>4. WasLive(s)' <=> WasLive(s)
    BY <2>2 DEF WasLive
  <2>5. Owner(s)' = Was(s).user
    BY <1>5, <2>2 DEF Owner
  <2> QED  BY <1>2, <1>9, <2>1, <2>3, <2>4, <2>5 DEF JobInv
<1>13. EndingOf(j)'
  BY <1>2, <1>9 DEF EndingOf
<1> QED  BY <1>1, <1>2, <1>3, <1>4, <1>10, <1>11, <1>12, <1>13, QuietStep

LEMMA SetUserStatusKeeps ==
    ASSUME Inv, NEW j \in Jobs, SetUserStatus(j)
    PROVE  Inv'
<1> USE Names, RowsAreRows
<1> PICK u \in Accounts, status \in {"active", "suspended"} :
      /\ Undeleted(db[UserRow(u)])
      /\ Put1(j, UserRow(u), [db[UserRow(u)] EXCEPT !.status = status])
      /\ Becomes(j, [Blank(IF status = "suspended" THEN "hunt" ELSE "commit")
                       EXCEPT !.kind = "status", !.user = u, !.wide = TRUE])
  BY DEF SetUserStatus
<1> DEFINE next == [Blank(IF status = "suspended" THEN "hunt" ELSE "commit")
                      EXCEPT !.kind = "status", !.user = u, !.wide = TRUE]
           R == {UserRow(u)}
           new == [r \in R |-> [db[UserRow(u)] EXCEPT !.status = status]]
<1>1. job[j].pc = "idle" /\ ended' = ended /\ outlived' = outlived
  BY DEF SetUserStatus, history
<1>2. /\ JobShape(next) /\ next.pc \in {"hunt", "commit"} /\ next.kind = "status"
      /\ next.refs = {} /\ next.struck = {}
  BY DEF JobShape, Blank
<1>3. Becomes(j, next) /\ Put(j, R, new)
  BY DEF Put1
<1>4. \A r \in Row : lock[r] # j
  BY <1>1 DEF Inv, JobsInv, JobInv
<1>5. draft[UserRow(u)] = db[UserRow(u)] /\ UserShape(db[UserRow(u)])
  BY <1>3, <1>4, PutRows DEF Inv, TablesInv, Shaped
<1>6. UserShape(new[UserRow(u)]) /\ new[UserRow(u)].status # "inactive" /\ ~IsGone(u)
  BY <1>5 DEF UserShape, IsGone, Undeleted
<1>7. \A s \in AllSessions : SessionRow(s) \notin R
  BY RowsApart
<1>8. \A v \in Accounts : UserRow(v) \in R => v = u
  BY RowsApart
<1> HIDE DEF next, R, new
<1>9. job'[j] = next
  BY <1>3, OtherJobs DEF Inv
<1>10. QuietRows /\ \A r \in Row : lock'[r] = lock[r] \/ lock'[r] = j
  BY <1>3, <1>6, <1>7, <1>8, QuietPut
<1>11. \A t \in AllSessions : Writer(t)' # j
  BY <1>3, <1>4, <1>7, PutRows DEF Writer
<1>12. JobInv(j)'
  BY <1>2, <1>9, <1>11 DEF JobInv
<1>13. EndingOf(j)'
  BY <1>2, <1>9 DEF EndingOf
<1> QED  BY <1>1, <1>2, <1>3, <1>4, <1>10, <1>12, <1>13, QuietStep

LEMMA DeleteAccountKeeps ==
    ASSUME Inv, NEW j \in Jobs, DeleteAccount(j)
    PROVE  Inv'
<1> USE Names, RowsAreRows
<1> PICK u \in Accounts :
      /\ Firm(j, UserRow(u))
      /\ Put1(j, UserRow(u), db[UserRow(u)])
      /\ Becomes(j, [Blank("hunt") EXCEPT !.kind = "account", !.user = u, !.wide = TRUE,
                                          !.address = db[UserRow(u)].address])
  BY DEF DeleteAccount
<1> DEFINE a == db[UserRow(u)].address
           next == [Blank("hunt") EXCEPT !.kind = "account", !.user = u, !.wide = TRUE, !.address = a]
           R == {UserRow(u)}
           new == [r \in R |-> db[UserRow(u)]]
<1>1. job[j].pc = "idle" /\ ended' = ended /\ outlived' = outlived
  BY DEF DeleteAccount, history
<1>2. /\ JobShape(next) /\ next.pc = "hunt" /\ next.kind = "account" /\ next.user = u /\ next.wide
      /\ next.refs = {} /\ next.struck = {}
  BY DEF JobShape, Blank
<1>3. Becomes(j, next) /\ Put(j, R, new)
  BY DEF Put1
<1>4. \A r \in Row : lock[r] # j
  BY <1>1 DEF Inv, JobsInv, JobInv
<1>5. draft[UserRow(u)] = db[UserRow(u)] /\ UserShape(db[UserRow(u)])
  BY <1>3, <1>4, PutRows DEF Inv, TablesInv, Shaped
<1>6. UserShape(new[UserRow(u)]) /\ (new[UserRow(u)].status = "inactive" <=> IsGone(u))
  BY <1>5 DEF UserShape, IsGone
<1>7. \A s \in AllSessions : SessionRow(s) \notin R
  BY RowsApart
<1>8. UserRow(u) \in R /\ \A v \in Accounts : UserRow(v) \in R => v = u
  BY RowsApart
<1> HIDE DEF next, R, new
<1>9. job'[j] = next
  BY <1>3, OtherJobs DEF Inv
<1>10. QuietRows /\ \A r \in Row : lock'[r] = lock[r] \/ lock'[r] = j
  BY <1>3, <1>6, <1>7, <1>8, QuietPut
<1>11. /\ \A t \in AllSessions : Writer(t)' # j
       /\ Keeper(u)' = j /\ \A v \in Accounts : lock'[UserRow(v)] = j => v = u
  BY <1>3, <1>4, <1>7, <1>8, PutRows DEF Writer, Keeper
<1>12. JobInv(j)'
  BY <1>2, <1>9, <1>11 DEF JobInv
<1>13. EndingOf(j)'
  BY <1>2, <1>9 DEF EndingOf
<1>14. \A k \in Jobs \ {j} : UserRow(u) \notin job[k].refs
  BY DEF Firm
<1> QED  BY <1>1, <1>2, <1>3, <1>4, <1>10, <1>11, <1>12, <1>13, <1>14, QuietStep

(***************************************************************************)
(* Sessions made                                                           *)
(***************************************************************************)
\* What a committed session is, its newest version is of the same family.
LEMMA Committed ==
    ASSUME Inv, NEW s \in AllSessions
    PROVE  /\ WasLive(s) => WasThere(s)
           /\ IsLive(s) => IsThere(s)
           /\ WasThere(s) => IsThere(s) /\ Was(s).family = Family(s) /\ Was(s).user = Owner(s)
           /\ IsThere(s) => Owner(s) \in Accounts
           /\ WasThere(s) /\ IsLive(s) => WasLive(s)
           /\ Writer(s) \in Jobs \union {Nobody}
  BY RowsAreRows DEF Inv, TablesInv, Lasting, WasLive, WasThere, IsLive, IsThere, Writer

\* The others keep their places, whatever is written elsewhere.
LEMMA OthersStay ==
    ASSUME JobsInv, NEW j \in Jobs, JobInv(j)',
           DOMAIN job' = Jobs, \A k \in Jobs \ {j} : Same(k) /\ RowsOfStay(k)
    PROVE  JobsInv'
  BY JobKept DEF JobsInv

LEMMA RotateKeeps ==
    ASSUME Inv, NEW j \in Jobs, Rotate(j)
    PROVE  Inv'
<1> USE Names, RowsAreRows
<1> PICK p \in AllSessions : p = job[j].session
  BY DEF Rotate, Inv, JobsInv, JobInv
<1> DEFINE me == job[j]
           old == draft[SessionRow(p)]
           R == {SessionRow(p), SessionRow(j)}
           new == [r \in R |-> IF r = SessionRow(j) THEN LiveSession(old.user, old.family)
                               ELSE [old EXCEPT !.state = "rotated"]]
           next == [me EXCEPT !.pc = "commit", !.refs = {UserRow(me.user)}]
<1>1. /\ JobInv(j) /\ JobShape(me) /\ me.pc = "rotate" /\ ended' = ended /\ outlived' = outlived
      /\ Refer(j, UserRow(me.user)) /\ Put(j, R, new) /\ Becomes(j, next)
  BY DEF Rotate, Inv, JobsInv, JobInv, history
<1>2. /\ JobShape(next) /\ next.pc = "commit" /\ next.kind = me.kind /\ next.kind # "account"
      /\ next.refs = {UserRow(me.user)} /\ next.struck = {}
  BY <1>1 DEF JobShape, Blank, JobInv
<1>3. /\ Writer(p) = j /\ WasLive(p) /\ IsLive(p) /\ me.user = Owner(p)
      /\ WasThere(p) /\ IsThere(p)
  BY <1>1, Committed DEF JobInv, IsLive, WasLive
<1>4. ~WasThere(j) /\ ~IsThere(j) /\ ~WasLive(j) /\ ~IsLive(j) /\ p # j
  BY <1>1, <1>3, Committed DEF Inv, FreshInv
<1>5. /\ job'[j] = next /\ DOMAIN job' = Jobs
      /\ \A k \in Jobs \ {j} : job'[k] = job[k]
  BY <1>1, OtherJobs DEF Inv
<1>6. SessionShape(old)
  BY <1>3 DEF Inv, TablesInv, Shaped
<1>7. /\ new[SessionRow(j)] = LiveSession(Owner(p), Family(p))
      /\ new[SessionRow(p)] = [Now(p) EXCEPT !.state = "rotated"]
  BY <1>4, RowsApart DEF Owner, Family, Now
<1>8. \A s \in AllSessions : SessionRow(s) \in R <=> s \in {p, j}
  BY RowsApart
<1>9. \A u \in Accounts : UserRow(u) \notin R
  BY RowsApart
<1>10. \A r \in R : \E s \in {p, j} : r = SessionRow(s)
  OBVIOUS
<1> HIDE DEF me, next, R, new, old
<1> USE DEF Was, Now, Writer, Owner, Family, WasThere, WasLive, IsThere, IsLive, WasGone, IsGone, Keeper
<1>11. db' = db /\ DOMAIN draft' = Row /\ lock' \in [Row -> Jobs \union {Nobody}]
  BY <1>1, PutRows DEF Put, Inv, TablesInv
<1>12. /\ Now(p)' = [Now(p) EXCEPT !.state = "rotated"] /\ Writer(p)' = j
       /\ Now(j)' = LiveSession(Owner(p), Family(p)) /\ Writer(j)' = j /\ Writer(j) \in {Nobody, j}
  BY <1>1, <1>3, <1>7, <1>8, PutRows
<1>13. \A s \in AllSessions \ {p, j} : Now(s)' = Now(s) /\ Writer(s)' = Writer(s)
  BY <1>1, <1>8, PutRows
<1>14. \A u \in Accounts : draft'[UserRow(u)] = draft[UserRow(u)] /\ Keeper(u)' = Keeper(u)
  BY <1>1, <1>9, PutRows
<1>15. \A s \in AllSessions : Was(s)' = Was(s) /\ (WasLive(s)' <=> WasLive(s)) /\ (WasThere(s)' <=> WasThere(s))
  BY <1>11
<1>16. \A u \in Accounts : (IsGone(u)' <=> IsGone(u)) /\ (WasGone(u)' <=> WasGone(u))
  BY <1>11, <1>14
<1>17. /\ SessionShape(Now(p)') /\ Now(p)'.state = "rotated"
       /\ Owner(p)' = Owner(p) /\ Family(p)' = Family(p)
       /\ SessionShape(Now(j)') /\ Now(j)'.state = "live"
       /\ Owner(j)' = Owner(p) /\ Family(j)' = Family(p)
  BY <1>6, <1>12 DEF SessionShape, LiveSession, old
<1>18. \A s \in AllSessions : /\ IsLive(s)' <=> s = j \/ (s # p /\ IsLive(s))
                              /\ IsThere(s)' <=> s = j \/ IsThere(s)
                              /\ s # j => Owner(s)' = Owner(s) /\ Family(s)' = Family(s)
                              /\ Now(s)'.state = "rotated" <=> s = p \/ (s # j /\ Now(s).state = "rotated")
  BY <1>3, <1>4, <1>13, <1>17
<1>20. TablesInv'
  <2>1. Lasting'
    BY <1>3, <1>4, <1>15, <1>17, <1>18, Committed DEF Lasting, Inv, TablesInv
  <2>2. Shaped(draft')
    BY <1>11, <1>13, <1>14, <1>17 DEF Shaped, Inv, TablesInv
  <2>3. \A r \in Row : lock'[r] = Nobody => draft'[r] = db'[r]
    BY <1>1, <1>11, PutRows DEF Inv, TablesInv
  <2> QED  BY <1>11, <2>1, <2>2, <2>3 DEF TablesInv, Inv
<1> USE <1>3, <1>4, <1>12, <1>13, <1>14, <1>15, <1>16, <1>17, <1>18
<1> HIDE DEF Was, Now, Writer, Owner, Family, WasThere, WasLive, IsThere, IsLive, WasGone, IsGone, Keeper
<1>21. FamiliesInv'
  BY Committed DEF FamiliesInv, Inv
<1>22. NewbornsInv'
  <2>1. Newborn(j, j)'
    BY <1>2, <1>5 DEF Newborn, me
  <2>2. ASSUME NEW s \in AllSessions, s # j, IsLive(s)', ~WasLive(s)'
        PROVE  Newborn(s, Writer(s))'
    <3>1. Newborn(s, Writer(s)) /\ s # p /\ IsThere(s) /\ Owner(s) \in Accounts
      BY <2>2, Committed DEF Inv, NewbornsInv
    <3>2. Writer(s) \in Jobs /\ Writer(s) # j
      BY <1>1, <2>2, <3>1 DEF Newborn, JobInv, IsLive, WasLive, me
    <3>3. UserRow(Owner(s)') \in job'[Writer(s)].refs \/ Keeper(Owner(s))' = Writer(s)
      BY <1>5, <2>2, <3>1, <3>2 DEF Newborn, Keeper
    <3>4. \/ \E q \in AllSessions : /\ WasLive(q)' /\ Now(q)'.state = "rotated"
                                    /\ Family(q)' = Family(s)' /\ Writer(q)' = Writer(s)
          \/ \A t \in AllSessions : IsThere(t)' /\ Family(t)' = Family(s)' => t = s
      BY <2>2, <3>1, <3>2, Committed DEF Newborn
    <3> QED  BY <2>2, <3>1, <3>2, <3>3, <3>4 DEF Newborn
  <2> QED  BY <2>1, <2>2 DEF NewbornsInv
<1>23. KeepersInv'
  <2>1. ASSUME NEW i \in Jobs, NEW k \in Jobs, NEW u \in Accounts,
               Keeper(u)' = i, i # k, UserRow(u) \in job'[k].refs
        PROVE  job'[i].kind \in {"status", "change"}
    <3>1. CASE k = j
      BY <1>1, <1>2, <1>5, <2>1, <3>1, RowsApart DEF Refer, Keeper, me
    <3>2. CASE k # j
      BY <1>2, <1>5, <2>1, <3>2 DEF Inv, KeepersInv, me
    <3> QED  BY <3>1, <3>2
  <2>2. ASSUME NEW u \in Accounts, IsGone(u)' # WasGone(u)'
        PROVE  Keeper(u)' \in Jobs /\ job'[Keeper(u)'].kind \notin {"status", "change"}
    <3>1. PICK i \in Jobs : Keeper(u) = i /\ job[i].kind \notin {"status", "change"}
      BY <2>2 DEF Inv, KeepersInv, IsGone, WasGone
    <3>2. job'[i].kind = job[i].kind
      BY <1>2, <1>5 DEF me
    <3> QED  BY <3>1, <3>2
  <2> QED  BY <2>1, <2>2 DEF KeepersInv
<1>24. DeletedInv'
  BY Committed DEF Inv, DeletedInv
<1>25. FreshInv'
  BY <1>1, <1>2, <1>5, Committed DEF Inv, FreshInv, me
<1>26. JobsInv'
  <2>1. JobInv(j)'
    BY <1>2, <1>5 DEF JobInv
  <2>2. \A k \in Jobs \ {j} : Same(k)
    BY <1>5 DEF Same, Inv, JobsInv, JobInv
  <2>3. \A k \in Jobs \ {j} : RowsOfStay(k)
    BY <1>1, PutRows DEF RowsOfStay, Writer
  <2> QED  BY <1>5, <2>1, <2>2, <2>3, OthersStay DEF Inv
<1>27. EndingInv'
  <2>1. EndingOf(j)'
    BY <1>2, <1>5 DEF EndingOf
  <2>2. ASSUME NEW k \in Jobs \ {j}
        PROVE  EndingOf(k)'
    <3>1. EndingOf(k) /\ JobInv(k) /\ job'[k] = job[k]
      BY <1>5 DEF Inv, EndingInv, JobsInv
    <3>2. job[k].kind = "account" => job[k].user # Owner(p)
      <4>1. Owner(p) \in Accounts
        BY Committed
      <4> QED  BY <1>1, <3>1, <4>1 DEF Refer, JobInv, Keeper, me
    <3>3. ASSUME NEW f, Found(k, f) PROVE Found(k, f)'
      <4> SUFFICES ASSUME NEW s \in AllSessions, SomewhereLive(s)', Family(s)' = f
                   PROVE  \/ SessionRow(s) \in job[k].todo
                          \/ \E q \in AllSessions : /\ SessionRow(q) \in job[k].todo /\ Family(q)' = f
                                                    /\ Now(q)'.state = "rotated"
        BY <3>1 DEF Found
      <4>1. PICK t \in AllSessions : SomewhereLive(t) /\ Family(t) = f /\ (t = s \/ t = p)
        BY DEF SomewhereLive
      <4>2. CASE SessionRow(t) \in job[k].todo
        BY <4>1, <4>2
      <4>3. CASE \E q \in AllSessions : /\ SessionRow(q) \in job[k].todo /\ Family(q) = f
                                        /\ Now(q).state = "rotated"
        <5> PICK q \in AllSessions : /\ SessionRow(q) \in job[k].todo /\ Family(q) = f
                                     /\ Now(q).state = "rotated"
          BY <4>3
        <5>1. q # j
          BY DEF IsThere
        <5> QED  BY <5>1
      <4> QED  BY <3>3, <4>1, <4>2, <4>3 DEF Found
    <3>4. \A s \in AllSessions : Over(k, s) => s # p /\ (s # j => Over(k, s)')
      BY DEF Over
    <3> QED  BY <3>1, <3>2, <3>3, <3>4, Committed DEF EndingOf, SomewhereLive
  <2>3. \A s \in AllSessions : Family(s)' \in ended' \ outlived' => ~SomewhereLive(s)'
    BY <1>1 DEF Inv, EndingInv, SomewhereLive
  <2> QED  BY <2>1, <2>2, <2>3 DEF EndingInv
<1> QED  BY <1>20, <1>21, <1>22, <1>23, <1>24, <1>25, <1>26, <1>27 DEF Inv

LEMMA ResolveKeeps ==
    ASSUME Inv, NEW j \in Jobs, Resolve(j)
    PROVE  Inv'
<1> USE Names, RowsAreRows
<1> PICK u \in Accounts : u = IF job[j].user = None THEN j ELSE job[j].user
  BY DEF Resolve, Inv, JobsInv, JobInv
<1> DEFINE me == job[j]
           old == db[UserRow(u)]
           R == {UserRow(u), SessionRow(j)} \union (IF me.keyed THEN {} ELSE {KeyRow(me.key)})
           new == [r \in R |->
                    CASE r = UserRow(u) ->
                           IF old.status = "active" THEN old
                           ELSE [status |-> "active", address |-> me.address]
                      [] r = SessionRow(j) -> LiveSession(u, j)
                      [] OTHER -> u]
           next == [me EXCEPT !.pc = "commit"]
<1>1. /\ JobInv(j) /\ JobShape(me) /\ me.pc = "resolve" /\ ended' = ended /\ outlived' = outlived
      /\ Firm(j, UserRow(u)) /\ Put(j, R, new) /\ Becomes(j, next)
  BY DEF Resolve, Goto, Inv, JobsInv, JobInv, history
<1>2. /\ JobShape(next) /\ next.pc = "commit" /\ next.kind = me.kind
      /\ next.kind \in {"verify", "google"} /\ next.refs = me.refs /\ next.struck = {}
  BY <1>1 DEF JobShape, Blank, JobInv
<1>3. ~WasThere(j) /\ ~IsThere(j) /\ ~WasLive(j) /\ ~IsLive(j)
  BY <1>1, Committed DEF Inv, FreshInv
<1>4. /\ \A t \in AllSessions : IsThere(t) => Family(t) # j
      /\ j \notin ended /\ \A k \in Jobs : j \notin job[k].struck
  BY <1>1, <1>3 DEF Inv, FreshInv
<1>5. /\ job'[j] = next /\ DOMAIN job' = Jobs
      /\ \A k \in Jobs \ {j} : job'[k] = job[k]
  BY <1>1, OtherJobs DEF Inv
<1>6. UserShape(old)
  BY DEF Inv, TablesInv, Shaped
<1>7. /\ new[SessionRow(j)] = LiveSession(u, j)
      /\ UserShape(new[UserRow(u)]) /\ new[UserRow(u)].status = "active"
  <2>1. UserRow(u) \in R /\ SessionRow(j) \in R /\ UserRow(u) # SessionRow(j)
    BY RowsApart
  <2> HIDE DEF R
  <2>2. new[SessionRow(j)] = LiveSession(u, j)
    BY <2>1
  <2>3. new[UserRow(u)] = IF old.status = "active" THEN old
                          ELSE [status |-> "active", address |-> me.address]
    BY <2>1
  <2>4. CASE old.status = "active"
    BY <1>6, <2>2, <2>3, <2>4
  <2>5. CASE old.status # "active"
    BY <2>2, <2>3, <2>5 DEF UserShape
  <2> QED  BY <2>4, <2>5
<1>8. \A s \in AllSessions : SessionRow(s) \in R <=> s = j
  BY RowsApart
<1>9. \A v \in Accounts : UserRow(v) \in R <=> v = u
  BY RowsApart
<1> HIDE DEF me, next, R, new, old
<1> USE DEF Was, Now, Writer, Owner, Family, WasThere, WasLive, IsThere, IsLive, WasGone, IsGone, Keeper
<1>11. db' = db /\ DOMAIN draft' = Row /\ lock' \in [Row -> Jobs \union {Nobody}]
  BY <1>1, PutRows DEF Put, Inv, TablesInv
<1>12. Now(j)' = LiveSession(u, j) /\ Writer(j)' = j
  BY <1>1, <1>7, <1>8, PutRows
<1>13. \A s \in AllSessions \ {j} : Now(s)' = Now(s) /\ Writer(s)' = Writer(s)
  BY <1>1, <1>8, PutRows
<1>14. /\ UserShape(draft'[UserRow(u)]) /\ draft'[UserRow(u)].status = "active"
       /\ Keeper(u)' = j /\ Keeper(u) \in {Nobody, j}
       /\ \A v \in Accounts \ {u} : draft'[UserRow(v)] = draft[UserRow(v)] /\ Keeper(v)' = Keeper(v)
  BY <1>1, <1>7, <1>9, PutRows
<1>15. \A s \in AllSessions : Was(s)' = Was(s) /\ (WasLive(s)' <=> WasLive(s)) /\ (WasThere(s)' <=> WasThere(s))
  BY <1>11
<1>16. /\ ~IsGone(u)'
       /\ \A v \in Accounts \ {u} : IsGone(v)' <=> IsGone(v)
       /\ \A v \in Accounts : WasGone(v)' <=> WasGone(v)
  BY <1>11, <1>14
<1>17. /\ SessionShape(Now(j)') /\ Now(j)'.state = "live"
       /\ Owner(j)' = u /\ Family(j)' = j
  BY <1>12 DEF SessionShape, LiveSession
<1>18. \A s \in AllSessions : /\ IsLive(s)' <=> s = j \/ IsLive(s)
                              /\ IsThere(s)' <=> s = j \/ IsThere(s)
                              /\ s # j => Owner(s)' = Owner(s) /\ Family(s)' = Family(s)
                              /\ Now(s)'.state = "rotated" <=> s # j /\ Now(s).state = "rotated"
  BY <1>3, <1>13, <1>17
<1>20. TablesInv'
  <2>1. Lasting'
    BY <1>3, <1>4, <1>15, <1>17, <1>18, Committed DEF Lasting, Inv, TablesInv
  <2>2. Shaped(draft')
    BY <1>11, <1>13, <1>14, <1>17 DEF Shaped, Inv, TablesInv
  <2>3. \A r \in Row : lock'[r] = Nobody => draft'[r] = db'[r]
    BY <1>1, <1>11, PutRows DEF Inv, TablesInv
  <2> QED  BY <1>11, <2>1, <2>2, <2>3 DEF TablesInv, Inv
<1> USE <1>3, <1>4, <1>12, <1>13, <1>14, <1>15, <1>16, <1>17, <1>18
<1> HIDE DEF Was, Now, Writer, Owner, Family, WasThere, WasLive, IsThere, IsLive, WasGone, IsGone, Keeper
<1>21. FamiliesInv'
  BY Committed DEF FamiliesInv, Inv
<1>22. NewbornsInv'
  <2>1. Newborn(j, j)'
    BY <1>2, <1>5 DEF Newborn
  <2>2. ASSUME NEW s \in AllSessions, s # j, IsLive(s)', ~WasLive(s)'
        PROVE  Newborn(s, Writer(s))'
    <3>1. Newborn(s, Writer(s)) /\ Writer(s) \in Jobs /\ IsThere(s) /\ Owner(s) \in Accounts
      BY <2>2, Committed DEF Inv, NewbornsInv, Newborn
    <3>2. job'[Writer(s)].refs = job[Writer(s)].refs
      BY <1>2, <1>5, <3>1 DEF me
    <3>3. UserRow(Owner(s)') \in job'[Writer(s)].refs \/ Keeper(Owner(s))' = Writer(s)
      <4>1. Keeper(Owner(s)) = Writer(s) => Keeper(Owner(s))' = Writer(s)
        BY <2>2, <3>1 DEF Keeper
      <4> QED  BY <2>2, <3>1, <3>2, <4>1 DEF Newborn
    <3>4. \/ \E q \in AllSessions : /\ WasLive(q)' /\ Now(q)'.state = "rotated"
                                    /\ Family(q)' = Family(s)' /\ Writer(q)' = Writer(s)
          \/ \A t \in AllSessions : IsThere(t)' /\ Family(t)' = Family(s)' => t = s
      BY <2>2, <3>1, Committed DEF Newborn
    <3> QED  BY <2>2, <3>1, <3>3, <3>4 DEF Newborn
  <2> QED  BY <2>1, <2>2 DEF NewbornsInv
<1>23. KeepersInv'
  <2>1. ASSUME NEW i \in Jobs, NEW k \in Jobs, NEW v \in Accounts,
               Keeper(v)' = i, i # k, UserRow(v) \in job'[k].refs
        PROVE  job'[i].kind \in {"status", "change"}
    <3>1. job'[k].refs = job[k].refs /\ job'[i].kind = job[i].kind
      BY <1>2, <1>5 DEF me
    <3>2. CASE v = u
      BY <1>1, <2>1, <3>1, <3>2 DEF Firm
    <3>3. CASE v # u
      BY <2>1, <3>1, <3>3 DEF Inv, KeepersInv
    <3> QED  BY <3>2, <3>3
  <2>2. ASSUME NEW v \in Accounts, IsGone(v)' # WasGone(v)'
        PROVE  Keeper(v)' \in Jobs /\ job'[Keeper(v)'].kind \notin {"status", "change"}
    <3>1. CASE v = u
      BY <1>2, <1>5, <3>1
    <3>2. CASE v # u
      <4>1. PICK i \in Jobs : Keeper(v) = i /\ job[i].kind \notin {"status", "change"}
        BY <2>2, <3>2 DEF Inv, KeepersInv, IsGone, WasGone
      <4>2. job'[i].kind = job[i].kind
        BY <1>2, <1>5 DEF me
      <4> QED  BY <3>2, <4>1, <4>2
    <3> QED  BY <3>1, <3>2
  <2> QED  BY <2>1, <2>2 DEF KeepersInv
<1>24. DeletedInv'
  BY Committed DEF Inv, DeletedInv
<1>25. FreshInv'
  BY <1>1, <1>2, <1>5, Committed DEF Inv, FreshInv, me
<1>26. JobsInv'
  <2>1. JobInv(j)'
    BY <1>2, <1>5 DEF JobInv
  <2>2. \A k \in Jobs \ {j} : Same(k)
    BY <1>5 DEF Same, Inv, JobsInv, JobInv
  <2>3. \A k \in Jobs \ {j} : RowsOfStay(k)
    BY <1>1, PutRows DEF RowsOfStay, Writer
  <2> QED  BY <1>5, <2>1, <2>2, <2>3, OthersStay DEF Inv
<1>27. EndingInv'
  <2>1. EndingOf(j)'
    BY <1>2, <1>5 DEF EndingOf
  <2>2. ASSUME NEW k \in Jobs \ {j}
        PROVE  EndingOf(k)'
    <3>1. EndingOf(k) /\ JobInv(k) /\ job'[k] = job[k]
      BY <1>5 DEF Inv, EndingInv, JobsInv
    <3>2. job[k].kind = "account" => job[k].user # u
      BY <3>1 DEF JobInv
    <3>3. ASSUME NEW f \in job[k].struck, Found(k, f) PROVE Found(k, f)'
      <4> SUFFICES ASSUME NEW s \in AllSessions, SomewhereLive(s)', Family(s)' = f
                   PROVE  \/ SessionRow(s) \in job[k].todo
                          \/ \E q \in AllSessions : /\ SessionRow(q) \in job[k].todo /\ Family(q)' = f
                                                    /\ Now(q)'.state = "rotated"
        BY <3>1 DEF Found
      <4>1. SomewhereLive(s) /\ Family(s) = f
        BY DEF SomewhereLive
      <4>2. CASE SessionRow(s) \in job[k].todo
        BY <4>2
      <4>3. CASE \E q \in AllSessions : /\ SessionRow(q) \in job[k].todo /\ Family(q) = f
                                        /\ Now(q).state = "rotated"
        <5> PICK q \in AllSessions : /\ SessionRow(q) \in job[k].todo /\ Family(q) = f
                                     /\ Now(q).state = "rotated"
          BY <4>3
        <5>1. q # j
          BY DEF IsThere
        <5> QED  BY <5>1
      <4> QED  BY <3>3, <4>1, <4>2, <4>3 DEF Found
    <3>4. \A s \in AllSessions \ {j} : Over(k, s) => Over(k, s)'
      BY DEF Over
    <3> QED  BY <3>1, <3>2, <3>3, <3>4, Committed DEF EndingOf, SomewhereLive
  <2>3. \A s \in AllSessions : Family(s)' \in ended' \ outlived' => ~SomewhereLive(s)'
    BY <1>1 DEF Inv, EndingInv, SomewhereLive
  <2> QED  BY <2>1, <2>2, <2>3 DEF EndingInv
<1> QED  BY <1>20, <1>21, <1>22, <1>23, <1>24, <1>25, <1>26, <1>27 DEF Inv

(***************************************************************************)
(* Sessions ended                                                          *)
(***************************************************************************)
LEMMA Revoked ==
    ASSUME NEW x, SessionShape(x)
    PROVE  LET y == [x EXCEPT !.state = IF @ = "live" THEN "revoked" ELSE @]
           IN  /\ SessionShape(y) /\ y.state = IF x.state = "live" THEN "revoked" ELSE x.state
               /\ y.user = x.user /\ y.family = x.family
  BY DEF SessionShape

LEMMA StrikeKeeps ==
    ASSUME Inv, NEW j \in Jobs, Strike(j)
    PROVE  Inv'
<1> USE Names, RowsAreRows
<1> DEFINE me == job[j]
           lost == {draft[r].family : r \in {q \in me.todo : draft[q].state = "rotated"}}
           new == [r \in me.todo |-> [draft[r] EXCEPT !.state = IF @ = "live" THEN "revoked" ELSE @]]
           next == [me EXCEPT !.pc = IF me.kind = "account" THEN "look" ELSE "commit",
                              !.todo = {}, !.missed = IF me.kind = "account" THEN {} ELSE lost]
<1> PICK R : R = me.todo
  OBVIOUS
<1>1. /\ JobInv(j) /\ JobShape(me) /\ me.pc = "strike" /\ ended' = ended /\ outlived' = outlived
      /\ Put(j, R, new) /\ Becomes(j, next) /\ R \subseteq SessionRows
  BY DEF Strike, Inv, JobsInv, JobInv, history
<1>2. /\ JobShape(next) /\ next.pc = (IF me.kind = "account" THEN "look" ELSE "commit")
      /\ next.kind = me.kind /\ next.user = me.user /\ next.wide = me.wide
      /\ next.refs = me.refs /\ next.struck = me.struck
      /\ next.missed = (IF me.kind = "account" THEN {} ELSE lost)
  BY <1>1 DEF JobShape, Blank
<1>5. /\ job'[j] = next /\ DOMAIN job' = Jobs
      /\ \A k \in Jobs \ {j} : job'[k] = job[k]
  BY <1>1, OtherJobs DEF Inv
<1>6. \A s \in AllSessions : SessionRow(s) \in R =>
        /\ SessionShape(Now(s))
        /\ new[SessionRow(s)] = [Now(s) EXCEPT !.state = IF @ = "live" THEN "revoked" ELSE @]
  BY DEF Now, Inv, TablesInv, Shaped
<1>7. \A s \in AllSessions : SessionRow(s) \in R /\ Now(s).state = "rotated" => Family(s) \in lost
  BY DEF Now, Family
<1>8. \A u \in Accounts : UserRow(u) \notin R
  BY <1>1, RowsApart DEF SessionRows
<1> HIDE DEF me, next, new, lost
<1> USE DEF Was, Now, Writer, Owner, Family, WasThere, WasLive, IsThere, IsLive, WasGone, IsGone, Keeper
<1>11. db' = db /\ DOMAIN draft' = Row /\ lock' \in [Row -> Jobs \union {Nobody}]
  BY <1>1, PutRows DEF Put, Inv, TablesInv
<1>12. \A s \in AllSessions : SessionRow(s) \in R =>
         /\ Now(s)' = [Now(s) EXCEPT !.state = IF @ = "live" THEN "revoked" ELSE @]
         /\ Writer(s) \in {Nobody, j} /\ Writer(s)' = j
  BY <1>1, <1>6, PutRows
<1>13. \A s \in AllSessions : SessionRow(s) \notin R => Now(s)' = Now(s) /\ Writer(s)' = Writer(s)
  BY <1>1, PutRows
<1>14. \A v \in Accounts : draft'[UserRow(v)] = draft[UserRow(v)] /\ Keeper(v)' = Keeper(v)
  BY <1>1, <1>8, PutRows
<1>15. \A s \in AllSessions : Was(s)' = Was(s) /\ (WasLive(s)' <=> WasLive(s)) /\ (WasThere(s)' <=> WasThere(s))
  BY <1>11
<1>16. \A v \in Accounts : (IsGone(v)' <=> IsGone(v)) /\ (WasGone(v)' <=> WasGone(v))
  BY <1>11, <1>14
<1>17. \A s \in AllSessions : SessionRow(s) \in R =>
         /\ SessionShape(Now(s)')
         /\ Now(s)'.state = IF IsLive(s) THEN "revoked" ELSE Now(s).state
         /\ Owner(s)' = Owner(s) /\ Family(s)' = Family(s)
  <2> SUFFICES ASSUME NEW s \in AllSessions, SessionRow(s) \in R
               PROVE  /\ SessionShape(Now(s)')
                      /\ Now(s)'.state = IF IsLive(s) THEN "revoked" ELSE Now(s).state
                      /\ Owner(s)' = Owner(s) /\ Family(s)' = Family(s)
    OBVIOUS
  <2> DEFINE x == Now(s)
             y == [x EXCEPT !.state = IF @ = "live" THEN "revoked" ELSE @]
  <2>1. SessionShape(x) /\ Now(s)' = y
    BY <1>6, <1>12
  <2>2. /\ SessionShape(y) /\ y.state = IF x.state = "live" THEN "revoked" ELSE x.state
        /\ y.user = x.user /\ y.family = x.family
    BY <2>1, Revoked
  <2> HIDE DEF y
  <2> QED  BY <2>1, <2>2
<1>18. \A s \in AllSessions : /\ IsLive(s)' <=> SessionRow(s) \notin R /\ IsLive(s)
                              /\ IsThere(s)' <=> IsThere(s)
                              /\ Owner(s)' = Owner(s) /\ Family(s)' = Family(s)
                              /\ Now(s)'.state = "rotated" <=> Now(s).state = "rotated"
  BY <1>13, <1>17
<1>20. TablesInv'
  <2>1. Lasting'
    BY <1>15, <1>18, Committed DEF Lasting, Inv, TablesInv
  <2>2. Shaped(draft')
    BY <1>11, <1>13, <1>14, <1>17 DEF Shaped, Inv, TablesInv
  <2>3. \A r \in Row : lock'[r] = Nobody => draft'[r] = db'[r]
    BY <1>1, <1>11, PutRows DEF Inv, TablesInv
  <2> QED  BY <1>11, <2>1, <2>2, <2>3 DEF TablesInv, Inv
<1>21. \A s \in AllSessions : Writer(s) \in Jobs => Writer(s)' = Writer(s)
  BY <1>12, <1>13
<1>22. \A s \in AllSessions, k \in Jobs \ {j} : Writer(s)' = k <=> Writer(s) = k
  BY <1>12, <1>13
<1> USE <1>15, <1>16, <1>18, <1>21
<1> HIDE DEF Was, Now, Writer, Owner, Family, WasThere, WasLive, IsThere, IsLive, WasGone, IsGone, Keeper
<1>23. FamiliesInv'
  BY Committed DEF FamiliesInv, Inv
<1>24. NewbornsInv'
  <2> SUFFICES ASSUME NEW s \in AllSessions, IsLive(s)', ~WasLive(s)'
               PROVE  Newborn(s, Writer(s))'
    BY DEF NewbornsInv
  <2>1. Newborn(s, Writer(s)) /\ Writer(s) \in Jobs /\ Owner(s) \in Accounts /\ IsThere(s)
    BY Committed DEF Inv, NewbornsInv, Newborn
  <2>2. job'[Writer(s)].refs = job[Writer(s)].refs
    BY <1>2, <1>5, <2>1 DEF me
  <2>3. UserRow(Owner(s)') \in job'[Writer(s)].refs \/ Keeper(Owner(s))' = Writer(s)
    BY <1>14, <2>1, <2>2 DEF Newborn, Keeper
  <2>4. \/ \E q \in AllSessions : /\ WasLive(q)' /\ Now(q)'.state = "rotated"
                                  /\ Family(q)' = Family(s)' /\ Writer(q)' = Writer(s)
        \/ \A t \in AllSessions : IsThere(t)' /\ Family(t)' = Family(s)' => t = s
    BY <2>1 DEF Newborn
  <2> QED  BY <2>1, <2>3, <2>4 DEF Newborn
<1>25. KeepersInv'
  <2>1. \A k \in Jobs : job'[k].refs = job[k].refs /\ job'[k].kind = job[k].kind
    BY <1>2, <1>5 DEF me
  <2>2. \A v \in Accounts : (IsGone(v)' # WasGone(v)') <=> (IsGone(v) # WasGone(v))
    BY DEF IsGone, WasGone
  <2> QED  BY <1>14, <2>1, <2>2 DEF Inv, KeepersInv
<1>26. DeletedInv'
  BY <1>14, Committed DEF Inv, DeletedInv
<1>27. FreshInv'
  BY <1>1, <1>2, <1>5, Committed DEF Inv, FreshInv, me
<1>28. JobsInv'
  <2>1. JobInv(j)'
    BY <1>1, <1>2, <1>5, <1>14 DEF JobInv, me
  <2>2. \A k \in Jobs \ {j} : Same(k)
    BY <1>5 DEF Same, Inv, JobsInv, JobInv
  <2>3. \A k \in Jobs \ {j} : RowsOfStay(k)
    <3>1. \A k \in Jobs \ {j} : \A r \in Row : lock[r] = k <=> lock'[r] = k
      BY <1>1, PutRows
    <3>2. \A k \in Jobs \ {j} : \A s \in AllSessions :
            Writer(s) = k => Now(s)' = Now(s) /\ Was(s)' = Was(s)
      BY <1>12, <1>13
    <3> QED  BY <3>1, <3>2 DEF RowsOfStay
  <2> QED  BY <1>5, <2>1, <2>2, <2>3, OthersStay DEF Inv
<1>29. EndingInv'
  <2>1. ASSUME NEW k \in Jobs \ {j}
        PROVE  EndingOf(k)'
    <3>1. EndingOf(k) /\ job'[k] = job[k]
      BY <1>5 DEF Inv, EndingInv
    <3>2. \A f : Found(k, f) => Found(k, f)'
      BY <3>1 DEF Found, SomewhereLive
    <3>3. \A s \in AllSessions : Over(k, s) => Over(k, s)'
      BY <1>22 DEF Over
    <3> QED  BY <3>1, <3>2, <3>3 DEF EndingOf, SomewhereLive
  <2>2. EndingOf(j)'
    <3>1. \A s \in AllSessions : SessionRow(s) \in R \/ ~SomewhereLive(s) => Over(j, s)'
      BY <1>12 DEF Over, SomewhereLive
    <3>2. CASE me.kind = "account"
      BY <1>1, <1>2, <1>5, <3>1, <3>2 DEF EndingOf, Inv, EndingInv, me
    <3>3. CASE me.kind # "account"
      <4>1. ASSUME NEW s \in AllSessions, Family(s) \in me.struck \ lost PROVE Over(j, s)'
        <5>1. CASE ~SomewhereLive(s)
          BY <3>1, <5>1
        <5>2. CASE SomewhereLive(s)
          <6>1. Found(j, Family(s))
            BY <1>1, <3>3, <4>1 DEF EndingOf, Inv, EndingInv, me
          <6> QED  BY <1>7, <3>1, <4>1, <5>2, <6>1 DEF Found, me
        <5> QED  BY <5>1, <5>2
      <4> QED  BY <1>2, <1>5, <3>3, <4>1 DEF EndingOf
    <3> QED  BY <3>2, <3>3
  <2>3. \A s \in AllSessions : Family(s)' \in ended' \ outlived' => ~SomewhereLive(s)'
    BY <1>1 DEF Inv, EndingInv, SomewhereLive
  <2> QED  BY <2>1, <2>2, <2>3 DEF EndingInv
<1> QED  BY <1>20, <1>23, <1>24, <1>25, <1>26, <1>27, <1>28, <1>29 DEF Inv

LEMMA EraseAccountKeeps ==
    ASSUME Inv, NEW j \in Jobs, EraseAccount(j)
    PROVE  Inv'
<1> USE Names, RowsAreRows
<1> PICK u \in Accounts : u = job[j].user
  BY DEF EraseAccount, Inv, JobsInv, JobInv
<1> DEFINE me == job[j]
           R == me.todo \union {UserRow(u)}
           new == [r \in R |-> IF r = UserRow(u) THEN [draft[r] EXCEPT !.status = "inactive"]
                               ELSE [NoCode EXCEPT !.state = "gone"]]
           next == [me EXCEPT !.pc = "commit", !.todo = {}]
<1>1. /\ JobInv(j) /\ JobShape(me) /\ me.pc = "write" /\ me.kind = "account"
      /\ ended' = ended /\ outlived' = outlived /\ Put(j, R, new) /\ Becomes(j, next)
      /\ Keeper(u) = j
  BY DEF EraseAccount, Inv, JobsInv, JobInv, history
<1>2. /\ JobShape(next) /\ next.pc = "commit" /\ next.kind = me.kind /\ next.user = u
      /\ next.wide = me.wide /\ next.refs = me.refs /\ next.struck = me.struck
      /\ next.missed = me.missed
  BY <1>1 DEF JobShape, Blank
<1>3. /\ job'[j] = next /\ DOMAIN job' = Jobs
      /\ \A k \in Jobs \ {j} : job'[k] = job[k]
  BY <1>1, OtherJobs DEF Inv
<1>4. \A s \in AllSessions : SessionRow(s) \notin R
  BY <1>1, RowsApart DEF JobInv
<1>5. \A v \in Accounts : UserRow(v) \in R <=> v = u
  BY <1>1, RowsApart DEF JobInv
<1>6. UserShape(new[UserRow(u)]) /\ new[UserRow(u)].status = "inactive"
  BY DEF UserShape, Inv, TablesInv, Shaped
<1> HIDE DEF me, next, R, new
<1>7. db' = db /\ DOMAIN draft' = Row /\ lock' \in [Row -> Jobs \union {Nobody}]
  BY <1>1, PutRows DEF Put, Inv, TablesInv
<1>8. \A s \in AllSessions : Now(s)' = Now(s) /\ Was(s)' = Was(s) /\ Writer(s)' = Writer(s)
  BY <1>1, <1>4, <1>7, PutRows DEF Now, Was, Writer
<1>9. \A s \in AllSessions :
        /\ (IsLive(s)' <=> IsLive(s)) /\ (WasLive(s)' <=> WasLive(s))
        /\ (IsThere(s)' <=> IsThere(s)) /\ (WasThere(s)' <=> WasThere(s))
        /\ Owner(s)' = Owner(s) /\ Family(s)' = Family(s)
  BY <1>8 DEF IsLive, WasLive, IsThere, WasThere, Owner, Family
<1>10. /\ UserShape(draft'[UserRow(u)]) /\ IsGone(u)' /\ Keeper(u)' = j
       /\ \A v \in Accounts \ {u} : draft'[UserRow(v)] = draft[UserRow(v)]
       /\ \A v \in Accounts : Keeper(v)' = Keeper(v)
  BY <1>1, <1>5, <1>6, PutRows DEF IsGone, Keeper
<1>11. \A v \in Accounts : /\ WasGone(v)' = WasGone(v)
                           /\ v # u => IsGone(v)' = IsGone(v)
  BY <1>7, <1>10 DEF WasGone, IsGone
<1> USE <1>3, <1>8, <1>9, <1>10, <1>11
<1>12. \A s \in AllSessions : Owner(s) = u => Over(j, s)
  BY <1>1 DEF Inv, EndingInv, EndingOf, me
<1>20. TablesInv'
  <2>1. Lasting'
    BY DEF Lasting, Inv, TablesInv
  <2>2. Shaped(draft')
    BY <1>7 DEF Shaped, Inv, TablesInv, Now
  <2>3. \A r \in Row : lock'[r] = Nobody => draft'[r] = db'[r]
    BY <1>1, <1>7, PutRows DEF Inv, TablesInv
  <2> QED  BY <1>7, <2>1, <2>2, <2>3 DEF TablesInv, Inv
<1>21. FamiliesInv'
  BY DEF FamiliesInv, Inv
<1>22. NewbornsInv'
  <2> SUFFICES ASSUME NEW s \in AllSessions, IsLive(s)', ~WasLive(s)'
               PROVE  Newborn(s, Writer(s))'
    BY DEF NewbornsInv
  <2>1. Newborn(s, Writer(s)) /\ Writer(s) \in Jobs /\ Owner(s) \in Accounts
    BY Committed DEF Inv, NewbornsInv, Newborn
  <2>2. job'[Writer(s)].refs = job[Writer(s)].refs
    BY <1>2, <2>1 DEF me
  <2>3. UserRow(Owner(s)') \in job'[Writer(s)].refs \/ Keeper(Owner(s))' = Writer(s)
    BY <2>1, <2>2 DEF Newborn, Keeper
  <2>4. \/ \E q \in AllSessions : /\ WasLive(q)' /\ Now(q)'.state = "rotated"
                                  /\ Family(q)' = Family(s)' /\ Writer(q)' = Writer(s)
        \/ \A t \in AllSessions : IsThere(t)' /\ Family(t)' = Family(s)' => t = s
    BY <2>1 DEF Newborn
  <2> QED  BY <2>1, <2>3, <2>4 DEF Newborn
<1>23. KeepersInv'
  <2>1. \A k \in Jobs : job'[k].refs = job[k].refs /\ job'[k].kind = job[k].kind
    BY <1>2 DEF me
  <2> QED  BY <1>1, <2>1 DEF Inv, KeepersInv, me
<1>24. DeletedInv'
  BY <1>12, Committed DEF Inv, DeletedInv, Over
<1>25. FreshInv'
  BY <1>1, <1>2, Committed DEF Inv, FreshInv, me
<1>26. JobsInv'
  <2>1. JobInv(j)'
    BY <1>1, <1>2 DEF JobInv, me, Keeper
  <2>2. \A k \in Jobs \ {j} : Same(k)
    BY DEF Same, Inv, JobsInv, JobInv
  <2>3. \A k \in Jobs \ {j} : RowsOfStay(k)
    BY <1>1, PutRows DEF RowsOfStay
  <2> QED  BY <2>1, <2>2, <2>3, OthersStay DEF Inv
<1>27. EndingInv'
  <2>1. ASSUME NEW k \in Jobs
        PROVE  EndingOf(k)'
    <3>1. EndingOf(k) /\ \A s \in AllSessions : (Over(k, s) <=> Over(k, s)')
      BY DEF Inv, EndingInv, Over
    <3>2. CASE k = j
      BY <1>1, <1>2, <3>1, <3>2 DEF EndingOf, me
    <3>3. CASE k # j
      <4>1. job'[k] = job[k]
        BY <3>3
      <4>2. \A f : Found(k, f) => Found(k, f)'
        BY <4>1 DEF Found, SomewhereLive
      <4> QED  BY <3>1, <4>1, <4>2 DEF EndingOf, SomewhereLive
    <3> QED  BY <3>2, <3>3
  <2>2. \A s \in AllSessions : Family(s)' \in ended' \ outlived' => ~SomewhereLive(s)'
    BY <1>1 DEF Inv, EndingInv, SomewhereLive
  <2> QED  BY <2>1, <2>2 DEF EndingInv
<1> QED  BY <1>20, <1>21, <1>22, <1>23, <1>24, <1>25, <1>26, <1>27 DEF Inv

(***************************************************************************)
(* The end of a transaction                                                *)
(***************************************************************************)
LEMMA CommitKeeps ==
    ASSUME Inv, NEW j \in Jobs, Commit(j)
    PROVE  Inv'
<1> USE Names, RowsAreRows
<1>1. /\ JobInv(j) /\ job[j].pc = "commit" /\ draft' = draft
      /\ db' = [r \in Row |-> Sees(j, r)] /\ lock' = Unlocked(j)
      /\ ended' = ended \union job[j].struck
      /\ outlived' = (outlived \ job[j].struck) \union job[j].missed
  BY DEF Commit, Inv, JobsInv
<1>2. /\ DOMAIN job' = Jobs /\ job'[j] = Blank("done")
      /\ \A k \in Jobs \ {j} : Same(k)
  <2>1. ASSUME NEW k \in Jobs \ {j}
        PROVE  Same(k)
    <3>1. JobShape(job[k])
      BY DEF Inv, JobsInv, JobInv
    <3>2. CASE job[k].pc \in {"take", "resolve", "move"}
      <4>1. job'[k] = [job[k] EXCEPT !.moved = @ \union Moving(j)]
        BY <3>2 DEF Commit
      <4> QED  BY <3>1, <4>1 DEF Same, JobShape, Blank
    <3>3. CASE job[k].pc \notin {"take", "resolve", "move"}
      <4>1. job'[k] = job[k]
        BY <3>3 DEF Commit
      <4> QED  BY <3>1, <4>1 DEF Same
    <3> QED  BY <3>2, <3>3
  <2> QED  BY <2>1 DEF Commit
<1>3. /\ job'[j].pc = "done" /\ job'[j].refs = {} /\ job'[j].struck = {} /\ JobShape(job'[j])
      /\ job'[j].kind = "none"
  BY <1>2, BlankShape
<1>4. \A r \in Row : /\ lock[r] = j => db'[r] = draft[r] /\ lock'[r] = Nobody
                     /\ lock[r] # j => db'[r] = db[r] /\ lock'[r] = lock[r]
  BY <1>1 DEF Sees, Unlocked
<1>5. /\ DOMAIN db' = Row /\ lock' \in [Row -> Jobs \union {Nobody}]
      /\ \A r \in Row : lock'[r] # j
  BY <1>1, <1>4 DEF Unlocked, Inv, TablesInv
<1> USE DEF Was, Now, Writer, Owner, Family, WasThere, WasLive, IsThere, IsLive, WasGone, IsGone, Keeper
<1>6. \A s \in AllSessions :
        /\ Now(s)' = Now(s) /\ (IsLive(s)' <=> IsLive(s)) /\ (IsThere(s)' <=> IsThere(s))
        /\ Owner(s)' = Owner(s) /\ Family(s)' = Family(s)
        /\ Writer(s) = j => /\ Was(s)' = Now(s) /\ Writer(s)' = Nobody
                            /\ WasLive(s)' <=> IsLive(s)
                            /\ WasThere(s)' <=> IsThere(s)
        /\ Writer(s) # j => /\ Was(s)' = Was(s) /\ Writer(s)' = Writer(s)
                            /\ WasLive(s)' <=> WasLive(s)
                            /\ WasThere(s)' <=> WasThere(s)
  BY <1>1, <1>4
<1>7. \A v \in Accounts :
        /\ IsGone(v)' = IsGone(v)
        /\ Keeper(v) = j => WasGone(v)' = IsGone(v) /\ Keeper(v)' = Nobody
        /\ Keeper(v) # j => WasGone(v)' = WasGone(v) /\ Keeper(v)' = Keeper(v)
  BY <1>1, <1>4
<1>20. TablesInv'
  <2>1. Lasting'
    BY <1>6, Committed DEF Lasting, Inv, TablesInv
  <2>2. Shaped(db') /\ Shaped(draft')
    BY <1>1, <1>4, <1>5 DEF Shaped, Inv, TablesInv
  <2>3. \A r \in Row : lock'[r] = Nobody => draft'[r] = db'[r]
    BY <1>1, <1>4 DEF Inv, TablesInv
  <2> QED  BY <1>5, <2>1, <2>2, <2>3 DEF TablesInv
<1> USE <1>2, <1>3, <1>6, <1>7
<1> HIDE DEF Was, Now, Writer, Owner, Family, WasThere, WasLive, IsThere, IsLive, WasGone, IsGone, Keeper
<1>21. FamiliesInv'
  BY Committed DEF FamiliesInv, Inv
<1>22. NewbornsInv'
  <2> SUFFICES ASSUME NEW s \in AllSessions, IsLive(s)', ~WasLive(s)'
               PROVE  Newborn(s, Writer(s))'
    BY DEF NewbornsInv
  <2>1. Newborn(s, Writer(s)) /\ Writer(s) \in Jobs \ {j} /\ Owner(s) \in Accounts /\ Writer(s)' = Writer(s)
    BY Committed DEF Inv, NewbornsInv, Newborn
  <2>2. job'[Writer(s)].refs = job[Writer(s)].refs
    BY <2>1 DEF Same
  <2>3. UserRow(Owner(s)') \in job'[Writer(s)].refs \/ Keeper(Owner(s))' = Writer(s)
    BY <2>1, <2>2 DEF Newborn, Keeper
  <2>4. \/ \E q \in AllSessions : /\ WasLive(q)' /\ Now(q)'.state = "rotated"
                                  /\ Family(q)' = Family(s)' /\ Writer(q)' = Writer(s)
        \/ \A t \in AllSessions : IsThere(t)' /\ Family(t)' = Family(s)' => t = s
    BY <2>1 DEF Newborn
  <2> QED  BY <2>1, <2>3, <2>4 DEF Newborn
<1>23. KeepersInv'
  <2>1. \A k \in Jobs : job'[k].refs \subseteq job[k].refs /\ (k # j => job'[k].kind = job[k].kind)
    BY DEF Same
  <2>2. \A v \in Accounts : Keeper(v)' \in Jobs => Keeper(v) = Keeper(v)' /\ Keeper(v) # j
    OBVIOUS
  <2> QED  BY <2>1, <2>2 DEF Inv, KeepersInv
<1>24. DeletedInv'
  <2>1. \A s \in AllSessions : IsLive(s)' => ~IsGone(Owner(s))'
    BY Committed DEF Inv, DeletedInv
  <2>2. ASSUME NEW s \in AllSessions, WasLive(s)', IsGone(Owner(s))'
        PROVE  Writer(s)' = Keeper(Owner(s))' /\ Writer(s)' \in Jobs
    BY <2>2, Committed DEF Inv, DeletedInv
  <2>3. ASSUME NEW s \in AllSessions, WasLive(s)'
        PROVE  ~WasGone(Owner(s))'
    <3>1. Owner(s) \in Accounts /\ Owner(s)' = Owner(s)
      BY <2>3, Committed
    <3>2. CASE Writer(s) = j
      <4>1. IsLive(s) /\ ~IsGone(Owner(s))
        BY <2>3, <3>2 DEF Inv, DeletedInv
      <4>2. CASE Keeper(Owner(s)) = j
        BY <3>1, <4>1, <4>2
      <4>3. CASE Keeper(Owner(s)) # j
        <5>1. CASE WasLive(s)
          BY <3>1, <4>3, <5>1 DEF Inv, DeletedInv
        <5>2. CASE ~WasLive(s)
          <6>1. UserRow(Owner(s)) \in job[j].refs
            BY <3>2, <4>1, <4>3, <5>2 DEF Inv, NewbornsInv, Newborn
          <6>2. IsGone(Owner(s)) = WasGone(Owner(s))
            BY <3>1, <4>3, <6>1 DEF Inv, KeepersInv
          <6> QED  BY <3>1, <4>1, <4>3, <6>2
        <5> QED  BY <5>1, <5>2
      <4> QED  BY <4>2, <4>3
    <3>3. CASE Writer(s) # j
      BY <2>3, <3>1, <3>3 DEF Inv, DeletedInv
    <3> QED  BY <3>2, <3>3
  <2> QED  BY <2>1, <2>2, <2>3 DEF DeletedInv
<1>25. FreshInv'
  <2> SUFFICES ASSUME NEW i \in Jobs, job'[i].pc # "done"
               PROVE  /\ ~WasThere(i)'
                      /\ IsThere(i)' => Writer(i)' = i /\ job'[i].pc = "commit"
                      /\ \A t \in AllSessions : IsThere(t)' /\ Family(t)' = i => t = i
                      /\ i \notin ended'
                      /\ \A k \in Jobs : i \notin job'[k].struck
    BY DEF FreshInv
  <2>1. i # j /\ job'[i].pc = job[i].pc
    BY DEF Same
  <2>2. \A k \in Jobs : job'[k].struck \subseteq job[k].struck
    BY DEF Same
  <2> QED  BY <1>1, <2>1, <2>2 DEF Inv, FreshInv
<1>26. JobsInv'
  <2>1. JobInv(j)'
    BY <1>5 DEF JobInv
  <2>2. \A k \in Jobs \ {j} : RowsOfStay(k)
    BY <1>4 DEF RowsOfStay
  <2> QED  BY <2>1, <2>2, OthersStay DEF Inv
<1>27. EndingInv'
  <2>1. \A s \in AllSessions : SomewhereLive(s)' => SomewhereLive(s)
    BY DEF SomewhereLive
  <2>2. ASSUME NEW k \in Jobs
        PROVE  EndingOf(k)'
    <3>1. CASE k = j
      BY <3>1 DEF EndingOf
    <3>2. CASE k # j
      <4>1. EndingOf(k) /\ Same(k)
        BY <3>2 DEF Inv, EndingInv
      <4>2. \A s \in AllSessions : Over(k, s) => Over(k, s)'
        BY <3>2 DEF Over
      <4>3. \A f : Found(k, f) => Found(k, f)'
        BY <2>1, <4>1 DEF Found, Same
      <4> QED  BY <2>1, <4>1, <4>2, <4>3 DEF EndingOf, Same
    <3> QED  BY <3>1, <3>2
  <2>3. ASSUME NEW s \in AllSessions, Family(s)' \in ended' \ outlived'
        PROVE  ~SomewhereLive(s)'
    <3>1. CASE Family(s) \in job[j].struck
      <4>1. Over(j, s)
        BY <1>1, <2>3, <3>1 DEF Inv, EndingInv, EndingOf
      <4> QED  BY <4>1 DEF Over, SomewhereLive
    <3>2. CASE Family(s) \notin job[j].struck
      BY <1>1, <2>1, <2>3, <3>2 DEF Inv, EndingInv
    <3> QED  BY <3>1, <3>2
  <2> QED  BY <2>2, <2>3 DEF EndingInv
<1> QED  BY <1>20, <1>21, <1>22, <1>23, <1>24, <1>25, <1>26, <1>27 DEF Inv

LEMMA RollBackKeeps ==
    ASSUME Inv, NEW j \in Jobs, RollBack(j), job[j].pc # "done",
           NEW next, Becomes(j, next), next.refs = {}, next.struck = {},
           next.pc \in {"start", "done"}, JobInv(j)'
    PROVE  Inv'
<1> USE Names, RowsAreRows
<1>1. /\ db' = db /\ draft' = [r \in Row |-> IF lock[r] = j THEN db[r] ELSE draft[r]]
      /\ lock' = Unlocked(j) /\ ended' = ended /\ outlived' = outlived
  BY DEF RollBack, history
<1>2. /\ DOMAIN job' = Jobs /\ job'[j] = next
      /\ \A k \in Jobs \ {j} : job'[k] = job[k] /\ Same(k)
  BY OtherJobs DEF Inv, Same, JobsInv, JobInv
<1>3. \A r \in Row : /\ lock[r] = j => draft'[r] = db[r] /\ lock'[r] = Nobody
                     /\ lock[r] # j => draft'[r] = draft[r] /\ lock'[r] = lock[r]
  BY <1>1 DEF Unlocked
<1>4. /\ DOMAIN draft' = Row /\ lock' \in [Row -> Jobs \union {Nobody}]
      /\ \A r \in Row : lock'[r] # j
  BY <1>1, <1>3 DEF Unlocked, Inv, TablesInv
<1> USE DEF Was, Now, Writer, Owner, Family, WasThere, WasLive, IsThere, IsLive, WasGone, IsGone, Keeper
<1>5. \A s \in AllSessions :
        /\ Was(s)' = Was(s) /\ (WasLive(s)' <=> WasLive(s)) /\ (WasThere(s)' <=> WasThere(s))
        /\ Writer(s) = j => /\ Now(s)' = Was(s) /\ Writer(s)' = Nobody
                            /\ IsLive(s)' <=> WasLive(s)
                            /\ IsThere(s)' <=> WasThere(s)
                            /\ WasThere(s) => Owner(s)' = Owner(s) /\ Family(s)' = Family(s)
        /\ Writer(s) # j => /\ Now(s)' = Now(s) /\ Writer(s)' = Writer(s)
                            /\ IsLive(s)' <=> IsLive(s)
                            /\ IsThere(s)' <=> IsThere(s)
                            /\ Owner(s)' = Owner(s) /\ Family(s)' = Family(s)
  BY <1>1, <1>3, Committed
<1>6. \A s \in AllSessions :
        /\ IsThere(s)' => IsThere(s) /\ Owner(s)' = Owner(s) /\ Family(s)' = Family(s)
        /\ IsLive(s)' => IsThere(s)'
        /\ WasThere(s) => IsThere(s)'
  BY <1>5, Committed
<1>7. \A v \in Accounts :
        /\ WasGone(v)' = WasGone(v)
        /\ Keeper(v) = j => IsGone(v)' = WasGone(v) /\ Keeper(v)' = Nobody
        /\ Keeper(v) # j => IsGone(v)' = IsGone(v) /\ Keeper(v)' = Keeper(v)
  BY <1>1, <1>3
<1>20. TablesInv'
  <2>1. Lasting'
    BY <1>5, <1>6, Committed DEF Lasting, Inv, TablesInv
  <2>2. Shaped(db') /\ Shaped(draft')
    BY <1>1, <1>3, <1>4 DEF Shaped, Inv, TablesInv
  <2>3. \A r \in Row : lock'[r] = Nobody => draft'[r] = db'[r]
    BY <1>1, <1>3 DEF Inv, TablesInv
  <2> QED  BY <1>4, <2>1, <2>2, <2>3 DEF TablesInv
<1> USE <1>2, <1>5, <1>6, <1>7
<1> HIDE DEF Was, Now, Writer, Owner, Family, WasThere, WasLive, IsThere, IsLive, WasGone, IsGone, Keeper
<1>21. FamiliesInv'
  <2>1. \A s, t \in AllSessions :
          IsThere(s)' /\ IsThere(t)' /\ Family(s)' = Family(t)' => Owner(s)' = Owner(t)'
    BY DEF FamiliesInv, Inv
  <2>2. \A s, t \in AllSessions :
          IsLive(s)' /\ IsLive(t)' /\ Family(s)' = Family(t)' => s = t
    BY DEF FamiliesInv, Inv
  <2>3. \A s, t \in AllSessions :
          IsLive(s)' /\ WasLive(t)' /\ Family(s)' = Family(t)' /\ s # t
            => Writer(s)' = Writer(t)' /\ Writer(s)' \in Jobs
    BY Committed DEF FamiliesInv, Inv
  <2>4. \A s, t \in AllSessions :
          WasLive(s)' /\ WasLive(t)' /\ Family(s)' = Family(t)' => s = t
    BY Committed DEF FamiliesInv, Inv
  <2> QED  BY <2>1, <2>2, <2>3, <2>4 DEF FamiliesInv
<1>22. NewbornsInv'
  <2> SUFFICES ASSUME NEW s \in AllSessions, IsLive(s)', ~WasLive(s)'
               PROVE  Newborn(s, Writer(s))'
    BY DEF NewbornsInv
  <2>1. Newborn(s, Writer(s)) /\ Writer(s) \in Jobs \ {j} /\ Owner(s) \in Accounts /\ Writer(s)' = Writer(s)
    BY Committed DEF Inv, NewbornsInv, Newborn
  <2>2. job'[Writer(s)].refs = job[Writer(s)].refs
    BY <2>1
  <2>3. UserRow(Owner(s)') \in job'[Writer(s)].refs \/ Keeper(Owner(s))' = Writer(s)
    BY <2>1, <2>2 DEF Newborn, Keeper
  <2>4. \/ \E q \in AllSessions : /\ WasLive(q)' /\ Now(q)'.state = "rotated"
                                  /\ Family(q)' = Family(s)' /\ Writer(q)' = Writer(s)
        \/ \A t \in AllSessions : IsThere(t)' /\ Family(t)' = Family(s)' => t = s
    BY <2>1 DEF Newborn
  <2> QED  BY <2>1, <2>3, <2>4 DEF Newborn
<1>23. KeepersInv'
  <2>1. \A k \in Jobs : job'[k].refs \subseteq job[k].refs /\ (k # j => job'[k].kind = job[k].kind)
    OBVIOUS
  <2>2. \A v \in Accounts : Keeper(v)' \in Jobs => Keeper(v) = Keeper(v)' /\ Keeper(v) # j
    OBVIOUS
  <2> QED  BY <2>1, <2>2 DEF Inv, KeepersInv
<1>24. DeletedInv'
  <2>1. ASSUME NEW s \in AllSessions, IsLive(s)'
        PROVE  ~IsGone(Owner(s))'
    <3>1. Owner(s) \in Accounts /\ Owner(s)' = Owner(s)
      BY <2>1, Committed
    <3>2. CASE Writer(s) = j
      BY <2>1, <3>1, <3>2 DEF Inv, DeletedInv
    <3>3. CASE Writer(s) # j
      <4>1. IsLive(s) /\ ~IsGone(Owner(s))
        BY <2>1, <3>3 DEF Inv, DeletedInv
      <4>2. CASE Keeper(Owner(s)) # j
        BY <3>1, <4>1, <4>2
      <4>3. CASE Keeper(Owner(s)) = j
        <5>1. CASE WasLive(s)
          BY <3>1, <4>3, <5>1 DEF Inv, DeletedInv
        <5>2. CASE ~WasLive(s)
          <6>1. Writer(s) \in Jobs /\ UserRow(Owner(s)) \in job[Writer(s)].refs
            BY <3>3, <4>1, <4>3, <5>2 DEF Inv, NewbornsInv, Newborn
          <6>2. IsGone(Owner(s)) = WasGone(Owner(s))
            BY <3>1, <3>3, <4>3, <6>1 DEF Inv, KeepersInv
          <6> QED  BY <3>1, <4>1, <4>3, <6>2
        <5> QED  BY <5>1, <5>2
      <4> QED  BY <4>2, <4>3
    <3> QED  BY <3>2, <3>3
  <2>2. ASSUME NEW s \in AllSessions, WasLive(s)', IsGone(Owner(s))'
        PROVE  Writer(s)' = Keeper(Owner(s))' /\ Writer(s)' \in Jobs
    <3>1. Owner(s) \in Accounts /\ Owner(s)' = Owner(s)
      BY <2>2, Committed
    <3> QED  BY <2>2, <3>1 DEF Inv, DeletedInv
  <2>3. ASSUME NEW s \in AllSessions, WasLive(s)'
        PROVE  ~WasGone(Owner(s))'
    <3>1. Owner(s) \in Accounts /\ Owner(s)' = Owner(s)
      BY <2>3, Committed
    <3> QED  BY <2>3, <3>1 DEF Inv, DeletedInv
  <2> QED  BY <2>1, <2>2, <2>3 DEF DeletedInv
<1>25. FreshInv'
  <2> SUFFICES ASSUME NEW i \in Jobs, job'[i].pc # "done"
               PROVE  /\ ~WasThere(i)'
                      /\ IsThere(i)' => Writer(i)' = i /\ job'[i].pc = "commit"
                      /\ \A t \in AllSessions : IsThere(t)' /\ Family(t)' = i => t = i
                      /\ i \notin ended'
                      /\ \A k \in Jobs : i \notin job'[k].struck
    BY DEF FreshInv
  <2>1. job[i].pc # "done" /\ (i # j => job'[i].pc = job[i].pc)
    OBVIOUS
  <2>2. \A k \in Jobs : job'[k].struck \subseteq job[k].struck
    OBVIOUS
  <2> QED  BY <1>1, <2>1, <2>2 DEF Inv, FreshInv
<1>26. JobsInv'
  <2>1. \A k \in Jobs \ {j} : RowsOfStay(k)
    BY <1>3 DEF RowsOfStay
  <2> QED  BY <2>1, OthersStay DEF Inv
<1>27. EndingInv'
  <2>1. \A s \in AllSessions :
          SomewhereLive(s)' => SomewhereLive(s) /\ Family(s)' = Family(s) /\ Owner(s)' = Owner(s)
    BY Committed DEF SomewhereLive
  <2>2. ASSUME NEW k \in Jobs
        PROVE  EndingOf(k)'
    <3>1. CASE k = j
      BY <3>1 DEF EndingOf
    <3>2. CASE k # j
      <4>1. EndingOf(k) /\ job'[k] = job[k]
        BY <3>2 DEF Inv, EndingInv
      <4>2. \A s \in AllSessions : Over(k, s) \/ ~IsThere(s)' => Over(k, s)'
        BY <3>2, Committed DEF Over
      <4>3. ASSUME NEW f, Found(k, f) PROVE Found(k, f)'
        <5> SUFFICES ASSUME NEW s \in AllSessions, SomewhereLive(s)', Family(s)' = f
                     PROVE  \/ SessionRow(s) \in job[k].todo
                            \/ \E q \in AllSessions : /\ SessionRow(q) \in job[k].todo /\ Family(q)' = f
                                                      /\ Now(q)'.state = "rotated"
          BY <4>1 DEF Found
        <5>1. SomewhereLive(s) /\ Family(s) = f
          BY <2>1
        <5>2. CASE SessionRow(s) \in job[k].todo
          BY <5>2
        <5>3. CASE \E q \in AllSessions : /\ SessionRow(q) \in job[k].todo /\ Family(q) = f
                                          /\ Now(q).state = "rotated"
          <6> PICK q \in AllSessions : /\ SessionRow(q) \in job[k].todo /\ Family(q) = f
                                       /\ Now(q).state = "rotated"
            BY <5>3
          <6>1. CASE Writer(q) # j
            BY <6>1
          <6>2. CASE Writer(q) = j /\ ~WasLive(q)
            <7>1. Was(q).state = "rotated" /\ WasThere(q)
              BY <6>2 DEF Inv, TablesInv, Lasting, WasLive, WasThere
            <7> QED  BY <6>2, <7>1
          <6>3. CASE Writer(q) = j /\ WasLive(q)
            <7>1. s = q
              BY <5>1, <6>3 DEF SomewhereLive, Inv, FamiliesInv
            <7> QED  BY <7>1
          <6> QED  BY <6>1, <6>2, <6>3
        <5> QED  BY <4>3, <5>1, <5>2, <5>3 DEF Found
      <4>4. \A s \in AllSessions : IsThere(s)' => Family(s)' = Family(s) /\ Owner(s)' = Owner(s)
        OBVIOUS
      <4> QED  BY <2>1, <4>1, <4>2, <4>3, <4>4 DEF EndingOf
    <3> QED  BY <3>1, <3>2
  <2>3. \A s \in AllSessions : Family(s)' \in ended' \ outlived' => ~SomewhereLive(s)'
    BY <1>1, <2>1 DEF Inv, EndingInv
  <2> QED  BY <2>2, <2>3 DEF EndingInv
<1> QED  BY <1>20, <1>21, <1>22, <1>23, <1>24, <1>25, <1>26, <1>27 DEF Inv

LEMMA AbortKeeps ==
    ASSUME Inv, NEW j \in Jobs, Abort(j)
    PROVE  Inv'
<1> USE Names, RowsAreRows
<1> DEFINE next == Blank("done")
<1>1. RollBack(j) /\ Becomes(j, next) /\ job[j].pc # "done"
  BY DEF Abort
<1>2. /\ JobShape(next) /\ next.pc = "done" /\ next.kind = "none"
      /\ next.refs = {} /\ next.struck = {}
  BY BlankShape
<1> HIDE DEF next
<1>3. job'[j] = next
  BY <1>1, OtherJobs DEF Inv
<1>4. \A r \in Row : lock'[r] # j
  BY <1>1 DEF RollBack, Unlocked
<1>5. JobInv(j)'
  BY <1>2, <1>3, <1>4 DEF JobInv
<1> QED  BY <1>1, <1>2, <1>5, RollBackKeeps

LEMMA AgainKeeps ==
    ASSUME Inv, NEW j \in Jobs, Again(j)
    PROVE  Inv'
<1> USE Names, RowsAreRows
<1> DEFINE me == job[j]
           next == [Blank("start") EXCEPT !.kind = me.kind, !.address = me.address, !.key = me.key,
                                          !.guess = me.guess, !.turn = me.turn + 1]
<1>1. /\ RollBack(j) /\ Becomes(j, next) /\ me.kind \in {"verify", "google"} /\ me.pc # "done"
  BY DEF Again
<1>2. /\ JobShape(next) /\ next.pc = "start" /\ next.kind = me.kind /\ next.user = None
      /\ next.refs = {} /\ next.struck = {}
  BY DEF JobShape, Blank
<1> HIDE DEF next
<1>3. job'[j] = next
  BY <1>1, OtherJobs DEF Inv
<1>4. JobInv(j)'
  BY <1>1, <1>2, <1>3 DEF JobInv
<1> QED  BY <1>1, <1>2, <1>4, RollBackKeeps

(***************************************************************************)
(* Init, Next and the theorems                                             *)
(***************************************************************************)
LEMMA AccountRow ==
    ASSUME NEW x, NEW y, NEW row, row = [status |-> x, address |-> y]
    PROVE  UserShape(row) /\ row.status = x
  BY DEF UserShape

LEMMA InitInv == Init => Inv
<1> SUFFICES ASSUME Init PROVE Inv
  OBVIOUS
<1> USE Names, RowsAreRows
<1>0. PICK status \in [Users -> {"active", "inactive", "suspended"}],
         owner \in [Sessions -> Users],
         state \in [Sessions -> SessionStates],
         sent \in [Codes -> Addresses \union {None}] :
      /\ \A s \in Sessions :
           /\ state[s] = "live" => status[owner[s]] = "active"
           /\ state[s] = "rotated" <=> \E t \in Sessions : Replaces[t] = s /\ state[t] # "absent"
           /\ Replaces[s] # None => owner[s] = owner[Replaces[s]]
      /\ \A c, d \in Codes : sent[c] # None /\ sent[c] = sent[d] => c = d
      /\ db = [r \in Row |->
           CASE r[1] = "code" ->
                  IF r[2] \in Codes /\ sent[r[2]] # None THEN OpenCode(sent[r[2]], 0) ELSE NoCode
             [] r[1] = "session" ->
                  IF r[2] \in Sessions /\ state[r[2]] # "absent"
                  THEN [state |-> state[r[2]], user |-> owner[r[2]],
                        family |-> IF Replaces[r[2]] = None THEN r[2] ELSE Replaces[r[2]]]
                  ELSE NoSession
             [] r[1] = "user" ->
                  IF r[2] \in Users THEN [status |-> status[r[2]], address |-> Home[r[2]]] ELSE NoUser
             [] r[1] = "key" ->
                  IF \E u \in Users : Home[u] = r[2] THEN CHOOSE u \in Users : Home[u] = r[2] ELSE None]
  BY DEF Init, Settled
<1> DEFINE Root(s) == IF Replaces[s] = None THEN s ELSE Replaces[s]
<1>1. ASSUME NEW s \in AllSessions
      PROVE  /\ s \in Sessions /\ state[s] # "absent" =>
                  Was(s) = [state |-> state[s], user |-> owner[s], family |-> Root(s)]
             /\ ~(s \in Sessions /\ state[s] # "absent") => Was(s) = NoSession
  BY <1>0, RowsApart DEF Was
<1>2. ASSUME NEW u \in Accounts
      PROVE  /\ u \in Users => db[UserRow(u)] = [status |-> status[u], address |-> Home[u]]
             /\ u \notin Users => db[UserRow(u)] = NoUser
  BY <1>0, RowsApart
<1>3. DOMAIN db = Row
  BY <1>0
<1>4. draft = db /\ lock = [r \in Row |-> Nobody] /\ job = [j \in Jobs |-> Blank("idle")] /\ ended = {}
  BY DEF Init
<1>5. \A j \in Jobs : /\ JobShape(job[j]) /\ job[j].pc = "idle" /\ job[j].kind = "none"
                      /\ job[j].refs = {} /\ job[j].struck = {}
  BY <1>4, BlankShape
<1>6. \A s, t \in Sessions : Root(s) = Root(t) =>
        \/ s = t
        \/ Replaces[t] = s /\ Replaces[t] # None
        \/ Replaces[s] = t /\ Replaces[s] # None
  BY SignInAssumption
<1>7. \A s \in Sessions : Root(s) \in Sessions
  BY SignInAssumption
<1> HIDE DEF Root
<1>9. \A s \in AllSessions : /\ SessionShape(Was(s))
                             /\ Was(s).state # "absent" =>
                                  /\ s \in Sessions /\ Was(s).state = state[s] /\ state[s] # "absent"
                                  /\ Was(s).user = owner[s] /\ Was(s).family = Root(s)
  <2> SUFFICES ASSUME NEW s \in AllSessions
               PROVE  /\ SessionShape(Was(s))
                      /\ Was(s).state # "absent" =>
                           /\ s \in Sessions /\ Was(s).state = state[s] /\ state[s] # "absent"
                           /\ Was(s).user = owner[s] /\ Was(s).family = Root(s)
    OBVIOUS
  <2>1. CASE s \in Sessions /\ state[s] # "absent"
    BY <1>1, <2>1 DEF SessionShape
  <2>2. CASE ~(s \in Sessions /\ state[s] # "absent")
    BY <1>1, <2>2 DEF SessionShape, NoSession
  <2> QED  BY <2>1, <2>2
<1>10. \A u \in Accounts : /\ UserShape(db[UserRow(u)])
                           /\ u \in Users => db[UserRow(u)].status = status[u]
  <2> SUFFICES ASSUME NEW u \in Accounts
               PROVE  /\ UserShape(db[UserRow(u)])
                      /\ u \in Users => db[UserRow(u)].status = status[u]
    OBVIOUS
  <2>1. CASE u \in Users
    <3> PICK x, y : x = status[u] /\ y = Home[u]
      OBVIOUS
    <3>1. db[UserRow(u)] = [status |-> x, address |-> y]
      BY <1>2, <2>1
    <3>2. UserShape(db[UserRow(u)]) /\ db[UserRow(u)].status = x
      BY <3>1, AccountRow
    <3> QED  BY <3>2
  <2>2. CASE u \notin Users
    <3>1. db[UserRow(u)] = NoUser
      BY <1>2, <2>2
    <3> QED  BY <2>2, <3>1 DEF UserShape, NoUser
  <2> QED  BY <2>1, <2>2
<1>11. \A s \in AllSessions : /\ Was(s) = Now(s) /\ (WasLive(s) <=> IsLive(s)) /\ (WasThere(s) <=> IsThere(s))
                              /\ IsLive(s) => IsThere(s)
  BY <1>4 DEF Was, Now, WasLive, IsLive, WasThere, IsThere
<1>8. \A s \in AllSessions : IsThere(s) =>
        s \in Sessions /\ Now(s).state = state[s] /\ state[s] # "absent" /\ Owner(s) = owner[s] /\ Family(s) = Root(s)
  BY <1>9, <1>11 DEF IsThere, Owner, Family
<1>13. \A s \in Sessions : owner[s] \in Users /\ owner[s] \in Accounts
  BY DEF Accounts
<1>14. \A s \in AllSessions : IsLive(s) => ~IsGone(Owner(s)) /\ ~WasGone(Owner(s))
  <2> SUFFICES ASSUME NEW s \in AllSessions, IsLive(s)
               PROVE  ~IsGone(Owner(s)) /\ ~WasGone(Owner(s))
    OBVIOUS
  <2>1. s \in Sessions /\ state[s] = "live" /\ Owner(s) = owner[s]
    BY <1>8, <1>11 DEF IsLive
  <2>2. status[owner[s]] = "active"
    BY <1>0, <2>1
  <2>3. db[UserRow(owner[s])].status = "active"
    BY <1>10, <1>13, <2>1, <2>2
  <2> QED  BY <1>4, <2>1, <2>3 DEF IsGone, WasGone
<1>15. \A s \in Sessions : /\ Replaces[s] # None => owner[s] = owner[Replaces[s]]
                           /\ \A t \in Sessions : Replaces[t] = s /\ state[t] # "absent" => state[s] = "rotated"
                           /\ state[s] = "live" => status[owner[s]] = "active"
  BY <1>0
<1>20. TablesInv
  <2>1. Lasting
    BY <1>8, <1>11, <1>13 DEF Lasting, WasThere, WasLive, IsLive, Owner, Family
  <2>2. Shaped(db)
    BY <1>3, <1>9, <1>10 DEF Shaped, Was
  <2> QED  BY <1>4, <2>1, <2>2 DEF TablesInv
<1>21. FamiliesInv
  <2>1. \A s, t \in AllSessions :
          IsThere(s) /\ IsThere(t) /\ Family(s) = Family(t) => Owner(s) = Owner(t)
    BY <1>6, <1>8, <1>15
  <2>2. \A s, t \in AllSessions :
          IsLive(s) /\ IsLive(t) /\ Family(s) = Family(t) => s = t
    <3> SUFFICES ASSUME NEW s \in AllSessions, NEW t \in AllSessions,
                        IsLive(s), IsLive(t), Family(s) = Family(t), s # t
                 PROVE  FALSE
      OBVIOUS
    <3>1. s \in Sessions /\ t \in Sessions /\ state[s] = "live" /\ state[t] = "live" /\ Root(s) = Root(t)
      BY <1>8, <1>11 DEF IsLive
    <3> QED  BY <1>6, <1>15, <3>1
  <2> QED  BY <1>11, <2>1, <2>2 DEF FamiliesInv
<1>22. NewbornsInv
  BY <1>11 DEF NewbornsInv
<1>23. KeepersInv
  BY <1>4, <1>5 DEF KeepersInv, IsGone, WasGone
<1>24. DeletedInv
  BY <1>11, <1>14 DEF DeletedInv
<1>25. FreshInv
  BY <1>4, <1>5, <1>7, <1>8, <1>11 DEF FreshInv
<1>26. JobsInv
  BY <1>4, <1>5 DEF JobsInv, JobInv
<1>27. EndingInv
  BY <1>4, <1>5 DEF EndingInv, EndingOf
<1> QED  BY <1>20, <1>21, <1>22, <1>23, <1>24, <1>25, <1>26, <1>27 DEF Inv

LEMMA NextKeeps == Inv /\ [Next]_vars => Inv'
<1> SUFFICES ASSUME Inv, [Next]_vars PROVE Inv'
  OBVIOUS
<1>1. CASE Next
  <2> PICK j \in Jobs :
        \/ RequestCode(j) \/ LookForCodes(j) \/ ReplaceCodes(j)
        \/ VerifyCode(j) \/ Google(j) \/ ChangeEmail(j) \/ Start(j) \/ TakeCode(j) \/ Resolve(j) \/ MoveAddress(j)
        \/ Refresh(j) \/ Rotate(j) \/ Logout(j) \/ SetUserStatus(j) \/ DeleteAccount(j)
        \/ Hunt(j) \/ Strike(j) \/ EraseAccount(j)
        \/ Commit(j) \/ Abort(j) \/ Again(j)
    BY <1>1 DEF Next
  <2>1. CASE RequestCode(j)
    BY <2>1, RequestCodeKeeps
  <2>2. CASE LookForCodes(j)
    BY <2>2, LookForCodesKeeps
  <2>3. CASE ReplaceCodes(j)
    BY <2>3, ReplaceCodesKeeps
  <2>4. CASE VerifyCode(j)
    BY <2>4, VerifyCodeKeeps
  <2>5. CASE Google(j)
    BY <2>5, GoogleKeeps
  <2>6. CASE ChangeEmail(j)
    BY <2>6, ChangeEmailKeeps
  <2>7. CASE Start(j)
    BY <2>7, StartKeeps
  <2>8. CASE TakeCode(j)
    BY <2>8, TakeCodeKeeps
  <2>9. CASE Resolve(j)
    BY <2>9, ResolveKeeps
  <2>10. CASE MoveAddress(j)
    BY <2>10, MoveAddressKeeps
  <2>11. CASE Refresh(j)
    BY <2>11, RefreshKeeps
  <2>12. CASE Rotate(j)
    BY <2>12, RotateKeeps
  <2>13. CASE Logout(j)
    BY <2>13, LogoutKeeps
  <2>14. CASE SetUserStatus(j)
    BY <2>14, SetUserStatusKeeps
  <2>15. CASE DeleteAccount(j)
    BY <2>15, DeleteAccountKeeps
  <2>16. CASE Hunt(j)
    BY <2>16, HuntKeeps
  <2>17. CASE Strike(j)
    BY <2>17, StrikeKeeps
  <2>18. CASE EraseAccount(j)
    BY <2>18, EraseAccountKeeps
  <2>19. CASE Commit(j)
    BY <2>19, CommitKeeps
  <2>20. CASE Abort(j)
    BY <2>20, AbortKeeps
  <2>21. CASE Again(j)
    BY <2>21, AgainKeeps
  <2> QED  BY <2>1, <2>2, <2>3, <2>4, <2>5, <2>6, <2>7, <2>8, <2>9, <2>10, <2>11, <2>12, <2>13,
              <2>14, <2>15, <2>16, <2>17, <2>18, <2>19, <2>20, <2>21
<1>2. CASE UNCHANGED vars
  <2>1. /\ db' = db /\ draft' = draft /\ lock' = lock /\ job' = job /\ ended' = ended /\ outlived' = outlived
    BY <1>2 DEF vars, tables, history
  <2> USE <2>1 DEF Inv, Was, Now, Writer, Owner, Family, WasThere, WasLive, IsThere, IsLive, WasGone,
                   IsGone, Keeper, SomewhereLive
  <2>2. TablesInv'
    BY DEF TablesInv, Lasting
  <2>3. FamiliesInv' /\ NewbornsInv'
    BY DEF FamiliesInv, NewbornsInv, Newborn
  <2>4. KeepersInv' /\ DeletedInv' /\ FreshInv'
    BY DEF KeepersInv, DeletedInv, FreshInv
  <2>5. JobsInv'
    BY DEF JobsInv, JobInv
  <2>6. EndingInv'
    BY DEF EndingInv, EndingOf, Over, Found
  <2> QED  BY <2>2, <2>3, <2>4, <2>5, <2>6
<1> QED  BY <1>1, <1>2

THEOREM Invariance == Spec => []Inv
<1> QED  BY InitInv, NextKeeps, PTL DEF Spec

\* A family has one live session, however many requests rotate, end or make
\* sessions at the same time: the session that was rotated is dead when the
\* one in its place is there to see (auth.Refresh).
THEOREM OneLivePerFamilyHolds == Spec => []OneLivePerFamily
<1>1. Inv => OneLivePerFamily
  <2> SUFFICES ASSUME Inv, NEW s \in AllSessions, NEW t \in AllSessions,
                      Live(db, s), Live(db, t),
                      db[SessionRow(s)].family = db[SessionRow(t)].family
               PROVE  s = t
    BY DEF OneLivePerFamily
  <2>1. WasLive(s) /\ WasLive(t) /\ Was(s).family = Was(t).family
    BY DEF WasLive, Was, Live
  <2>2. Family(s) = Family(t)
    BY <2>1, Committed
  <2> QED  BY <2>1, <2>2 DEF Inv, FamiliesInv
<1> QED  BY <1>1, Invariance, PTL

\* A family that a replayed token, a logout, a suspension or a deletion has
\* ended has no live session, unless it was one of those whose session was
\* being rotated as the statement looked for them.
THEOREM EndedUnlessOutlivedHolds == Spec => []EndedUnlessOutlived
<1>1. Inv => EndedUnlessOutlived
  <2> SUFFICES ASSUME Inv, NEW s \in AllSessions, Live(db, s), db[SessionRow(s)].family \in ended,
                      db[SessionRow(s)].family \notin outlived
               PROVE  FALSE
    BY DEF EndedUnlessOutlived
  <2>1. WasLive(s) /\ Family(s) \in ended \ outlived
    BY Committed DEF WasLive, Was, Live
  <2> QED  BY <2>1 DEF Inv, EndingInv, SomewhereLive
<1> QED  BY <1>1, Invariance, PTL

\* An account that was deleted has no session left, whatever rotations and
\* sign-ins ran beside its deletion: the lock of the user and the reference
\* every new session takes to it keep them apart (user.DeleteAccount).
THEOREM DeletionEndsSessionsHolds == Spec => []DeletionEndsSessions
<1>1. Inv => DeletionEndsSessions
  <2> SUFFICES ASSUME Inv, NEW s \in AllSessions, Live(db, s)
               PROVE  db[UserRow(db[SessionRow(s)].user)].status # "inactive"
    BY DEF DeletionEndsSessions
  <2>1. WasLive(s) /\ Owner(s) = db[SessionRow(s)].user
    BY Committed DEF WasLive, Was, Live
  <2> QED  BY <2>1 DEF Inv, DeletedInv, WasGone
<1> QED  BY <1>1, Invariance, PTL

-----------------------------------------------------------------------------
(***************************************************************************)
(* A code is used once and guessed a limited number of times, for every    *)
(* number of addresses, codes and requests.                                *)
(***************************************************************************)

(***************************************************************************)
(* The inductive invariant, beside that of SignInProofs                    *)
(***************************************************************************)
\* A code as it is committed, and in its newest version; who wrote that.
WasCode(c) == db[CodeRow(c)]
NowCode(c) == draft[CodeRow(c)]
CodeWriter(c) == lock[CodeRow(c)]

CodeShape(x) == DOMAIN x = {"state", "at", "tries", "made"} /\ x.tries \in Nat

\* A request that has compared a code and not told the answer.
Knows(j) == job[j].pc \in {"resolve", "move", "commit"} /\ job[j].kind \in {"verify", "change"}

\* The code's newest version is that of a request which has compared it.
Compared(c) ==
    /\ CodeWriter(c) \in Jobs /\ Knows(CodeWriter(c))
    /\ job[CodeWriter(c)].code = c

\* A code is open until it has been used, in either version; and its guesses
\* are those answered, but for the one that is about to be.
RowsOfCodes ==
    \A c \in AllCodes :
        /\ CodeShape(WasCode(c)) /\ CodeShape(NowCode(c))
        /\ WasCode(c).state = "absent" => WasCode(c).at = None /\ wrong[c] = 0
        /\ NowCode(c).state = "absent" => WasCode(c).state = "absent" /\ NowCode(c).at = None
        /\ WasCode(c).state \in {"open", "absent"} => uses[c] = 0
        /\ NowCode(c).state \in {"open", "absent"} => uses[c] = 0
        /\ WasCode(c).state # "gone" => WasCode(c).tries = wrong[c]
        /\ NowCode(c).state # "gone" => NowCode(c).tries = wrong[c] \/ Compared(c)

Answers ==
    /\ DOMAIN uses = AllCodes /\ DOMAIN wrong = AllCodes
    /\ \A c \in AllCodes : uses[c] \in 0 .. 1 /\ wrong[c] \in 0 .. MaxTries

\* The code a request is to make is not there before it commits.
Unsent ==
    \A j \in Jobs : job[j].pc # "done" =>
        /\ WasCode(j).state = "absent"
        /\ CodeWriter(j) = j \/ NowCode(j).state = "absent"

\* Whoever is not deleted has an address.
Reachable ==
    \A u \in Accounts :
        /\ Undeleted(db[UserRow(u)]) => db[UserRow(u)].address # None
        /\ Undeleted(draft[UserRow(u)]) => draft[UserRow(u)].address # None

\* What the place of a request says of codes: one that is about to lock its
\* code saw it open; one that has compared it holds it, as it was and as it is
\* to be.
CodeOf(j) ==
    LET me == job[j]
        c == me.code
    IN  /\ me.kind \in {"verify", "change"} => me.pc \in {"start", "take", "resolve", "move", "commit"}
        /\ me.pc = "take" =>
             /\ me.kind \in {"verify", "change"} /\ c \in AllCodes
             /\ CodeRow(c) \in me.moved \/ WasCode(c).state = "open"
        /\ Knows(j) =>
             /\ c \in AllCodes /\ CodeWriter(c) = j
             /\ WasCode(c).state = "open" /\ WasCode(c).tries < MaxTries
             /\ NowCode(c) = Guessed(WasCode(c), me.guess = c)
        /\ me.pc # "commit" /\ ~Knows(j) => \A d \in AllCodes : CodeWriter(d) # j
        /\ me.pc = "write" => \A d \in AllCodes : CodeRow(d) \in me.todo => WasCode(d).state # "absent"
        /\ me.pc \in {"start", "take", "resolve", "move"} \/ me.kind \in {"account", "verify", "google"}
             => me.address # None

CodesInv ==
    /\ RowsOfCodes /\ Answers /\ Unsent /\ Reachable
    /\ \A j \in Jobs : CodeOf(j)

(***************************************************************************)
(* Rows of codes                                                           *)
(***************************************************************************)
LEMMA CodeRowsApart ==
    /\ \A c, d : CodeRow(c) = CodeRow(d) => c = d
    /\ \A c, k : CodeRow(c) # UserRow(k) /\ CodeRow(c) # SessionRow(k) /\ CodeRow(c) # KeyRow(k)
    /\ \A u, k : UserRow(u) # KeyRow(k)
    /\ \A c \in AllCodes : CodeRow(c) \in Row
    /\ \A u \in Accounts : UserRow(u) \in Row
    /\ Jobs \subseteq AllCodes /\ None \notin AllCodes
  BY SignInAssumption DEF CodeRow, UserRow, SessionRow, KeyRow, Row, CodeRows, AllCodes

\* The rows of codes, and what was answered of them, are as they were.
CodesStay ==
    /\ \A c \in AllCodes : WasCode(c)' = WasCode(c) /\ NowCode(c)' = NowCode(c)
                           /\ CodeWriter(c)' = CodeWriter(c)
    /\ uses' = uses /\ wrong' = wrong

\* A step of a request that leaves them so.
LEMMA CodesKept ==
    ASSUME Inv, CodesInv, NEW j \in Jobs, job[j].pc # "done", NEW next, Becomes(j, next),
           CodesStay, Reachable', CodeOf(j)', Knows(j) => Knows(j)' /\ next.code = job[j].code
    PROVE  CodesInv'
<1> USE CodeRowsApart
<1>1. /\ DOMAIN job' = Jobs /\ job'[j] = next
      /\ \A k \in Jobs \ {j} : job'[k] = job[k]
  BY OtherJobs DEF Inv
<1>2. \A c \in AllCodes : Compared(c) => Compared(c)'
  <2> SUFFICES ASSUME NEW c \in AllCodes, Compared(c)  PROVE Compared(c)'
    OBVIOUS
  <2>1. CodeWriter(c)' = CodeWriter(c)
    BY DEF CodesStay
  <2>2. CASE CodeWriter(c) = j
    BY <1>1, <2>1, <2>2 DEF Compared
  <2>3. CASE CodeWriter(c) # j
    BY <1>1, <2>1, <2>3 DEF Compared, Knows
  <2> QED  BY <2>2, <2>3
<1>3. RowsOfCodes'
  BY <1>2 DEF CodesInv, RowsOfCodes, CodesStay
<1>4. Answers'
  BY DEF CodesInv, Answers, CodesStay
<1>5. Unsent'
  BY <1>1 DEF CodesInv, Unsent, CodesStay
<1>6. \A k \in Jobs \ {j} : CodeOf(k)'
  <2> SUFFICES ASSUME NEW k \in Jobs \ {j}  PROVE CodeOf(k)'
    OBVIOUS
  <2>1. CodeOf(k) /\ job'[k] = job[k]
    BY <1>1 DEF CodesInv
  <2> QED  BY <2>1 DEF CodeOf, Knows, CodesStay
<1> QED  BY <1>3, <1>4, <1>5, <1>6 DEF CodesInv

\* A statement that writes no code.
LEMMA NoCodeWritten ==
    ASSUME NEW j \in Jobs, NEW R, NEW new, Put(j, R, new), UNCHANGED history,
           \A c \in AllCodes : CodeRow(c) \notin R
    PROVE  CodesStay
  BY PutRows, CodeRowsApart DEF CodesStay, WasCode, NowCode, CodeWriter, history

LEMMA TablesUntouched ==
    ASSUME CodesInv, UNCHANGED <<tables, history>>
    PROVE  CodesStay /\ Reachable'
  BY DEF CodesStay, WasCode, NowCode, CodeWriter, history, tables, CodesInv, Reachable

\* A request that has come and holds nothing yet.
LEMMA Arriving ==
    ASSUME Inv, CodesInv, NEW j \in Jobs, job[j].pc = "idle",
           CodesStay, Reachable',
           NEW next, Becomes(j, next),
           \/ next.pc = "start"
           \/ next.pc \in {"look", "hunt", "rotate", "commit"} /\ next.kind \notin {"verify", "google", "change"},
           next.pc = "start" \/ next.kind = "account" => next.address # None
    PROVE  CodesInv'
<1>1. job'[j] = next
  BY OtherJobs DEF Inv
<1>2. \A d \in AllCodes : CodeWriter(d)' # j
  BY DEF CodesInv, CodeOf, Knows, CodesStay
<1>3. CodeOf(j)'
  BY <1>1, <1>2 DEF CodeOf, Knows
<1>4. ~Knows(j)
  BY DEF Knows
<1> QED  BY <1>3, <1>4, CodesKept

(***************************************************************************)
(* Requests that come, or read                                             *)
(***************************************************************************)
LEMMA CodesRequestCode ==
    ASSUME Inv, CodesInv, NEW j \in Jobs, RequestCode(j)
    PROVE  CodesInv'
<1>1. PICK a \in Addresses :
        Becomes(j, [Blank("look") EXCEPT !.kind = "code", !.address = a, !.made = clock])
  BY DEF RequestCode
<1> DEFINE next == [Blank("look") EXCEPT !.kind = "code", !.address = a, !.made = clock]
<1>2. next.pc = "look" /\ next.kind = "code"
  BY DEF Blank
<1>3. job[j].pc = "idle" /\ CodesStay /\ Reachable'
  BY TablesUntouched DEF RequestCode
<1> HIDE DEF next
<1> QED  BY <1>1, <1>2, <1>3, Arriving DEF next

LEMMA CodesVerifyCode ==
    ASSUME Inv, CodesInv, NEW j \in Jobs, VerifyCode(j)
    PROVE  CodesInv'
<1>1. PICK a \in Addresses : \E g \in Guesses(a) :
        Becomes(j, [Blank("start") EXCEPT !.kind = "verify", !.address = a, !.key = a,
                                     !.guess = g, !.turn = 1])
  BY DEF VerifyCode
<1>2. PICK g : Becomes(j, [Blank("start") EXCEPT !.kind = "verify", !.address = a, !.key = a,
                                     !.guess = g, !.turn = 1])
  BY <1>1
<1> DEFINE next == [Blank("start") EXCEPT !.kind = "verify", !.address = a, !.key = a,
                                     !.guess = g, !.turn = 1]
<1>3. next.pc = "start" /\ next.address # None
  BY SignInAssumption DEF Blank
<1>4. job[j].pc = "idle" /\ CodesStay /\ Reachable'
  BY TablesUntouched DEF VerifyCode
<1> HIDE DEF next
<1> QED  BY <1>2, <1>3, <1>4, Arriving DEF next

LEMMA CodesGoogle ==
    ASSUME Inv, CodesInv, NEW j \in Jobs, Google(j)
    PROVE  CodesInv'
<1>1. PICK g \in Subjects :
        Becomes(j, [Blank("start") EXCEPT !.kind = "google", !.address = Mail[g], !.key = g, !.turn = 1])
  BY DEF Google
<1> DEFINE next == [Blank("start") EXCEPT !.kind = "google", !.address = Mail[g], !.key = g, !.turn = 1]
<1>2. Mail[g] \in Addresses /\ None \notin Addresses
  BY SignInAssumption
<1>3. next.pc = "start" /\ next.address # None
  BY <1>2 DEF Blank
<1>4. job[j].pc = "idle" /\ CodesStay /\ Reachable'
  BY TablesUntouched DEF Google
<1> HIDE DEF next
<1> QED  BY <1>1, <1>3, <1>4, Arriving DEF next

LEMMA CodesChangeEmail ==
    ASSUME Inv, CodesInv, NEW j \in Jobs, ChangeEmail(j)
    PROVE  CodesInv'
<1>1. PICK s \in AllSessions, a \in Addresses : \E g \in Guesses(a) :
        Becomes(j, [Blank("start") EXCEPT !.kind = "change", !.address = a, !.guess = g,
                                              !.user = db[SessionRow(s)].user])
  BY DEF ChangeEmail
<1>2. PICK g : Becomes(j, [Blank("start") EXCEPT !.kind = "change", !.address = a, !.guess = g,
                                              !.user = db[SessionRow(s)].user])
  BY <1>1
<1> DEFINE next == [Blank("start") EXCEPT !.kind = "change", !.address = a, !.guess = g,
                                              !.user = db[SessionRow(s)].user]
<1>3. next.pc = "start" /\ next.address # None
  BY SignInAssumption DEF Blank
<1>4. job[j].pc = "idle" /\ CodesStay /\ Reachable'
  BY TablesUntouched DEF ChangeEmail
<1> HIDE DEF next
<1> QED  BY <1>2, <1>3, <1>4, Arriving DEF next

LEMMA CodesLogout ==
    ASSUME Inv, CodesInv, NEW j \in Jobs, Logout(j)
    PROVE  CodesInv'
<1>1. PICK s \in AllSessions, all \in BOOLEAN :
        Becomes(j, [Blank("hunt") EXCEPT !.kind = "logout", !.session = s, !.wide = all,
                                             !.user = db[SessionRow(s)].user])
  BY DEF Logout
<1> DEFINE next == [Blank("hunt") EXCEPT !.kind = "logout", !.session = s, !.wide = all,
                                             !.user = db[SessionRow(s)].user]
<1>2. next.pc = "hunt" /\ next.kind = "logout"
  BY DEF Blank
<1>3. job[j].pc = "idle" /\ CodesStay /\ Reachable'
  BY TablesUntouched DEF Logout
<1> HIDE DEF next
<1> QED  BY <1>1, <1>2, <1>3, Arriving DEF next

\* A statement that reads: the request goes on, to a place where it has not
\* compared a code.
LEMMA Reading ==
    ASSUME Inv, CodesInv, NEW j \in Jobs, job[j].pc \in {"look", "start", "hunt"},
           UNCHANGED <<tables, history>>, NEW next, Becomes(j, next),
           CodeOf(j)'
    PROVE  CodesInv'
<1>1. CodesStay /\ Reachable'
  BY TablesUntouched
<1>2. ~Knows(j)
  BY DEF Knows
<1> QED  BY <1>1, <1>2, CodesKept

\* The rows found are of codes that are there.
LEMMA CodesLookForCodes ==
    ASSUME Inv, CodesInv, NEW j \in Jobs, LookForCodes(j)
    PROVE  CodesInv'
<1> USE CodeRowsApart
<1> DEFINE me == job[j]
           found == {c \in AllCodes : /\ Sees(j, CodeRow(c)).at = me.address
                                      /\ me.kind = "code" => Sees(j, CodeRow(c)).state = "open"}
           next == [me EXCEPT !.pc = "write", !.todo = {CodeRow(c) : c \in found}]
<1>1. me.pc = "look" /\ Becomes(j, next) /\ UNCHANGED <<tables, history>>
  BY DEF LookForCodes
<1>2. JobShape(me) /\ me.kind \in {"code", "account"}
  BY <1>1 DEF Inv, JobsInv, JobInv
<1>3. /\ job'[j] = next /\ next.pc = "write" /\ next.kind = me.kind /\ next.address = me.address
      /\ next.todo = {CodeRow(c) : c \in found}
  BY <1>1, <1>2, OtherJobs DEF Inv, JobShape, Blank
<1>4. CodeOf(j) /\ ~Knows(j)
  BY <1>1 DEF CodesInv, Knows
<1>5. \A d \in AllCodes : CodeWriter(d) # j /\ Sees(j, CodeRow(d)) = WasCode(d)
  BY <1>1, <1>4 DEF CodeOf, Sees, CodeWriter, WasCode
<1>6. \A d \in AllCodes : CodeWriter(d)' # j /\ WasCode(d)' = WasCode(d)
  BY <1>1, <1>5 DEF tables, CodeWriter, WasCode
<1>7. \A d \in found : WasCode(d).state # "absent"
  <2> SUFFICES ASSUME NEW d \in found, WasCode(d).state = "absent"  PROVE FALSE
    OBVIOUS
  <2>1. WasCode(d).at = me.address /\ (me.kind = "code" => WasCode(d).state = "open")
    BY <1>5
  <2>2. me.kind = "account"
    BY <1>2, <2>1
  <2>3. me.address # None
    BY <1>4, <2>2 DEF CodeOf
  <2>4. WasCode(d).at = None
    BY DEF CodesInv, RowsOfCodes
  <2> QED  BY <2>1, <2>3, <2>4
<1>8. \A d \in AllCodes : CodeRow(d) \in next.todo => d \in found
  BY <1>3
<1>9. CodeOf(j)'
  <2>1. ~Knows(j)' /\ job[j]'.pc = "write"
    BY <1>3 DEF Knows
  <2>2. \A d \in AllCodes : CodeRow(d) \in job[j]'.todo => WasCode(d)'.state # "absent"
    BY <1>3, <1>6, <1>7, <1>8
  <2>3. job[j]'.kind = "account" => job[j]'.address # None
    BY <1>3, <1>4 DEF CodeOf
  <2>4. job[j]'.kind \notin {"verify", "google", "change"}
    BY <1>2, <1>3
  <2> HIDE DEF next, found, me
  <2> QED  BY <2>1, <2>2, <2>3, <2>4, <1>6 DEF CodeOf
<1> HIDE DEF next
<1> QED  BY <1>1, <1>9, Reading

\* The code a request is about to take is open.
LEMMA CodesStart ==
    ASSUME Inv, CodesInv, NEW j \in Jobs, Start(j)
    PROVE  CodesInv'
<1> USE CodeRowsApart
<1> DEFINE me == job[j]
<1>1. me.pc = "start" /\ UNCHANGED <<tables, history>>
  BY DEF Start
<1>2. JobShape(me) /\ me.kind \in {"verify", "google", "change"}
  BY <1>1 DEF Inv, JobsInv, JobInv
<1>3. PICK c \in AllCodes \union {None}, u \in Accounts \union {None} :
         /\ IF me.kind = "google" THEN c = None ELSE c \in AllCodes /\ Newest(c, me.address)
         /\ Becomes(j, [me EXCEPT !.pc = IF c = None THEN "resolve" ELSE "take", !.code = c, !.user = u,
                                  !.keyed = me.kind # "change" /\ db[KeyRow(me.key)] # None])
  BY DEF Start
<1> DEFINE next == [me EXCEPT !.pc = IF c = None THEN "resolve" ELSE "take", !.code = c, !.user = u,
                              !.keyed = me.kind # "change" /\ db[KeyRow(me.key)] # None]
<1>4. /\ job'[j] = next /\ next.pc = (IF c = None THEN "resolve" ELSE "take") /\ next.code = c
      /\ next.kind = me.kind /\ next.address = me.address
  BY <1>2, <1>3, OtherJobs DEF Inv, JobShape, Blank
<1>5. CodeOf(j) /\ ~Knows(j)
  BY <1>1 DEF CodesInv, Knows
<1>6. \A d \in AllCodes : CodeWriter(d)' # j /\ WasCode(d)' = WasCode(d)
  BY <1>1, <1>5 DEF CodeOf, tables, CodeWriter, WasCode
<1>7. me.address # None
  BY <1>1, <1>5 DEF CodeOf
<1>8. CodeOf(j)'
  <2>1. CASE me.kind = "google"
    <3>1. c = None
      BY <1>3, <2>1
    <3>2. next.pc = "resolve" /\ ~Knows(j)'
      BY <1>4, <2>1, <3>1 DEF Knows
    <3> HIDE DEF next
    <3> QED  BY <1>4, <1>6, <1>7, <3>2 DEF CodeOf, me
  <2>2. CASE me.kind # "google"
    <3>1. c \in AllCodes /\ WasCode(c).state = "open"
      BY <1>3, <2>2 DEF Newest, WasCode
    <3>2. next.pc = "take" /\ ~Knows(j)'
      BY <1>4, <3>1 DEF Knows
    <3>3. next.kind \in {"verify", "change"} /\ WasCode(c)'.state = "open"
      BY <1>2, <1>4, <1>6, <2>2, <3>1
    <3> HIDE DEF next
    <3> QED  BY <1>4, <1>6, <1>7, <3>1, <3>2, <3>3 DEF CodeOf
  <2> QED  BY <2>1, <2>2
<1> HIDE DEF next
<1> QED  BY <1>1, <1>3, <1>8, Reading DEF next

LEMMA CodesHunt ==
    ASSUME Inv, CodesInv, NEW j \in Jobs, Hunt(j)
    PROVE  CodesInv'
<1> USE CodeRowsApart
<1>1. PICK todo, struck :
        Becomes(j, [job[j] EXCEPT !.pc = "strike", !.todo = todo, !.struck = struck])
  BY DEF Hunt
<1> DEFINE next == [job[j] EXCEPT !.pc = "strike", !.todo = todo, !.struck = struck]
<1>2. job[j].pc = "hunt" /\ UNCHANGED <<tables, history>> /\ JobShape(job[j])
  BY DEF Hunt, Inv, JobsInv, JobInv
<1>3. job'[j] = next /\ next.pc = "strike" /\ next.kind = job[j].kind /\ next.address = job[j].address
  BY <1>1, <1>2, OtherJobs DEF Inv, JobShape, Blank
<1>4. CodeOf(j) /\ ~Knows(j)
  BY <1>2 DEF CodesInv, Knows
<1>5. \A d \in AllCodes : CodeWriter(d)' # j
  BY <1>2, <1>4 DEF CodeOf, tables, CodeWriter
<1> HIDE DEF next
<1>6. CodeOf(j)'
  <2>1. job[j].kind \notin {"verify", "change"}
    BY <1>2, <1>4 DEF CodeOf
  <2> QED  BY <1>3, <1>4, <1>5, <2>1 DEF CodeOf, Knows
<1> QED  BY <1>1, <1>2, <1>6, Reading DEF next

(***************************************************************************)
(* Statements that write no code                                           *)
(***************************************************************************)
LEMMA StaysReachable ==
    ASSUME CodesInv, NEW j \in Jobs, NEW R, NEW new, Put(j, R, new),
           \A u \in Accounts : UserRow(u) \in R /\ Undeleted(new[UserRow(u)])
                                 => new[UserRow(u)].address # None
    PROVE  Reachable'
<1> USE CodeRowsApart
<1>1. db' = db
  BY PutRows
<1>2. \A u \in Accounts : UserRow(u) \in R => draft'[UserRow(u)] = new[UserRow(u)]
  BY PutRows
<1>3. \A u \in Accounts : UserRow(u) \notin R => draft'[UserRow(u)] = draft[UserRow(u)]
  BY PutRows
<1> QED  BY <1>1, <1>2, <1>3 DEF CodesInv, Reachable

LEMMA CodesRefresh ==
    ASSUME Inv, CodesInv, NEW j \in Jobs, Refresh(j)
    PROVE  CodesInv'
<1> USE CodeRowsApart
<1>1. PICK s \in AllSessions :
         /\ Put1(j, SessionRow(s), db[SessionRow(s)])
         /\ Becomes(j, [Blank(IF db[SessionRow(s)].state = "live" THEN "rotate" ELSE "hunt")
                          EXCEPT !.kind = "refresh", !.session = s, !.user = db[SessionRow(s)].user])
  BY DEF Refresh
<1> DEFINE next == [Blank(IF db[SessionRow(s)].state = "live" THEN "rotate" ELSE "hunt")
                      EXCEPT !.kind = "refresh", !.session = s, !.user = db[SessionRow(s)].user]
           R == {SessionRow(s)}
           new == [r \in R |-> db[SessionRow(s)]]
<1>2. job[j].pc = "idle" /\ UNCHANGED history
  BY DEF Refresh
<1>3. Put(j, R, new)
  BY <1>1 DEF Put1
<1>4. /\ \A c \in AllCodes : CodeRow(c) \notin R
      /\ \A u \in Accounts : UserRow(u) \notin R
  BY RowsApart
<1>5. next.pc \in {"rotate", "hunt"} /\ next.kind = "refresh"
  BY DEF Blank
<1>6. Becomes(j, next)
  BY <1>1
<1> HIDE DEF next, R, new
<1>7. CodesStay /\ Reachable'
  BY <1>2, <1>3, <1>4, NoCodeWritten, StaysReachable
<1> QED  BY <1>2, <1>5, <1>6, <1>7, Arriving

LEMMA CodesSetUserStatus ==
    ASSUME Inv, CodesInv, NEW j \in Jobs, SetUserStatus(j)
    PROVE  CodesInv'
<1> USE CodeRowsApart
<1>1. PICK u \in Accounts, status \in {"active", "suspended"} :
         /\ Undeleted(db[UserRow(u)])
         /\ Put1(j, UserRow(u), [db[UserRow(u)] EXCEPT !.status = status])
         /\ Becomes(j, [Blank(IF status = "suspended" THEN "hunt" ELSE "commit")
                          EXCEPT !.kind = "status", !.user = u, !.wide = TRUE])
  BY DEF SetUserStatus
<1> DEFINE next == [Blank(IF status = "suspended" THEN "hunt" ELSE "commit")
                      EXCEPT !.kind = "status", !.user = u, !.wide = TRUE]
           R == {UserRow(u)}
           new == [r \in R |-> [db[UserRow(u)] EXCEPT !.status = status]]
<1>2. job[j].pc = "idle" /\ UNCHANGED history
  BY DEF SetUserStatus
<1>3. Becomes(j, next) /\ Put(j, R, new)
  BY <1>1 DEF Put1
<1>4. UserShape(db[UserRow(u)]) /\ db[UserRow(u)].address # None
  BY <1>1 DEF Inv, TablesInv, Shaped, CodesInv, Reachable
<1>5. new[UserRow(u)].address # None
  BY <1>4 DEF UserShape
<1>6. /\ \A c \in AllCodes : CodeRow(c) \notin R
      /\ \A v \in Accounts : UserRow(v) \in R => UserRow(v) = UserRow(u)
  OBVIOUS
<1>7. next.pc \in {"hunt", "commit"} /\ next.kind = "status"
  BY DEF Blank
<1> HIDE DEF next, R, new
<1>8. CodesStay /\ Reachable'
  BY <1>2, <1>3, <1>5, <1>6, NoCodeWritten, StaysReachable
<1> QED  BY <1>2, <1>3, <1>7, <1>8, Arriving

LEMMA CodesDeleteAccount ==
    ASSUME Inv, CodesInv, NEW j \in Jobs, DeleteAccount(j)
    PROVE  CodesInv'
<1> USE CodeRowsApart
<1>1. PICK u \in Accounts :
         /\ db[UserRow(u)].status = "active"
         /\ Put1(j, UserRow(u), db[UserRow(u)])
         /\ Becomes(j, [Blank("hunt") EXCEPT !.kind = "account", !.user = u, !.wide = TRUE,
                                             !.address = db[UserRow(u)].address])
  BY DEF DeleteAccount
<1> DEFINE next == [Blank("hunt") EXCEPT !.kind = "account", !.user = u, !.wide = TRUE,
                                         !.address = db[UserRow(u)].address]
           R == {UserRow(u)}
           new == [r \in R |-> db[UserRow(u)]]
<1>2. job[j].pc = "idle" /\ UNCHANGED history
  BY DEF DeleteAccount
<1>3. Becomes(j, next) /\ Put(j, R, new)
  BY <1>1 DEF Put1
<1>4. db[UserRow(u)].address # None
  BY <1>1 DEF CodesInv, Reachable, Undeleted
<1>5. new[UserRow(u)].address # None
  BY <1>4
<1>6. /\ \A c \in AllCodes : CodeRow(c) \notin R
      /\ \A v \in Accounts : UserRow(v) \in R => UserRow(v) = UserRow(u)
  OBVIOUS
<1>7. next.pc = "hunt" /\ next.kind = "account" /\ next.address # None
  BY <1>4 DEF Blank
<1> HIDE DEF next, R, new
<1>8. CodesStay /\ Reachable'
  BY <1>2, <1>3, <1>5, <1>6, NoCodeWritten, StaysReachable
<1> QED  BY <1>2, <1>3, <1>7, <1>8, Arriving

\* The request that knows its code resolves the identity, or moves the address,
\* and is about to commit.
LEMMA Committing ==
    ASSUME Inv, CodesInv, NEW j \in Jobs, job[j].pc \in {"resolve", "move", "rotate"},
           CodesStay, Reachable', NEW next, Becomes(j, next), next.pc = "commit",
           next.kind = job[j].kind, next.code = job[j].code, next.guess = job[j].guess,
           next.address = job[j].address
    PROVE  CodesInv'
<1>1. job'[j] = next /\ CodeOf(j)
  BY OtherJobs DEF Inv, CodesInv
<1>2. Knows(j) => Knows(j)'
  BY <1>1 DEF Knows
<1>4. ~Knows(j) => ~Knows(j)'
  BY <1>1 DEF Knows, CodeOf
<1>5. CodeOf(j)'
  <2>1. Knows(j)' =>
             /\ next.code \in AllCodes /\ CodeWriter(next.code)' = j
             /\ WasCode(next.code)'.state = "open" /\ WasCode(next.code)'.tries < MaxTries
             /\ NowCode(next.code)' = Guessed(WasCode(next.code)', next.guess = next.code)
    BY <1>1, <1>4 DEF CodeOf, CodesStay
  <2>2. next.kind = "account" => next.address # None
    BY <1>1 DEF CodeOf
  <2> QED  BY <1>1, <2>1, <2>2 DEF CodeOf
<1> QED  BY <1>2, <1>5, CodesKept

LEMMA CodesResolve ==
    ASSUME Inv, CodesInv, NEW j \in Jobs, Resolve(j)
    PROVE  CodesInv'
<1> USE CodeRowsApart
<1> DEFINE me == job[j]
           u == IF me.user = None THEN j ELSE me.user
           old == db[UserRow(u)]
           mine == {UserRow(u), SessionRow(j)} \union (IF me.keyed THEN {} ELSE {KeyRow(me.key)})
           new == [r \in mine |->
                     CASE r = UserRow(u) ->
                            IF old.status = "active" THEN old
                            ELSE [status |-> "active", address |-> me.address]
                       [] r = SessionRow(j) -> LiveSession(u, j)
                       [] OTHER -> u]
<1>1. me.pc = "resolve" /\ Put(j, mine, new) /\ Goto(j, "commit") /\ UNCHANGED history
  BY DEF Resolve
<1>2. JobShape(me) /\ u \in Accounts /\ me.address # None
  BY <1>1, Names DEF Inv, JobsInv, JobInv, CodesInv, CodeOf
<1>3. \A c \in AllCodes : CodeRow(c) \notin mine
  OBVIOUS
<1>4. \A v \in Accounts : UserRow(v) \in mine => UserRow(v) = UserRow(u)
  BY RowsApart
<1>5. Undeleted(new[UserRow(u)]) => new[UserRow(u)].address # None
  <2>1. new[UserRow(u)] = IF old.status = "active" THEN old
                          ELSE [status |-> "active", address |-> me.address]
    <3>1. UserRow(u) \in mine /\ UserRow(u) # SessionRow(j)
      BY RowsApart
    <3> HIDE DEF old, u, mine
    <3> QED  BY <3>1
  <2>2. old.status = "active" => old.address # None
    BY <1>2 DEF CodesInv, Reachable, Undeleted
  <2> QED  BY <1>2, <2>1, <2>2
<1> HIDE DEF new, mine
<1>6. CodesStay /\ Reachable'
  BY <1>1, <1>3, <1>4, <1>5, NoCodeWritten, StaysReachable
<1> DEFINE next == [me EXCEPT !.pc = "commit"]
<1>7. /\ Becomes(j, next) /\ next.pc = "commit" /\ next.kind = me.kind /\ next.code = me.code
      /\ next.guess = me.guess /\ next.address = me.address
  BY <1>1, <1>2 DEF Goto, JobShape, Blank
<1> HIDE DEF next
<1> QED  BY <1>1, <1>6, <1>7, Committing

LEMMA CodesMoveAddress ==
    ASSUME Inv, CodesInv, NEW j \in Jobs, MoveAddress(j)
    PROVE  CodesInv'
<1> USE CodeRowsApart
<1> DEFINE me == job[j]
           u == UserRow(me.user)
           others == {KeyRow(a) : a \in {b \in Addresses \ {me.address} : db[KeyRow(b)] = me.user}}
           mine == {u, KeyRow(me.address)} \union others
           new == [r \in mine |->
                     CASE r = u -> [db[u] EXCEPT !.address = me.address]
                       [] r = KeyRow(me.address) -> me.user
                       [] OTHER -> None]
<1>1. me.pc = "move" /\ Put(j, mine, new) /\ Goto(j, "commit") /\ UNCHANGED history
  BY DEF MoveAddress
<1>2. JobShape(me) /\ me.user \in Accounts /\ me.address # None
  BY <1>1 DEF Inv, JobsInv, JobInv, CodesInv, CodeOf
<1>3. \A c \in AllCodes : CodeRow(c) \notin mine
  OBVIOUS
<1>4. \A v \in Accounts : UserRow(v) \in mine => UserRow(v) = u
  OBVIOUS
<1>5. new[u].address # None
  <2>1. new[u] = [db[u] EXCEPT !.address = me.address]
    OBVIOUS
  <2>2. UserShape(db[u])
    BY <1>2 DEF Inv, TablesInv, Shaped
  <2> HIDE DEF new
  <2> QED  BY <1>2, <2>1, <2>2 DEF UserShape
<1> HIDE DEF new, mine, u
<1>6. CodesStay /\ Reachable'
  BY <1>1, <1>3, <1>4, <1>5, NoCodeWritten, StaysReachable
<1> DEFINE next == [me EXCEPT !.pc = "commit"]
<1>7. /\ Becomes(j, next) /\ next.pc = "commit" /\ next.kind = me.kind /\ next.code = me.code
      /\ next.guess = me.guess /\ next.address = me.address
  BY <1>1, <1>2 DEF Goto, JobShape, Blank
<1> HIDE DEF next
<1> QED  BY <1>1, <1>6, <1>7, Committing

LEMMA CodesRotate ==
    ASSUME Inv, CodesInv, NEW j \in Jobs, Rotate(j)
    PROVE  CodesInv'
<1> USE CodeRowsApart
<1> DEFINE me == job[j]
           mine == {SessionRow(me.session), SessionRow(j)}
           next == [me EXCEPT !.pc = "commit", !.refs = {UserRow(me.user)}]
<1>1. me.pc = "rotate" /\ Becomes(j, next) /\ UNCHANGED history
  BY DEF Rotate
<1>2. PICK new : Put(j, mine, new)
  BY DEF Rotate
<1>3. JobShape(me)
  BY DEF Inv, JobsInv, JobInv
<1>4. CodesStay /\ Reachable'
  <2>1. \A u \in Accounts : UserRow(u) \notin mine
    BY RowsApart
  <2>2. \A c \in AllCodes : CodeRow(c) \notin mine
    OBVIOUS
  <2> HIDE DEF mine
  <2> QED  BY <1>1, <1>2, <2>1, <2>2, NoCodeWritten, StaysReachable
<1>5. /\ next.pc = "commit" /\ next.kind = me.kind /\ next.code = me.code
      /\ next.guess = me.guess /\ next.address = me.address
  BY <1>3 DEF JobShape, Blank
<1> HIDE DEF next
<1> QED  BY <1>1, <1>4, <1>5, Committing

LEMMA CodesStrike ==
    ASSUME Inv, CodesInv, NEW j \in Jobs, Strike(j)
    PROVE  CodesInv'
<1> USE CodeRowsApart
<1> DEFINE me == job[j]
<1>1. me.pc = "strike" /\ UNCHANGED history
  BY DEF Strike
<1>2. PICK new : Put(j, me.todo, new)
  BY DEF Strike
<1>3. PICK missed : Becomes(j, [me EXCEPT !.pc = IF me.kind = "account" THEN "look" ELSE "commit",
                                          !.todo = {}, !.missed = missed])
  BY DEF Strike
<1>4. JobShape(me) /\ \A r \in me.todo : r \in SessionRows
  BY <1>1 DEF Inv, JobsInv, JobInv
<1>5. \A c \in AllCodes : CodeRow(c) \notin me.todo
  BY <1>4 DEF SessionRows
<1>6. \A u \in Accounts : UserRow(u) \notin me.todo
  BY <1>4, RowsApart DEF SessionRows
<1>7. CodesStay /\ Reachable'
  BY <1>1, <1>2, <1>5, <1>6, NoCodeWritten, StaysReachable
<1> DEFINE next == [me EXCEPT !.pc = IF me.kind = "account" THEN "look" ELSE "commit",
                              !.todo = {}, !.missed = missed]
<1>8. /\ next.pc = (IF me.kind = "account" THEN "look" ELSE "commit")
      /\ next.kind = me.kind /\ next.address = me.address
  BY <1>4 DEF JobShape, Blank
<1>9. job'[j] = next
  BY <1>3, OtherJobs DEF Inv
<1>10. CodeOf(j) /\ ~Knows(j)
  BY <1>1 DEF CodesInv, Knows
<1>11. me.kind \notin {"verify", "change"}
  BY <1>1 DEF CodesInv, CodeOf
<1> HIDE DEF next
<1>12. CodeOf(j)'
  <2>1. \A d \in AllCodes : CodeWriter(d)' # j
    BY <1>1, <1>7, <1>10 DEF CodeOf, CodesStay
  <2>2. job'[j].kind = job[j].kind /\ (job[j].kind \in {"account", "verify", "google"} => job'[j].address # None)
    BY <1>8, <1>9, <1>10 DEF CodeOf
  <2>3. job'[j].pc \in {"look", "commit"}
    BY <1>8, <1>9
  <2> HIDE DEF me
  <2> QED  BY <1>11, <2>1, <2>2, <2>3 DEF CodeOf, Knows, me
<1> QED  BY <1>1, <1>3, <1>7, <1>10, <1>12, CodesKept DEF next

(***************************************************************************)
(* Statements that write codes                                             *)
(***************************************************************************)
\* What a code may become, in its newest version.
Becoming(c, new, known) ==
    /\ CodeShape(new)
    /\ new.state = "absent" => WasCode(c).state = "absent" /\ new.at = None
    /\ new.state \in {"open", "absent"} => uses[c] = 0
    /\ new.state # "gone" => new.tries = wrong[c] \/ known

LEMMA CodesWritten ==
    ASSUME Inv, CodesInv, NEW j \in Jobs, job[j].pc # "done", ~Knows(j),
           NEW R, NEW new, Put(j, R, new), UNCHANGED history, NEW next, Becomes(j, next),
           \A c \in AllCodes : CodeRow(c) \in R =>
              /\ Becoming(c, new[CodeRow(c)], Knows(j)' /\ next.code = c)
              /\ c \in Jobs /\ c # j => job[c].pc = "done",
           Reachable', CodeOf(j)'
    PROVE  CodesInv'
<1> USE CodeRowsApart
<1>1. /\ DOMAIN job' = Jobs /\ job'[j] = next
      /\ \A k \in Jobs \ {j} : job'[k] = job[k]
  BY OtherJobs DEF Inv
<1>2. uses' = uses /\ wrong' = wrong /\ db' = db
  BY PutRows DEF history
<1>3. \A c \in AllCodes : WasCode(c)' = WasCode(c)
  BY <1>2 DEF WasCode
<1>4. \A c \in AllCodes : CodeRow(c) \in R =>
        /\ CodeWriter(c) \in {Nobody, j} /\ CodeWriter(c)' = j
        /\ NowCode(c)' = new[CodeRow(c)]
  BY PutRows DEF CodeWriter, NowCode
<1>5. \A c \in AllCodes : CodeRow(c) \notin R =>
        CodeWriter(c)' = CodeWriter(c) /\ NowCode(c)' = NowCode(c)
  BY PutRows DEF CodeWriter, NowCode
<1>6. \A c \in AllCodes : CodeRow(c) \notin R /\ Compared(c) => Compared(c)'
  <2> SUFFICES ASSUME NEW c \in AllCodes, CodeRow(c) \notin R, Compared(c)  PROVE Compared(c)'
    OBVIOUS
  <2>1. CodeWriter(c)' = CodeWriter(c) /\ CodeWriter(c) # j
    BY <1>5 DEF Compared
  <2> QED  BY <1>1, <2>1 DEF Compared, Knows
<1>7. RowsOfCodes'
  <2> SUFFICES ASSUME NEW c \in AllCodes
               PROVE  /\ CodeShape(WasCode(c)') /\ CodeShape(NowCode(c)')
                      /\ WasCode(c)'.state = "absent" => WasCode(c)'.at = None /\ wrong[c] = 0
                      /\ NowCode(c)'.state = "absent" => WasCode(c)'.state = "absent" /\ NowCode(c)'.at = None
                      /\ WasCode(c)'.state \in {"open", "absent"} => uses[c] = 0
                      /\ NowCode(c)'.state \in {"open", "absent"} => uses[c] = 0
                      /\ WasCode(c)'.state # "gone" => WasCode(c)'.tries = wrong[c]
                      /\ NowCode(c)'.state # "gone" => NowCode(c)'.tries = wrong[c] \/ Compared(c)'
    BY <1>2 DEF RowsOfCodes, CodeShape
  <2>1. CASE CodeRow(c) \in R
    <3>1. Becoming(c, NowCode(c)', Knows(j)' /\ next.code = c)
      BY <1>4, <2>1
    <3>2. Knows(j)' /\ next.code = c => Compared(c)'
      BY <1>1, <1>4, <2>1 DEF Compared
    <3> QED  BY <1>3, <3>1, <3>2 DEF Becoming, CodesInv, RowsOfCodes
  <2>2. CASE CodeRow(c) \notin R
    BY <1>3, <1>5, <1>6, <2>2 DEF CodesInv, RowsOfCodes
  <2> QED  BY <2>1, <2>2
<1>8. Answers'
  BY <1>2 DEF CodesInv, Answers
<1>9. Unsent'
  <2> SUFFICES ASSUME NEW k \in Jobs, job'[k].pc # "done"
               PROVE  /\ WasCode(k)'.state = "absent"
                      /\ CodeWriter(k)' = k \/ NowCode(k)'.state = "absent"
    BY DEF Unsent
  <2>1. job[k].pc # "done"
    BY <1>1
  <2>2. WasCode(k).state = "absent" /\ (CodeWriter(k) = k \/ NowCode(k).state = "absent")
    BY <2>1 DEF CodesInv, Unsent
  <2>3. CASE CodeRow(k) \in R
    BY <1>3, <1>4, <2>1, <2>2, <2>3
  <2>4. CASE CodeRow(k) \notin R
    BY <1>3, <1>5, <2>2, <2>4
  <2> QED  BY <2>3, <2>4
<1>10. \A k \in Jobs \ {j} : CodeOf(k)'
  <2> SUFFICES ASSUME NEW k \in Jobs \ {j}  PROVE CodeOf(k)'
    OBVIOUS
  <2>1. CodeOf(k) /\ job'[k] = job[k]
    BY <1>1 DEF CodesInv
  <2>2. Knows(k)' <=> Knows(k)
    BY <2>1 DEF Knows
  <2>3. Knows(k) => CodeRow(job[k].code) \notin R
    BY <1>4, <2>1, Names DEF CodeOf
  <2>4. Knows(k) => /\ CodeWriter(job[k].code)' = k /\ NowCode(job[k].code)' = NowCode(job[k].code)
                    /\ WasCode(job[k].code)' = WasCode(job[k].code)
    BY <1>3, <1>5, <2>1, <2>3 DEF CodeOf
  <2>5. \A d \in AllCodes : CodeWriter(d) # k => CodeWriter(d)' # k
    BY <1>4, <1>5
  <2> QED  BY <1>3, <2>1, <2>2, <2>4, <2>5 DEF CodeOf
<1> QED  BY <1>7, <1>8, <1>9, <1>10 DEF CodesInv

\* A guess: the code is the one that was open as the request looked, for it has
\* not moved since, and nobody has it.
LEMMA CodesTakeCode ==
    ASSUME Inv, CodesInv, NEW j \in Jobs, TakeCode(j)
    PROVE  CodesInv'
<1> USE CodeRowsApart
<1> DEFINE me == job[j]
           c == me.code
           R == {CodeRow(c)}
           right == me.guess = c
           new == [r \in R |-> Guessed(db[CodeRow(c)], right)]
           next == [me EXCEPT !.pc = AfterGuess(me, right)]
<1>1. /\ me.pc = "take" /\ Unmoved(j, {CodeRow(c)}) /\ db[CodeRow(c)].tries < MaxTries
      /\ Put(j, R, new) /\ Becomes(j, next) /\ UNCHANGED history
  BY DEF TakeCode, Put1, Goto
<1>2. CodeOf(j) /\ JobShape(me) /\ ~Knows(j)
  BY <1>1 DEF CodesInv, Inv, JobsInv, JobInv, Knows
<1>3. /\ me.kind \in {"verify", "change"} /\ c \in AllCodes /\ me.address # None
      /\ WasCode(c).state = "open" /\ WasCode(c).tries < MaxTries
  BY <1>1, <1>2 DEF CodeOf, Unmoved, WasCode
<1>4. /\ CodeShape(WasCode(c)) /\ uses[c] = 0 /\ WasCode(c).tries = wrong[c]
  BY <1>3 DEF CodesInv, RowsOfCodes
<1>5. \A d \in AllCodes : CodeRow(d) \in R <=> d = c
  OBVIOUS
<1>6. new[CodeRow(c)] = Guessed(WasCode(c), right)
  BY DEF WasCode
<1>7. /\ job'[j] = next /\ next.pc \in {"commit", "move", "resolve"} /\ next.kind = me.kind
      /\ next.code = c /\ next.guess = me.guess /\ next.address = me.address
  BY <1>1, <1>2, OtherJobs DEF Inv, JobShape, Blank, AfterGuess
<1>8. Knows(j)'
  BY <1>3, <1>7 DEF Knows
<1>9. /\ CodeShape(Guessed(WasCode(c), right)) /\ Guessed(WasCode(c), right).state \in {"open", "used"}
  BY <1>3, <1>4 DEF Guessed, CodeShape
<1>10. Becoming(c, new[CodeRow(c)], TRUE)
  BY <1>4, <1>6, <1>9 DEF Becoming
<1>11. c \in Jobs => job[c].pc = "done"
  BY <1>3 DEF CodesInv, Unsent
<1>12. \A u \in Accounts : UserRow(u) \notin R
  OBVIOUS
<1> HIDE DEF R, new, next
<1>13. /\ lock'[CodeRow(c)] = j /\ db' = db
       /\ draft'[CodeRow(c)] = Guessed(db[CodeRow(c)], me.guess = c)
  <2>1. CodeRow(c) \in Row /\ CodeRow(c) \in R
    BY <1>3, <1>5
  <2> HIDE DEF c
  <2> QED  BY <1>1, <1>6, <2>1, PutRows DEF WasCode
<1>14. CodeOf(j)'
  <2>1. /\ job'[j].code = c /\ job'[j].guess = me.guess /\ job'[j].kind = me.kind
        /\ job'[j].pc \in {"commit", "move", "resolve"} /\ job'[j].address = me.address
    BY <1>7
  <2> HIDE DEF c, me
  <2> QED  BY <1>3, <1>8, <1>13, <2>1 DEF CodeOf, CodeWriter, NowCode, WasCode
<1>15. Reachable'
  BY <1>1, <1>12, StaysReachable
<1>16. \A d \in AllCodes : CodeRow(d) \in R =>
              /\ Becoming(d, new[CodeRow(d)], Knows(j)' /\ next.code = d)
              /\ d \in Jobs /\ d # j => job[d].pc = "done"
  BY <1>5, <1>7, <1>8, <1>10, <1>11
<1> QED  BY <1>1, <1>2, <1>14, <1>15, <1>16, CodesWritten

\* A new code takes the place of those found, unless they have been used.
LEMMA CodesReplaceCodes ==
    ASSUME Inv, CodesInv, NEW j \in Jobs, ReplaceCodes(j)
    PROVE  CodesInv'
<1> USE CodeRowsApart
<1> DEFINE me == job[j]
           R == me.todo \union {CodeRow(j)}
           new == [r \in R |->
                     IF r = CodeRow(j) THEN OpenCode(me.address, me.made)
                     ELSE [draft[r] EXCEPT !.state = IF @ = "open" THEN "replaced" ELSE @]]
           next == [me EXCEPT !.pc = "commit", !.todo = {}]
<1>1. me.pc = "write" /\ me.kind = "code" /\ Put(j, R, new) /\ Becomes(j, next) /\ UNCHANGED history
  BY DEF ReplaceCodes
<1>2. CodeOf(j) /\ JobShape(me) /\ ~Knows(j) /\ \A r \in me.todo : r \in CodeRows
  BY <1>1 DEF CodesInv, Inv, JobsInv, JobInv, Knows
<1>3. job'[j] = next /\ next.pc = "commit" /\ next.kind = "code"
  BY <1>1, <1>2, OtherJobs DEF Inv, JobShape, Blank
<1>4. CodeOf(j)'
  <2> HIDE DEF next
  <2> QED  BY <1>3 DEF CodeOf, Knows
<1>5. \A u \in Accounts : UserRow(u) \notin R
  BY <1>2 DEF CodeRows
<1>6. ASSUME NEW d \in AllCodes, CodeRow(d) \in R
      PROVE  /\ Becoming(d, new[CodeRow(d)], Knows(j)' /\ next.code = d)
             /\ d \in Jobs /\ d # j => job[d].pc = "done"
  <2>1. CASE d = j
    <3>1. new[CodeRow(d)] = OpenCode(me.address, me.made)
      BY <2>1
    <3>2. WasCode(d).state = "absent"
      BY <1>1, <2>1 DEF CodesInv, Unsent
    <3>3. uses[d] = 0 /\ wrong[d] = 0
      BY <3>2 DEF CodesInv, RowsOfCodes
    <3> HIDE DEF new
    <3> QED  BY <2>1, <3>1, <3>3 DEF Becoming, CodeShape, OpenCode
  <2>2. CASE d # j
    <3>1. CodeRow(d) \in me.todo /\ CodeRow(d) # CodeRow(j)
      BY <1>6, <2>2
    <3>2. new[CodeRow(d)] = [NowCode(d) EXCEPT !.state = IF @ = "open" THEN "replaced" ELSE @]
      BY <1>6, <3>1 DEF NowCode
    <3>3. WasCode(d).state # "absent"
      BY <1>1, <1>2, <3>1 DEF CodeOf
    <3>4. CodeWriter(d) \in {Nobody, j}
      BY <1>1, <1>6, PutRows DEF CodeWriter
    <3>5. ~Compared(d)
      BY <1>2, <3>4, Names DEF Compared
    <3> HIDE DEF new
    <3>6. CodeShape(NowCode(d)) /\ NowCode(d).state # "absent"
      BY <3>3 DEF CodesInv, RowsOfCodes
    <3>7. new[CodeRow(d)].state # "open" /\ new[CodeRow(d)].state # "absent"
      BY <3>2, <3>6 DEF CodeShape
    <3>8. /\ CodeShape(new[CodeRow(d)]) /\ new[CodeRow(d)].tries = NowCode(d).tries
          /\ new[CodeRow(d)].state = "gone" <=> NowCode(d).state = "gone"
      BY <3>2, <3>6 DEF CodeShape
    <3>9. NowCode(d).state # "gone" => NowCode(d).tries = wrong[d]
      BY <3>5 DEF CodesInv, RowsOfCodes
    <3> QED  BY <3>3, <3>7, <3>8, <3>9 DEF Becoming, CodesInv, Unsent
  <2> QED  BY <2>1, <2>2
<1> HIDE DEF R, new, next
<1>7. Reachable'
  BY <1>1, <1>5, StaysReachable
<1> QED  BY <1>1, <1>2, <1>4, <1>6, <1>7, CodesWritten

\* With the account its codes go.
LEMMA CodesEraseAccount ==
    ASSUME Inv, CodesInv, NEW j \in Jobs, EraseAccount(j)
    PROVE  CodesInv'
<1> USE CodeRowsApart
<1> DEFINE me == job[j]
           R == me.todo \union {UserRow(me.user)}
           new == [r \in R |-> IF r = UserRow(me.user) THEN [draft[r] EXCEPT !.status = "inactive"]
                               ELSE [NoCode EXCEPT !.state = "gone"]]
           next == [me EXCEPT !.pc = "commit", !.todo = {}]
<1>1. me.pc = "write" /\ me.kind = "account" /\ Put(j, R, new) /\ Becomes(j, next) /\ UNCHANGED history
  BY DEF EraseAccount
<1>2. /\ CodeOf(j) /\ JobShape(me) /\ ~Knows(j) /\ \A r \in me.todo : r \in CodeRows
      /\ me.user \in Accounts
  BY <1>1 DEF CodesInv, Inv, JobsInv, JobInv, Knows
<1>3. job'[j] = next /\ next.pc = "commit" /\ next.kind = "account" /\ next.address = me.address
  BY <1>1, <1>2, OtherJobs DEF Inv, JobShape, Blank
<1>4. CodeOf(j)'
  <2>1. me.address # None
    BY <1>1, <1>2 DEF CodeOf
  <2> HIDE DEF next, me
  <2> QED  BY <1>3, <2>1 DEF CodeOf, Knows
<1>5. \A u \in Accounts : UserRow(u) \in R => UserRow(u) = UserRow(me.user)
  BY <1>2 DEF CodeRows
<1>6. ~Undeleted(new[UserRow(me.user)])
  <2>1. UserShape(draft[UserRow(me.user)])
    BY <1>2 DEF Inv, TablesInv, Shaped
  <2>2. new[UserRow(me.user)] = [draft[UserRow(me.user)] EXCEPT !.status = "inactive"]
    OBVIOUS
  <2> HIDE DEF new
  <2> QED  BY <2>1, <2>2 DEF UserShape, Undeleted
<1>7. ASSUME NEW d \in AllCodes, CodeRow(d) \in R
      PROVE  /\ Becoming(d, new[CodeRow(d)], Knows(j)' /\ next.code = d)
             /\ d \in Jobs /\ d # j => job[d].pc = "done"
  <2>1. CodeRow(d) \in me.todo
    BY <1>7
  <2>2. new[CodeRow(d)] = [NoCode EXCEPT !.state = "gone"]
    BY <1>7
  <2>3. WasCode(d).state # "absent"
    BY <1>1, <1>2, <2>1 DEF CodeOf
  <2> HIDE DEF new
  <2> QED  BY <2>2, <2>3 DEF Becoming, CodeShape, NoCode, CodesInv, Unsent
<1> HIDE DEF R, new, next
<1>8. Reachable'
  BY <1>1, <1>5, <1>6, StaysReachable
<1> QED  BY <1>1, <1>2, <1>4, <1>7, <1>8, CodesWritten

(***************************************************************************)
(* The end of a transaction                                                *)
(***************************************************************************)
LEMMA CodesRollBack ==
    ASSUME Inv, CodesInv, NEW j \in Jobs, job[j].pc # "done", RollBack(j),
           NEW next, Becomes(j, next),
           \/ next.pc = "start" /\ next.address # None
           \/ next.pc = "done" /\ next.kind = "none"
    PROVE  CodesInv'
<1> USE CodeRowsApart
<1>1. /\ DOMAIN job' = Jobs /\ job'[j] = next
      /\ \A k \in Jobs \ {j} : job'[k] = job[k]
  BY OtherJobs DEF Inv
<1>2. uses' = uses /\ wrong' = wrong /\ db' = db
  BY DEF RollBack, history
<1>3. \A c \in AllCodes : WasCode(c)' = WasCode(c)
  BY <1>2 DEF WasCode
<1>4. \A c \in AllCodes : CodeWriter(c) = j => CodeWriter(c)' = Nobody /\ NowCode(c)' = WasCode(c)
  BY DEF RollBack, Unlocked, CodeWriter, NowCode, WasCode
<1>5. \A c \in AllCodes : CodeWriter(c) # j =>
        CodeWriter(c)' = CodeWriter(c) /\ NowCode(c)' = NowCode(c)
  BY DEF RollBack, Unlocked, CodeWriter, NowCode
<1>6. \A c \in AllCodes : CodeWriter(c) # j /\ Compared(c) => Compared(c)'
  <2> SUFFICES ASSUME NEW c \in AllCodes, CodeWriter(c) # j, Compared(c)  PROVE Compared(c)'
    OBVIOUS
  <2> QED  BY <1>1, <1>5 DEF Compared, Knows
<1>7. RowsOfCodes'
  <2> SUFFICES ASSUME NEW c \in AllCodes
               PROVE  /\ CodeShape(WasCode(c)') /\ CodeShape(NowCode(c)')
                      /\ WasCode(c)'.state = "absent" => WasCode(c)'.at = None /\ wrong[c] = 0
                      /\ NowCode(c)'.state = "absent" => WasCode(c)'.state = "absent" /\ NowCode(c)'.at = None
                      /\ WasCode(c)'.state \in {"open", "absent"} => uses[c] = 0
                      /\ NowCode(c)'.state \in {"open", "absent"} => uses[c] = 0
                      /\ WasCode(c)'.state # "gone" => WasCode(c)'.tries = wrong[c]
                      /\ NowCode(c)'.state # "gone" => NowCode(c)'.tries = wrong[c] \/ Compared(c)'
    BY <1>2 DEF RowsOfCodes, CodeShape
  <2>1. CASE CodeWriter(c) = j
    BY <1>3, <1>4, <2>1 DEF CodesInv, RowsOfCodes
  <2>2. CASE CodeWriter(c) # j
    BY <1>3, <1>5, <1>6, <2>2 DEF CodesInv, RowsOfCodes
  <2> QED  BY <2>1, <2>2
<1>8. Answers'
  BY <1>2 DEF CodesInv, Answers
<1>9. Unsent'
  <2> SUFFICES ASSUME NEW k \in Jobs, job'[k].pc # "done"
               PROVE  /\ WasCode(k)'.state = "absent"
                      /\ CodeWriter(k)' = k \/ NowCode(k)'.state = "absent"
    BY DEF Unsent
  <2>1. WasCode(k).state = "absent" /\ (CodeWriter(k) = k \/ NowCode(k).state = "absent")
    BY <1>1 DEF CodesInv, Unsent
  <2>2. CASE CodeWriter(k) = j
    BY <1>3, <1>4, <2>1, <2>2
  <2>3. CASE CodeWriter(k) # j
    BY <1>3, <1>5, <2>1, <2>3
  <2> QED  BY <2>2, <2>3
<1>10. Reachable'
  <2>1. \A u \in Accounts : draft'[UserRow(u)] \in {db[UserRow(u)], draft[UserRow(u)]}
    BY DEF RollBack
  <2> QED  BY <1>2, <2>1 DEF CodesInv, Reachable
<1>11. \A k \in Jobs \ {j} : CodeOf(k)'
  <2> SUFFICES ASSUME NEW k \in Jobs \ {j}  PROVE CodeOf(k)'
    OBVIOUS
  <2>1. CodeOf(k) /\ job'[k] = job[k]
    BY <1>1 DEF CodesInv
  <2>2. Knows(k)' <=> Knows(k)
    BY <2>1 DEF Knows
  <2>3. Knows(k) => /\ CodeWriter(job[k].code)' = k /\ NowCode(job[k].code)' = NowCode(job[k].code)
                    /\ WasCode(job[k].code)' = WasCode(job[k].code)
    BY <1>3, <1>5, <2>1 DEF CodeOf
  <2>4. \A d \in AllCodes : CodeWriter(d) # k => CodeWriter(d)' # k
    BY <1>4, <1>5, Names
  <2> QED  BY <1>3, <2>1, <2>2, <2>3, <2>4 DEF CodeOf
<1>12. CodeOf(j)'
  <2>1. \A d \in AllCodes : CodeWriter(d)' # j
    BY <1>4, <1>5, Names
  <2> QED  BY <1>1, <2>1 DEF CodeOf, Knows
<1> QED  BY <1>7, <1>8, <1>9, <1>10, <1>11, <1>12 DEF CodesInv

LEMMA CodesAbort ==
    ASSUME Inv, CodesInv, NEW j \in Jobs, Abort(j)
    PROVE  CodesInv'
<1> DEFINE next == Blank("done")
<1>1. next.pc = "done" /\ next.kind = "none"
  BY DEF Blank
<1>2. job[j].pc # "done" /\ RollBack(j) /\ Becomes(j, next)
  BY DEF Abort
<1> HIDE DEF next
<1> QED  BY <1>1, <1>2, CodesRollBack

LEMMA CodesAgain ==
    ASSUME Inv, CodesInv, NEW j \in Jobs, Again(j)
    PROVE  CodesInv'
<1> DEFINE me == job[j]
           next == [Blank("start") EXCEPT !.kind = me.kind, !.address = me.address, !.key = me.key,
                                         !.guess = me.guess, !.turn = me.turn + 1]
<1>1. /\ me.kind \in {"verify", "google"} /\ me.pc \in {"resolve", "commit"}
      /\ RollBack(j) /\ Becomes(j, next)
  BY DEF Again
<1>2. next.pc = "start" /\ next.address = me.address
  BY DEF Blank
<1>3. me.address # None
  BY <1>1 DEF CodesInv, CodeOf
<1> HIDE DEF next
<1> QED  BY <1>1, <1>2, <1>3, CodesRollBack

\* What is told of a code is what has become of it: a code whose row another
\* request has written has moved for those that are about to take it.
LEMMA CodesCommit ==
    ASSUME Inv, CodesInv, NEW j \in Jobs, Commit(j)
    PROVE  CodesInv'
<1> USE CodeRowsApart
<1> DEFINE me == job[j]
           guessed == me.kind \in {"verify", "change"}
<1>1. /\ me.pc = "commit" /\ draft' = draft /\ DOMAIN job' = Jobs
      /\ job'[j] = Blank("done")
  BY DEF Commit
<1>2. \A k \in Jobs \ {j} :
        job'[k] = IF job[k].pc \in {"take", "resolve", "move"}
                  THEN [job[k] EXCEPT !.moved = @ \union Moving(j)] ELSE job[k]
  BY DEF Commit
<1>3. /\ uses' = Counted(uses, me.code, guessed /\ me.guess = me.code)
      /\ wrong' = Counted(wrong, me.code, guessed /\ me.guess # me.code)
  BY DEF Commit
<1>4. \A c \in AllCodes : NowCode(c)' = NowCode(c)
  BY <1>1 DEF NowCode
<1>5. \A c \in AllCodes : CodeWriter(c) = j => CodeWriter(c)' = Nobody /\ WasCode(c)' = NowCode(c)
  BY DEF Commit, Unlocked, Sees, CodeWriter, NowCode, WasCode
<1>6. \A c \in AllCodes : CodeWriter(c) # j =>
        CodeWriter(c)' = CodeWriter(c) /\ WasCode(c)' = WasCode(c)
  BY DEF Commit, Unlocked, Sees, CodeWriter, WasCode
<1>7. CodeOf(j) /\ (guessed <=> Knows(j))
  BY <1>1 DEF CodesInv, Knows
<1>8. \A k \in Jobs \ {j} :
        /\ job'[k].pc = job[k].pc /\ job'[k].kind = job[k].kind /\ job'[k].code = job[k].code
        /\ job'[k].guess = job[k].guess /\ job'[k].todo = job[k].todo
        /\ job'[k].address = job[k].address
        /\ job[k].pc = "take" => job'[k].moved = job[k].moved \union Moving(j)
  <2> SUFFICES ASSUME NEW k \in Jobs \ {j}
               PROVE  /\ job'[k].pc = job[k].pc /\ job'[k].kind = job[k].kind
                      /\ job'[k].code = job[k].code /\ job'[k].guess = job[k].guess
                      /\ job'[k].todo = job[k].todo /\ job'[k].address = job[k].address
                      /\ job[k].pc = "take" => job'[k].moved = job[k].moved \union Moving(j)
    OBVIOUS
  <2>1. JobShape(job[k])
    BY DEF Inv, JobsInv, JobInv
  <2> QED  BY <1>2, <2>1 DEF JobShape, Blank
<1>9. \A k \in Jobs \ {j} : Knows(k)' <=> Knows(k)
  BY <1>8 DEF Knows
<1>10. \A c \in AllCodes : CodeWriter(c) # j /\ Compared(c) => Compared(c)'
  <2> SUFFICES ASSUME NEW c \in AllCodes, CodeWriter(c) # j, Compared(c)  PROVE Compared(c)'
    OBVIOUS
  <2>1. CodeWriter(c)' = CodeWriter(c) /\ CodeWriter(c) \in Jobs \ {j}
    BY <1>6 DEF Compared
  <2> QED  BY <1>8, <1>9, <2>1 DEF Compared
<1>11. \A c \in AllCodes : c # me.code \/ ~guessed => uses'[c] = uses[c] /\ wrong'[c] = wrong[c]
  BY <1>3 DEF Counted, CodesInv, Answers
<1>12. DOMAIN uses' = AllCodes /\ DOMAIN wrong' = AllCodes
  BY <1>3 DEF Counted, CodesInv, Answers
<1>13. ASSUME guessed
       PROVE  LET c == me.code IN
              /\ c \in AllCodes /\ CodeWriter(c) = j /\ CodeShape(WasCode(c))
              /\ uses[c] = 0 /\ wrong[c] \in Nat /\ WasCode(c).tries = wrong[c] /\ wrong[c] < MaxTries
              /\ NowCode(c) = Guessed(WasCode(c), me.guess = c) /\ WasCode(c).state = "open"
  <2>1. Knows(j)
    BY <1>7, <1>13
  <2>2. /\ me.code \in AllCodes /\ CodeWriter(me.code) = j /\ WasCode(me.code).state = "open"
        /\ WasCode(me.code).tries < MaxTries
        /\ NowCode(me.code) = Guessed(WasCode(me.code), me.guess = me.code)
    BY <1>7, <2>1 DEF CodeOf
  <2> HIDE DEF me
  <2> QED  BY <2>2 DEF CodesInv, RowsOfCodes, CodeShape
<1>14. ASSUME guessed
       PROVE  LET c == me.code IN
              /\ uses'[c] \in 0 .. 1 /\ wrong'[c] \in 0 .. MaxTries
              /\ CodeShape(NowCode(c)) /\ NowCode(c).state \in {"open", "used"}
              /\ NowCode(c).state = "open" => uses'[c] = 0
              /\ NowCode(c).tries = wrong'[c]
  <2> DEFINE c == me.code
  <2>1. CASE me.guess = c
    <3>1. uses'[c] = uses[c] + 1 /\ wrong'[c] = wrong[c]
      BY <1>3, <1>13, <1>14, <2>1 DEF Counted, CodesInv, Answers
    <3>2. NowCode(c) = [WasCode(c) EXCEPT !.state = "used"]
      BY <1>13, <1>14, <2>1 DEF Guessed
    <3>3. MaxTries \in Nat
      BY SignInAssumption
    <3> HIDE DEF c, me, guessed
    <3> QED  BY <1>13, <1>14, <3>1, <3>2, <3>3 DEF CodeShape, c
  <2>2. CASE me.guess # c
    <3>1. uses'[c] = uses[c] /\ wrong'[c] = wrong[c] + 1
      BY <1>3, <1>13, <1>14, <2>2 DEF Counted, CodesInv, Answers
    <3>2. NowCode(c) = [WasCode(c) EXCEPT !.tries = @ + 1]
      BY <1>13, <1>14, <2>2 DEF Guessed
    <3>3. MaxTries \in Nat
      BY SignInAssumption
    <3> HIDE DEF c, me, guessed
    <3> QED  BY <1>13, <1>14, <3>1, <3>2, <3>3 DEF CodeShape, c
  <2> QED  BY <2>1, <2>2
<1>15. Answers'
  <2> SUFFICES ASSUME NEW c \in AllCodes
               PROVE  uses'[c] \in 0 .. 1 /\ wrong'[c] \in 0 .. MaxTries
    BY <1>12 DEF Answers
  <2>1. CASE guessed /\ c = me.code
    BY <1>14, <2>1
  <2>2. CASE ~(guessed /\ c = me.code)
    BY <1>11, <2>2 DEF CodesInv, Answers
  <2> QED  BY <2>1, <2>2
<1>16. RowsOfCodes'
  <2> SUFFICES ASSUME NEW c \in AllCodes
               PROVE  /\ CodeShape(WasCode(c)') /\ CodeShape(NowCode(c)')
                      /\ WasCode(c)'.state = "absent" => WasCode(c)'.at = None /\ wrong'[c] = 0
                      /\ NowCode(c)'.state = "absent" => WasCode(c)'.state = "absent" /\ NowCode(c)'.at = None
                      /\ WasCode(c)'.state \in {"open", "absent"} => uses'[c] = 0
                      /\ NowCode(c)'.state \in {"open", "absent"} => uses'[c] = 0
                      /\ WasCode(c)'.state # "gone" => WasCode(c)'.tries = wrong'[c]
                      /\ NowCode(c)'.state # "gone" => NowCode(c)'.tries = wrong'[c] \/ Compared(c)'
    BY DEF RowsOfCodes, CodeShape
  <2>1. CASE guessed /\ c = me.code
    <3>1. NowCode(c)' = NowCode(c) /\ WasCode(c)' = NowCode(c)
      BY <1>4, <1>5, <1>13, <2>1
    <3>2. /\ CodeShape(NowCode(c)) /\ NowCode(c).state \in {"open", "used"}
          /\ NowCode(c).state = "open" => uses'[c] = 0
          /\ NowCode(c).tries = wrong'[c]
      BY <1>14, <2>1
    <3> HIDE DEF me, guessed
    <3> QED  BY <3>1, <3>2
  <2>2. CASE ~(guessed /\ c = me.code)
    <3>1. uses'[c] = uses[c] /\ wrong'[c] = wrong[c]
      BY <1>11, <2>2
    <3>2. CASE CodeWriter(c) = j
      <4>1. ~Compared(c)
        BY <1>7, <2>2, <3>2 DEF Compared
      <4> HIDE DEF me, guessed
      <4> QED  BY <1>4, <1>5, <3>1, <3>2, <4>1 DEF CodesInv, RowsOfCodes
    <3>3. CASE CodeWriter(c) # j
      <4> HIDE DEF me, guessed
      <4> QED  BY <1>4, <1>6, <1>10, <3>1, <3>3 DEF CodesInv, RowsOfCodes
    <3> QED  BY <3>2, <3>3
  <2> QED  BY <2>1, <2>2
<1>17. Unsent'
  <2> SUFFICES ASSUME NEW k \in Jobs, job'[k].pc # "done"
               PROVE  /\ WasCode(k)'.state = "absent"
                      /\ CodeWriter(k)' = k \/ NowCode(k)'.state = "absent"
    BY DEF Unsent
  <2>1. k # j
    BY <1>1 DEF Blank
  <2>2. WasCode(k).state = "absent" /\ (CodeWriter(k) = k \/ NowCode(k).state = "absent")
    BY <1>8, <2>1 DEF CodesInv, Unsent
  <2>3. CASE CodeWriter(k) = j
    BY <1>4, <1>5, <2>1, <2>2, <2>3
  <2>4. CASE CodeWriter(k) # j
    BY <1>4, <1>6, <2>2, <2>4
  <2> QED  BY <2>3, <2>4
<1>18. Reachable'
  <2>1. \A u \in Accounts : db'[UserRow(u)] \in {db[UserRow(u)], draft[UserRow(u)]}
    BY DEF Commit, Sees
  <2> QED  BY <1>1, <2>1 DEF CodesInv, Reachable
<1>19. \A k \in Jobs \ {j} : CodeOf(k)'
  <2> SUFFICES ASSUME NEW k \in Jobs \ {j}  PROVE CodeOf(k)'
    OBVIOUS
  <2>1. CodeOf(k)
    BY DEF CodesInv
  <2> PICK c : c = job[k].code
    OBVIOUS
  <2>2. ASSUME job[k].pc = "take"
        PROVE  /\ job[k].kind \in {"verify", "change"} /\ c \in AllCodes
               /\ CodeRow(c) \in job'[k].moved \/ WasCode(c)'.state = "open"
    <3>1. /\ job[k].kind \in {"verify", "change"} /\ c \in AllCodes
          /\ CodeRow(c) \in job[k].moved \/ WasCode(c).state = "open"
      BY <2>1, <2>2 DEF CodeOf
    <3>2. CodeRow(c) \in job[k].moved => CodeRow(c) \in job'[k].moved
      BY <1>8, <2>2
    <3>3. CASE CodeWriter(c) = j /\ NowCode(c) # WasCode(c)
      <4>1. CodeRow(c) \in Moving(j)
        BY <3>1, <3>3 DEF Moving, CodeWriter, NowCode, WasCode
      <4> QED  BY <1>8, <2>2, <3>1, <4>1
    <3>4. CASE ~(CodeWriter(c) = j /\ NowCode(c) # WasCode(c))
      BY <1>5, <1>6, <3>1, <3>2, <3>4
    <3> QED  BY <3>1, <3>3, <3>4
  <2>3. ASSUME Knows(k)
        PROVE  /\ c \in AllCodes /\ CodeWriter(c)' = k /\ WasCode(c)' = WasCode(c)
               /\ WasCode(c).state = "open" /\ WasCode(c).tries < MaxTries
               /\ NowCode(c)' = Guessed(WasCode(c), job[k].guess = c)
    <3>1. /\ c \in AllCodes /\ CodeWriter(c) = k /\ WasCode(c).state = "open"
          /\ WasCode(c).tries < MaxTries /\ NowCode(c) = Guessed(WasCode(c), job[k].guess = c)
      BY <2>1, <2>3 DEF CodeOf
    <3> QED  BY <1>4, <1>6, <3>1
  <2>4. \A d \in AllCodes : CodeWriter(d) # k => CodeWriter(d)' # k
    BY <1>5, <1>6, Names
  <2>5. \A d \in AllCodes : WasCode(d).state # "absent" => WasCode(d)'.state # "absent"
    BY <1>5, <1>6 DEF CodesInv, RowsOfCodes
  <2>6. job[k].pc = "write" => \A d \in AllCodes : CodeRow(d) \in job[k].todo => WasCode(d)'.state # "absent"
    BY <2>1, <2>5 DEF CodeOf
  <2>7. /\ job[k].kind \in {"verify", "change"} =>
             job[k].pc \in {"start", "take", "resolve", "move", "commit"}
        /\ job[k].pc \in {"start", "take", "resolve", "move"} \/ job[k].kind \in {"account", "verify", "google"}
             => job[k].address # None
        /\ job[k].pc # "commit" /\ ~Knows(k) => \A d \in AllCodes : CodeWriter(d)' # k
    BY <2>1, <2>4 DEF CodeOf
  <2> HIDE DEF me, guessed
  <2> QED  BY <1>8, <1>9, <2>2, <2>3, <2>6, <2>7 DEF CodeOf
<1>20. CodeOf(j)'
  <2>1. \A d \in AllCodes : CodeWriter(d)' # j
    BY <1>5, <1>6, Names
  <2>2. job'[j].pc = "done" /\ job'[j].kind = "none"
    BY <1>1 DEF Blank
  <2> QED  BY <2>1, <2>2 DEF CodeOf, Knows
<1> QED  BY <1>15, <1>16, <1>17, <1>18, <1>19, <1>20 DEF CodesInv

(***************************************************************************)
(* The theorems                                                            *)
(***************************************************************************)
LEMMA InitCodes == Init => CodesInv
<1> SUFFICES ASSUME Init  PROVE CodesInv
  OBVIOUS
<1> USE CodeRowsApart
<1>1. PICK status \in [Users -> {"active", "inactive", "suspended"}],
           owner \in [Sessions -> Users],
           state \in [Sessions -> SessionStates],
           sent \in [Codes -> Addresses \union {None}] :
      /\ \A s \in Sessions :
           /\ state[s] = "live" => status[owner[s]] = "active"
           /\ state[s] = "rotated" <=> \E t \in Sessions : Replaces[t] = s /\ state[t] # "absent"
           /\ Replaces[s] # None => owner[s] = owner[Replaces[s]]
      /\ \A c, d \in Codes : sent[c] # None /\ sent[c] = sent[d] => c = d
      /\ db = [r \in Row |->
           CASE r[1] = "code" ->
                  IF r[2] \in Codes /\ sent[r[2]] # None THEN OpenCode(sent[r[2]], 0) ELSE NoCode
             [] r[1] = "session" ->
                  IF r[2] \in Sessions /\ state[r[2]] # "absent"
                  THEN [state |-> state[r[2]], user |-> owner[r[2]],
                        family |-> IF Replaces[r[2]] = None THEN r[2] ELSE Replaces[r[2]]]
                  ELSE NoSession
             [] r[1] = "user" ->
                  IF r[2] \in Users THEN [status |-> status[r[2]], address |-> Home[r[2]]] ELSE NoUser
             [] r[1] = "key" ->
                  IF \E u \in Users : Home[u] = r[2] THEN CHOOSE u \in Users : Home[u] = r[2] ELSE None]
  BY DEF Init, Settled
<1>2. \A c \in AllCodes :
        WasCode(c) = IF c \in Codes /\ sent[c] # None THEN OpenCode(sent[c], 0) ELSE NoCode
  BY <1>1 DEF WasCode, CodeRow
<1>3. \A u \in Accounts :
        db[UserRow(u)] = IF u \in Users THEN [status |-> status[u], address |-> Home[u]] ELSE NoUser
  BY <1>1 DEF UserRow
<1>4. /\ draft = db /\ uses = [c \in AllCodes |-> 0] /\ wrong = [c \in AllCodes |-> 0]
      /\ \A r \in Row : lock[r] = Nobody
      /\ \A j \in Jobs : job[j] = Blank("idle")
  BY DEF Init
<1>5. \A c \in AllCodes : NowCode(c) = WasCode(c) /\ CodeWriter(c) = Nobody
  BY <1>4 DEF NowCode, WasCode, CodeWriter
<1>6. \A c \in AllCodes : /\ CodeShape(WasCode(c)) /\ WasCode(c).state \in {"open", "absent"}
                          /\ WasCode(c).state = "absent" => WasCode(c).at = None
                          /\ WasCode(c).tries = 0
  BY <1>2 DEF CodeShape, OpenCode, NoCode
<1>7. RowsOfCodes
  BY <1>4, <1>5, <1>6 DEF RowsOfCodes
<1>8. MaxTries \in Nat \ {0}
  BY SignInAssumption
<1>9. Answers
  BY <1>4, <1>8 DEF Answers
<1>10. Unsent
  <2>1. \A j \in Jobs : j \notin Codes
    BY SignInAssumption
  <2>2. \A j \in Jobs : WasCode(j) = NoCode
    BY <1>2, <2>1
  <2> QED  BY <1>5, <2>2 DEF Unsent, NoCode
<1>11. Reachable
  <2>1. \A u \in Users : Home[u] # None
    BY SignInAssumption
  <2>2. \A u \in Accounts : Undeleted(db[UserRow(u)]) => db[UserRow(u)].address # None
    <3> SUFFICES ASSUME NEW u \in Accounts, Undeleted(db[UserRow(u)])
                 PROVE  db[UserRow(u)].address # None
      OBVIOUS
    <3>1. CASE u \in Users
      <4>1. db[UserRow(u)] = [status |-> status[u], address |-> Home[u]]
        BY <1>3, <3>1
      <4> QED  BY <2>1, <3>1, <4>1
    <3>2. CASE u \notin Users
      <4>1. db[UserRow(u)] = NoUser
        BY <1>3, <3>2
      <4> QED  BY <4>1 DEF Undeleted, NoUser
    <3> QED  BY <3>1, <3>2
  <2> QED  BY <1>4, <2>2 DEF Reachable
<1>12. \A j \in Jobs : CodeOf(j)
  <2>1. \A j \in Jobs : job[j].pc = "idle" /\ job[j].kind = "none"
    BY <1>4 DEF Blank
  <2> QED  BY <1>5, <2>1, Names DEF CodeOf, Knows
<1> QED  BY <1>7, <1>9, <1>10, <1>11, <1>12 DEF CodesInv

LEMMA NextCodes == Inv /\ CodesInv /\ [Next]_vars => CodesInv'
<1> SUFFICES ASSUME Inv, CodesInv, [Next]_vars  PROVE CodesInv'
  OBVIOUS
<1>1. CASE Next
  <2> PICK j \in Jobs :
        \/ RequestCode(j) \/ LookForCodes(j) \/ ReplaceCodes(j)
        \/ VerifyCode(j) \/ Google(j) \/ ChangeEmail(j) \/ Start(j) \/ TakeCode(j) \/ Resolve(j) \/ MoveAddress(j)
        \/ Refresh(j) \/ Rotate(j) \/ Logout(j) \/ SetUserStatus(j) \/ DeleteAccount(j)
        \/ Hunt(j) \/ Strike(j) \/ EraseAccount(j)
        \/ Commit(j) \/ Abort(j) \/ Again(j)
    BY <1>1 DEF Next
  <2>1. CASE RequestCode(j)   BY <2>1, CodesRequestCode
  <2>2. CASE LookForCodes(j)  BY <2>2, CodesLookForCodes
  <2>3. CASE ReplaceCodes(j)  BY <2>3, CodesReplaceCodes
  <2>4. CASE VerifyCode(j)    BY <2>4, CodesVerifyCode
  <2>5. CASE Google(j)        BY <2>5, CodesGoogle
  <2>6. CASE ChangeEmail(j)   BY <2>6, CodesChangeEmail
  <2>7. CASE Start(j)         BY <2>7, CodesStart
  <2>8. CASE TakeCode(j)      BY <2>8, CodesTakeCode
  <2>9. CASE Resolve(j)       BY <2>9, CodesResolve
  <2>10. CASE MoveAddress(j)  BY <2>10, CodesMoveAddress
  <2>11. CASE Refresh(j)      BY <2>11, CodesRefresh
  <2>12. CASE Rotate(j)       BY <2>12, CodesRotate
  <2>13. CASE Logout(j)       BY <2>13, CodesLogout
  <2>14. CASE SetUserStatus(j)  BY <2>14, CodesSetUserStatus
  <2>15. CASE DeleteAccount(j)  BY <2>15, CodesDeleteAccount
  <2>16. CASE Hunt(j)         BY <2>16, CodesHunt
  <2>17. CASE Strike(j)       BY <2>17, CodesStrike
  <2>18. CASE EraseAccount(j) BY <2>18, CodesEraseAccount
  <2>19. CASE Commit(j)       BY <2>19, CodesCommit
  <2>20. CASE Abort(j)        BY <2>20, CodesAbort
  <2>21. CASE Again(j)        BY <2>21, CodesAgain
  <2> QED  BY <2>1, <2>2, <2>3, <2>4, <2>5, <2>6, <2>7, <2>8, <2>9, <2>10, <2>11, <2>12, <2>13,
              <2>14, <2>15, <2>16, <2>17, <2>18, <2>19, <2>20, <2>21
<1>2. CASE UNCHANGED vars
  <2>1. db' = db /\ draft' = draft /\ lock' = lock /\ job' = job /\ uses' = uses /\ wrong' = wrong
    BY <1>2 DEF vars, tables, history
  <2>2. RowsOfCodes'
    BY <2>1 DEF CodesInv, RowsOfCodes, WasCode, NowCode, CodeWriter, CodeShape, Compared, Knows
  <2>3. Answers' /\ Unsent' /\ Reachable'
    BY <2>1 DEF CodesInv, Answers, Unsent, Reachable, WasCode, NowCode, CodeWriter
  <2>4. \A j \in Jobs : CodeOf(j)'
    BY <2>1 DEF CodesInv, CodeOf, Knows, WasCode, NowCode, CodeWriter
  <2> QED  BY <2>2, <2>3, <2>4 DEF CodesInv
<1> QED  BY <1>1, <1>2

LEMMA CodesInvariance == Spec => []CodesInv
<1> QED  BY InitCodes, NextCodes, Invariance, PTL DEF Spec

\* A code signs somebody in, or moves an address, once: of the requests that
\* bring it at the same time, the one that commits first has used it, and it
\* has moved for the others (auth.VerifyCode, user.ChangeEmail).
THEOREM CodeUsedOnceHolds == Spec => []CodeUsedOnce
<1>1. CodesInv => CodeUsedOnce
  BY DEF CodesInv, Answers, CodeUsedOnce
<1> QED  BY <1>1, CodesInvariance, PTL

\* No code is answered with "wrong" more often than the limit says, and as long
\* as it is there its row counts every one of these answers, whatever requests
\* guess, replace or roll back beside each other.
THEOREM GuessesCountedHolds == Spec => []GuessesCounted
<1>1. CodesInv => GuessesCounted
  <2>1. MaxTries \in Nat
    BY SignInAssumption
  <2> QED  BY <2>1 DEF CodesInv, Answers, RowsOfCodes, WasCode, GuessesCounted
<1> QED  BY <1>1, CodesInvariance, PTL
-----------------------------------------------------------------------------
(***************************************************************************)
(* The rows of the tables are what their columns say, for every number of  *)
(* everything.                                                             *)
(***************************************************************************)
CodeRecords == [state : CodeStates, at : Addresses \union {None}, tries : 0 .. MaxTries, made : Nat]
UserRecords == [status : UserStates, address : Addresses \union {None}]

\* A session that is there is of a family.
SessionRecords ==
    {x \in [state : SessionStates, user : Accounts \union {None}, family : AllSessions \union {None}] :
        x.state # "absent" => x.family \in AllSessions}

TypedRow(r, x) ==
    /\ \A c \in AllCodes : r = CodeRow(c) => x \in CodeRecords
    /\ \A s \in AllSessions : r = SessionRow(s) => x \in SessionRecords
    /\ \A u \in Accounts : r = UserRow(u) => x \in UserRecords
    /\ \A k \in Addresses \union Subjects : r = KeyRow(k) => x \in Accounts \union {None}

RowsTyped(rows) == DOMAIN rows = Row /\ \A r \in Row : TypedRow(r, rows[r])

JobTyped(me) ==
    /\ me.made \in Nat /\ me.address \in Addresses \union {None}
    /\ me.struck \subseteq AllSessions /\ me.missed \subseteq AllSessions

TypesInv ==
    /\ RowsTyped(db) /\ RowsTyped(draft)
    /\ clock \in Nat
    /\ ended \subseteq AllSessions /\ outlived \subseteq AllSessions
    /\ \A j \in Jobs : JobTyped(job[j])

\* One kind of row is not another.
LEMMA RowKinds ==
    ASSUME NEW r \in Row, NEW x
    PROVE  /\ \A c \in AllCodes : r = CodeRow(c) => (TypedRow(r, x) <=> x \in CodeRecords)
           /\ \A s \in AllSessions : r = SessionRow(s) => (TypedRow(r, x) <=> x \in SessionRecords)
           /\ \A u \in Accounts : r = UserRow(u) => (TypedRow(r, x) <=> x \in UserRecords)
           /\ \A k : r = KeyRow(k) /\ x \in Accounts \union {None} => TypedRow(r, x)
  BY RowsApart, CodeRowsApart DEF TypedRow

\* What is in a row that is typed.
LEMMA RowOf ==
    ASSUME NEW rows, RowsTyped(rows)
    PROVE  /\ \A c \in AllCodes : rows[CodeRow(c)] \in CodeRecords
           /\ \A s \in AllSessions : rows[SessionRow(s)] \in SessionRecords
           /\ \A u \in Accounts : rows[UserRow(u)] \in UserRecords
           /\ \A k \in Addresses \union Subjects : rows[KeyRow(k)] \in Accounts \union {None}
<1>1. \A k \in Addresses \union Subjects : KeyRow(k) \in Row
  BY DEF Row, KeyRows
<1> QED  BY <1>1, RowsAreRows, CodeRowsApart DEF RowsTyped, TypedRow

LEMMA TypedRows ==
    ASSUME NEW rows, RowsTyped(rows)
    PROVE  Typed(rows)
<1>1. \A s \in AllSessions : rows[SessionRow(s)] \in
        [state : SessionStates, user : Accounts \union {None}, family : AllSessions \union {None}]
  BY RowOf DEF SessionRecords
<1>2. \A c \in AllCodes : rows[CodeRow(c)] \in CodeRecords
  BY RowOf
<1>3. \A u \in Accounts : rows[UserRow(u)] \in UserRecords
  BY RowOf
<1>4. \A k \in Addresses \union Subjects : rows[KeyRow(k)] \in Accounts \union {None}
  BY RowOf
<1> QED  BY <1>1, <1>2, <1>3, <1>4 DEF Typed, RowsTyped, CodeRecords, UserRecords

\* A write keeps the types if what it writes has them.
LEMMA TypedPut ==
    ASSUME TypesInv, NEW j \in Jobs, NEW R, NEW new, Put(j, R, new),
           \A r \in Row : r \in R => TypedRow(r, new[r])
    PROVE  RowsTyped(db)' /\ RowsTyped(draft)'
<1>1. RowsTyped(db)'
  BY PutRows DEF TypesInv
<1>2. RowsTyped(draft)'
  BY PutRows DEF TypesInv, RowsTyped
<1> QED  BY <1>1, <1>2

\* A step of a request that leaves them typed.
LEMMA TypedStep ==
    ASSUME Inv, TypesInv, NEW j \in Jobs, NEW next, Becomes(j, next), JobTyped(next),
           RowsTyped(db)', RowsTyped(draft)', clock' \in Nat,
           ended' \subseteq AllSessions, outlived' \subseteq AllSessions
    PROVE  TypesInv'
<1>1. job'[j] = next /\ \A k \in Jobs \ {j} : job'[k] = job[k]
  BY OtherJobs DEF Inv
<1> QED  BY <1>1 DEF TypesInv

\* The same of a statement that writes, and of one that does not.
LEMMA TypedWrite ==
    ASSUME Inv, TypesInv, NEW j \in Jobs, NEW next, Becomes(j, next), JobTyped(next),
           NEW R, NEW new, Put(j, R, new), \A r \in Row : r \in R => TypedRow(r, new[r]),
           UNCHANGED <<clock, history>>
    PROVE  TypesInv'
<1>1. RowsTyped(db)' /\ RowsTyped(draft)'
  BY TypedPut
<1>2. clock' \in Nat /\ ended' \subseteq AllSessions /\ outlived' \subseteq AllSessions
  BY DEF TypesInv, history
<1> QED  BY <1>1, <1>2, TypedStep

LEMMA TypedRead ==
    ASSUME Inv, TypesInv, NEW j \in Jobs, NEW next, Becomes(j, next), JobTyped(next),
           UNCHANGED <<tables, clock, history>>
    PROVE  TypesInv'
<1>1. RowsTyped(db)' /\ RowsTyped(draft)'
  BY DEF TypesInv, tables
<1>2. clock' \in Nat /\ ended' \subseteq AllSessions /\ outlived' \subseteq AllSessions
  BY DEF TypesInv, history
<1> QED  BY <1>1, <1>2, TypedStep

LEMMA TypedJob ==
    ASSUME Inv, TypesInv, NEW j \in Jobs
    PROVE  JobShape(job[j]) /\ JobTyped(job[j]) /\ JobInv(j)
  BY DEF Inv, TypesInv, JobsInv, JobInv

\* A request that goes on with what it has.
LEMMA TypedGoing ==
    ASSUME NEW me, JobShape(me), JobTyped(me), NEW pc, NEW todo, NEW refs
    PROVE  /\ JobTyped([me EXCEPT !.pc = pc])
           /\ JobTyped([me EXCEPT !.pc = pc, !.todo = todo])
           /\ JobTyped([me EXCEPT !.pc = pc, !.refs = refs])
  BY DEF JobShape, JobTyped, Blank

\* A version a request sees is typed: the committed one or the newest.
LEMMA TypedSight ==
    ASSUME TypesInv, NEW j, NEW s \in AllSessions
    PROVE  Sees(j, SessionRow(s)) \in SessionRecords
  BY RowOf DEF TypesInv, Sees

(***************************************************************************)
(* Requests that write nothing                                             *)
(***************************************************************************)
LEMMA TypedRequestCode ==
    ASSUME Inv, TypesInv, NEW j \in Jobs, RequestCode(j)
    PROVE  TypesInv'
<1> PICK a \in Addresses :
      Becomes(j, [Blank("look") EXCEPT !.kind = "code", !.address = a, !.made = clock])
  BY DEF RequestCode
<1> DEFINE next == [Blank("look") EXCEPT !.kind = "code", !.address = a, !.made = clock]
<1>1. JobTyped(next)
  BY DEF JobTyped, Blank, TypesInv
<1>2. RowsTyped(db)' /\ RowsTyped(draft)'
  BY DEF RequestCode, TypesInv, tables
<1>3. clock' \in Nat /\ ended' \subseteq AllSessions /\ outlived' \subseteq AllSessions
  BY DEF RequestCode, TypesInv, history
<1> HIDE DEF next
<1>4. Becomes(j, next)
  BY DEF next
<1> QED  BY <1>1, <1>2, <1>3, <1>4, TypedStep

LEMMA TypedVerifyCode ==
    ASSUME Inv, TypesInv, NEW j \in Jobs, VerifyCode(j)
    PROVE  TypesInv'
<1> PICK a \in Addresses : \E g \in Guesses(a) :
      Becomes(j, [Blank("start") EXCEPT !.kind = "verify", !.address = a, !.key = a,
                                        !.guess = g, !.turn = 1])
  BY DEF VerifyCode
<1> PICK g : Becomes(j, [Blank("start") EXCEPT !.kind = "verify", !.address = a, !.key = a,
                                               !.guess = g, !.turn = 1])
  OBVIOUS
<1> DEFINE next == [Blank("start") EXCEPT !.kind = "verify", !.address = a, !.key = a,
                                          !.guess = g, !.turn = 1]
<1>1. JobTyped(next)
  BY DEF JobTyped, Blank
<1>2. UNCHANGED <<tables, clock, history>>
  BY DEF VerifyCode
<1> HIDE DEF next
<1>3. Becomes(j, next)
  BY DEF next
<1> QED  BY <1>1, <1>2, <1>3, TypedRead

LEMMA TypedGoogle ==
    ASSUME Inv, TypesInv, NEW j \in Jobs, Google(j)
    PROVE  TypesInv'
<1> PICK g \in Subjects :
      Becomes(j, [Blank("start") EXCEPT !.kind = "google", !.address = Mail[g], !.key = g, !.turn = 1])
  BY DEF Google
<1> DEFINE next == [Blank("start") EXCEPT !.kind = "google", !.address = Mail[g], !.key = g, !.turn = 1]
<1>0. Mail[g] \in Addresses
  BY SignInAssumption
<1>1. JobTyped(next)
  BY <1>0 DEF JobTyped, Blank
<1>2. UNCHANGED <<tables, clock, history>>
  BY DEF Google
<1> HIDE DEF next
<1>3. Becomes(j, next)
  BY DEF next
<1> QED  BY <1>1, <1>2, <1>3, TypedRead

LEMMA TypedChangeEmail ==
    ASSUME Inv, TypesInv, NEW j \in Jobs, ChangeEmail(j)
    PROVE  TypesInv'
<1> PICK s \in AllSessions, a \in Addresses : \E g \in Guesses(a) :
      Becomes(j, [Blank("start") EXCEPT !.kind = "change", !.address = a, !.guess = g,
                                        !.user = db[SessionRow(s)].user])
  BY DEF ChangeEmail
<1> PICK g : Becomes(j, [Blank("start") EXCEPT !.kind = "change", !.address = a, !.guess = g,
                                               !.user = db[SessionRow(s)].user])
  OBVIOUS
<1> DEFINE next == [Blank("start") EXCEPT !.kind = "change", !.address = a, !.guess = g,
                                          !.user = db[SessionRow(s)].user]
<1>1. JobTyped(next)
  BY DEF JobTyped, Blank
<1>2. UNCHANGED <<tables, clock, history>>
  BY DEF ChangeEmail
<1> HIDE DEF next
<1>3. Becomes(j, next)
  BY DEF next
<1> QED  BY <1>1, <1>2, <1>3, TypedRead

LEMMA TypedLogout ==
    ASSUME Inv, TypesInv, NEW j \in Jobs, Logout(j)
    PROVE  TypesInv'
<1> PICK s \in AllSessions, all \in BOOLEAN :
      Becomes(j, [Blank("hunt") EXCEPT !.kind = "logout", !.session = s, !.wide = all,
                                       !.user = db[SessionRow(s)].user])
  BY DEF Logout
<1> DEFINE next == [Blank("hunt") EXCEPT !.kind = "logout", !.session = s, !.wide = all,
                                         !.user = db[SessionRow(s)].user]
<1>1. JobTyped(next)
  BY DEF JobTyped, Blank
<1>2. UNCHANGED <<tables, clock, history>>
  BY DEF Logout
<1> HIDE DEF next
<1>3. Becomes(j, next)
  BY DEF next
<1> QED  BY <1>1, <1>2, <1>3, TypedRead

LEMMA TypedLookForCodes ==
    ASSUME Inv, TypesInv, NEW j \in Jobs, LookForCodes(j)
    PROVE  TypesInv'
<1> PICK todo : Becomes(j, [job[j] EXCEPT !.pc = "write", !.todo = todo])
  BY DEF LookForCodes
<1> DEFINE next == [job[j] EXCEPT !.pc = "write", !.todo = todo]
<1>1. JobTyped(next)
  BY TypedJob, TypedGoing
<1>2. UNCHANGED <<tables, clock, history>>
  BY DEF LookForCodes
<1> HIDE DEF next
<1>3. Becomes(j, next)
  BY DEF next
<1> QED  BY <1>1, <1>2, <1>3, TypedRead

LEMMA TypedStart ==
    ASSUME Inv, TypesInv, NEW j \in Jobs, Start(j)
    PROVE  TypesInv'
<1> PICK pc, c, u, keyed :
      Becomes(j, [job[j] EXCEPT !.pc = pc, !.code = c, !.user = u, !.keyed = keyed])
  BY DEF Start
<1> DEFINE next == [job[j] EXCEPT !.pc = pc, !.code = c, !.user = u, !.keyed = keyed]
<1>1. JobTyped(next)
  BY TypedJob DEF JobShape, JobTyped, Blank
<1>2. UNCHANGED <<tables, clock, history>>
  BY DEF Start
<1> HIDE DEF next
<1>3. Becomes(j, next)
  BY DEF next
<1> QED  BY <1>1, <1>2, <1>3, TypedRead

\* The sessions a statement finds are there, and so have families to end.
LEMMA TypedHunt ==
    ASSUME Inv, TypesInv, NEW j \in Jobs, Hunt(j)
    PROVE  TypesInv'
<1> DEFINE struck == {Sees(j, SessionRow(s)).family : s \in {t \in AllSessions : Concerned(j, t)}}
<1> PICK todo : Becomes(j, [job[j] EXCEPT !.pc = "strike", !.todo = todo, !.struck = struck])
  BY DEF Hunt
<1> DEFINE next == [job[j] EXCEPT !.pc = "strike", !.todo = todo, !.struck = struck]
<1>1. struck \subseteq AllSessions
  <2> SUFFICES ASSUME NEW s \in AllSessions, Concerned(j, s)
               PROVE  Sees(j, SessionRow(s)).family \in AllSessions
    OBVIOUS
  <2>1. Sees(j, SessionRow(s)) \in SessionRecords /\ Sees(j, SessionRow(s)).state # "absent"
    BY TypedSight DEF Concerned
  <2> QED  BY <2>1 DEF SessionRecords
<1> HIDE DEF struck
<1>2. JobTyped(next)
  BY <1>1, TypedJob DEF JobShape, JobTyped, Blank
<1>3. UNCHANGED <<tables, clock, history>>
  BY DEF Hunt
<1> HIDE DEF next
<1>4. Becomes(j, next)
  BY DEF next
<1> QED  BY <1>2, <1>3, <1>4, TypedRead

(***************************************************************************)
(* Requests that write                                                     *)
(***************************************************************************)
LEMMA TypedReplaceCodes ==
    ASSUME Inv, TypesInv, NEW j \in Jobs, ReplaceCodes(j)
    PROVE  TypesInv'
<1> DEFINE me == job[j]
           R == me.todo \union {CodeRow(j)}
           new == [r \in R |-> IF r = CodeRow(j) THEN OpenCode(me.address, me.made)
                               ELSE [draft[r] EXCEPT !.state = IF @ = "open" THEN "replaced" ELSE @]]
           next == [me EXCEPT !.pc = "commit", !.todo = {}]
<1>1. /\ Put(j, R, new) /\ Becomes(j, next) /\ UNCHANGED <<clock, history>>
      /\ me.pc = "write"
  BY DEF ReplaceCodes
<1>2. JobTyped(me) /\ JobTyped(next) /\ \A r \in me.todo : r \in CodeRows
  BY <1>1, TypedJob, TypedGoing DEF JobInv
<1>3. \A r \in Row : r \in R => TypedRow(r, new[r])
  <2> SUFFICES ASSUME NEW r \in Row, r \in R
               PROVE  TypedRow(r, new[r])
    OBVIOUS
  <2>0. 0 \in 0 .. MaxTries
    BY SignInAssumption
  <2>1. CASE r = CodeRow(j)
    <3>1. OpenCode(me.address, me.made) \in CodeRecords
      BY <1>2, <2>0 DEF JobTyped, OpenCode, CodeRecords, CodeStates
    <3>2. new[r] \in CodeRecords /\ j \in AllCodes
      BY <2>1, <3>1, CodeRowsApart
    <3> HIDE DEF new, R
    <3> QED  BY <2>1, <3>2, RowKinds
  <2>2. CASE r # CodeRow(j)
    <3>1. PICK c \in AllCodes : r = CodeRow(c)
      BY <1>2, <2>2 DEF CodeRows
    <3> PICK x : x = draft[r]
      OBVIOUS
    <3>2. x \in CodeRecords
      BY <3>1, RowOf DEF TypesInv
    <3>3. [x EXCEPT !.state = IF @ = "open" THEN "replaced" ELSE @] \in CodeRecords
      BY <3>2 DEF CodeRecords, CodeStates
    <3>4. new[r] \in CodeRecords
      BY <2>2, <3>3
    <3> HIDE DEF new, R
    <3> QED  BY <3>1, <3>4, RowKinds
  <2> QED  BY <2>1, <2>2
<1> HIDE DEF R, new, next
<1> QED  BY <1>1, <1>2, <1>3, TypedWrite

\* The guesses counted stay within the limit: one is counted of a code that has
\* not reached it.
LEMMA TypedTakeCode ==
    ASSUME Inv, CodesInv, TypesInv, NEW j \in Jobs, TakeCode(j)
    PROVE  TypesInv'
<1> DEFINE me == job[j]
           row == CodeRow(me.code)
           right == me.guess = me.code
           R == {row}
           new == [r \in R |-> Guessed(db[row], right)]
           pc == AfterGuess(me, right)
           next == [me EXCEPT !.pc = pc]
<1>1. /\ Put(j, R, new) /\ Becomes(j, next) /\ UNCHANGED <<clock, history>>
      /\ me.pc = "take" /\ db[row].tries < MaxTries
  BY DEF TakeCode, Put1, Goto
<1>2. JobTyped(next)
  <2> HIDE DEF pc
  <2> QED  BY TypedJob, TypedGoing
<1>3. me.code \in AllCodes
  BY <1>1 DEF CodesInv, CodeOf
<1>4. Guessed(db[row], right) \in CodeRecords
  <2> PICK x : x = db[row]
    OBVIOUS
  <2>1. x \in CodeRecords /\ x.tries < MaxTries /\ MaxTries \in Nat
    BY <1>1, <1>3, RowOf, SignInAssumption DEF TypesInv
  <2>2. x.tries + 1 \in 0 .. MaxTries
    BY <2>1 DEF CodeRecords
  <2>3. [x EXCEPT !.state = "used"] \in CodeRecords
    BY <2>1 DEF CodeRecords, CodeStates
  <2>4. [x EXCEPT !.tries = @ + 1] \in CodeRecords
    BY <2>1, <2>2 DEF CodeRecords
  <2> HIDE DEF right
  <2> QED  BY <2>3, <2>4 DEF Guessed
<1>5. \A r \in Row : r \in R => TypedRow(r, new[r])
  <2> SUFFICES ASSUME row \in Row  PROVE TypedRow(row, new[row])
    OBVIOUS
  <2>1. new[row] \in CodeRecords
    BY <1>4
  <2> HIDE DEF new
  <2> QED  BY <1>3, <2>1, RowKinds
<1> HIDE DEF R, new, next
<1> QED  BY <1>1, <1>2, <1>5, TypedWrite

LEMMA TypedResolve ==
    ASSUME Inv, TypesInv, NEW j \in Jobs, Resolve(j)
    PROVE  TypesInv'
<1> USE Names
<1> PICK u \in Accounts : u = IF job[j].user = None THEN j ELSE job[j].user
  BY DEF Resolve, Inv, JobsInv, JobInv
<1> DEFINE me == job[j]
           old == db[UserRow(u)]
           R == {UserRow(u), SessionRow(j)} \union (IF me.keyed THEN {} ELSE {KeyRow(me.key)})
           new == [r \in R |->
                    CASE r = UserRow(u) ->
                           IF old.status = "active" THEN old
                           ELSE [status |-> "active", address |-> me.address]
                      [] r = SessionRow(j) -> LiveSession(u, j)
                      [] OTHER -> u]
           next == [me EXCEPT !.pc = "commit"]
<1>1. /\ Put(j, R, new) /\ Becomes(j, next) /\ UNCHANGED <<clock, history>>
  BY DEF Resolve, Goto
<1>2. JobTyped(me) /\ JobTyped(next)
  BY TypedJob, TypedGoing
<1>3. \A r \in Row : r \in R => TypedRow(r, new[r])
  <2> SUFFICES ASSUME NEW r \in Row, r \in R
               PROVE  TypedRow(r, new[r])
    OBVIOUS
  <2>1. CASE r = UserRow(u)
    <3>1. old \in UserRecords
      BY RowOf DEF TypesInv
    <3>2. [status |-> "active", address |-> me.address] \in UserRecords
      BY <1>2 DEF JobTyped, UserRecords, UserStates
    <3>3. \A k : r # SessionRow(k)
      BY <2>1, RowsApart
    <3>4. new[r] = IF old.status = "active" THEN old ELSE [status |-> "active", address |-> me.address]
      BY <2>1, <3>3
    <3>5. new[r] \in UserRecords
      BY <3>1, <3>2, <3>4
    <3> HIDE DEF new, R
    <3> QED  BY <2>1, <3>5, RowKinds
  <2>2. CASE r = SessionRow(j)
    <3>1. LiveSession(u, j) \in SessionRecords
      BY DEF LiveSession, SessionRecords, SessionStates
    <3>2. new[r] \in SessionRecords
      BY <2>2, <3>1, RowsApart
    <3> HIDE DEF new, R
    <3> QED  BY <2>2, <3>2, RowKinds
  <2>3. CASE r # UserRow(u) /\ r # SessionRow(j)
    <3>1. r = KeyRow(me.key) /\ new[r] = u
      BY <2>3
    <3> HIDE DEF new, R
    <3> QED  BY <3>1, RowKinds
  <2> QED  BY <2>1, <2>2, <2>3
<1> HIDE DEF R, new, next
<1> QED  BY <1>1, <1>2, <1>3, TypedWrite

LEMMA TypedMoveAddress ==
    ASSUME Inv, TypesInv, NEW j \in Jobs, MoveAddress(j)
    PROVE  TypesInv'
<1> DEFINE me == job[j]
           u == UserRow(me.user)
           others == {KeyRow(a) : a \in {b \in Addresses \ {me.address} : db[KeyRow(b)] = me.user}}
           R == {u, KeyRow(me.address)} \union others
           new == [r \in R |->
                    CASE r = u -> [db[u] EXCEPT !.address = me.address]
                      [] r = KeyRow(me.address) -> me.user
                      [] OTHER -> None]
           next == [me EXCEPT !.pc = "commit"]
<1>1. /\ Put(j, R, new) /\ Becomes(j, next) /\ UNCHANGED <<clock, history>> /\ me.pc = "move"
  BY DEF MoveAddress, Goto
<1>2. JobTyped(me) /\ JobTyped(next) /\ me.user \in Accounts
  BY <1>1, TypedJob, TypedGoing DEF JobInv
<1>3. \A r \in Row : r \in R => TypedRow(r, new[r])
  <2> SUFFICES ASSUME NEW r \in Row, r \in R
               PROVE  TypedRow(r, new[r])
    OBVIOUS
  <2>1. CASE r = u
    <3> PICK x : x = db[u]
      OBVIOUS
    <3>1. x \in UserRecords
      BY <1>2, RowOf DEF TypesInv
    <3>2. [x EXCEPT !.address = me.address] \in UserRecords
      BY <1>2, <3>1 DEF JobTyped, UserRecords
    <3>3. \A k : r # KeyRow(k)
      BY <2>1, RowsApart
    <3>4. new[r] = [x EXCEPT !.address = me.address]
      BY <2>1, <3>3
    <3>5. new[r] \in UserRecords
      BY <3>2, <3>4
    <3> HIDE DEF new, R
    <3> QED  BY <1>2, <2>1, <3>5, RowKinds
  <2>2. CASE r # u
    <3>1. PICK k : r = KeyRow(k)
      BY <2>2
    <3>2. new[r] \in Accounts \union {None}
      BY <1>2, <2>2
    <3> HIDE DEF new, R
    <3> QED  BY <3>1, <3>2, RowKinds
  <2> QED  BY <2>1, <2>2
<1> HIDE DEF R, new, next
<1> QED  BY <1>1, <1>2, <1>3, TypedWrite

LEMMA TypedRefresh ==
    ASSUME Inv, TypesInv, NEW j \in Jobs, Refresh(j)
    PROVE  TypesInv'
<1> PICK s \in AllSessions :
      LET old == db[SessionRow(s)] IN
      /\ old.state # "absent"
      /\ Put1(j, SessionRow(s), old)
      /\ Becomes(j, [Blank(IF old.state = "live" THEN "rotate" ELSE "hunt")
                       EXCEPT !.kind = "refresh", !.session = s, !.user = old.user])
  BY DEF Refresh
<1> DEFINE old == db[SessionRow(s)]
           R == {SessionRow(s)}
           new == [r \in R |-> old]
           pc == IF old.state = "live" THEN "rotate" ELSE "hunt"
           next == [Blank(pc) EXCEPT !.kind = "refresh", !.session = s, !.user = old.user]
<1>1. /\ Put(j, R, new) /\ Becomes(j, next) /\ UNCHANGED <<clock, history>>
  BY DEF Refresh, Put1
<1>2. JobTyped(next)
  BY DEF JobTyped, Blank
<1>3. \A r \in Row : r \in R => TypedRow(r, new[r])
  <2> SUFFICES ASSUME SessionRow(s) \in Row  PROVE TypedRow(SessionRow(s), old)
    OBVIOUS
  <2>1. old \in SessionRecords
    BY RowOf DEF TypesInv
  <2> QED  BY <2>1, RowKinds
<1> HIDE DEF R, new, next
<1> QED  BY <1>1, <1>2, <1>3, TypedWrite

LEMMA TypedRotate ==
    ASSUME Inv, TypesInv, NEW j \in Jobs, Rotate(j)
    PROVE  TypesInv'
<1> USE Names
<1> DEFINE me == job[j]
           s == me.session
           old == draft[SessionRow(s)]
           R == {SessionRow(s), SessionRow(j)}
           new == [r \in R |-> IF r = SessionRow(j) THEN LiveSession(old.user, old.family)
                               ELSE [old EXCEPT !.state = "rotated"]]
           refs == {UserRow(me.user)}
           next == [me EXCEPT !.pc = "commit", !.refs = refs]
<1>1. /\ Put(j, R, new) /\ Becomes(j, next) /\ UNCHANGED <<clock, history>> /\ me.pc = "rotate"
  BY DEF Rotate
<1>2. JobTyped(next)
  BY TypedJob, TypedGoing
<1>3. s \in AllSessions /\ Now(s) = Was(s) /\ WasLive(s)
  BY <1>1, TypedJob DEF JobInv
<1>4. old \in SessionRecords /\ old.state = "live"
  BY <1>3, RowOf DEF TypesInv, Now, Was, WasLive
<1>5. LiveSession(old.user, old.family) \in SessionRecords
  <2> HIDE DEF old
  <2> QED  BY <1>4 DEF LiveSession, SessionRecords, SessionStates
<1>6. [old EXCEPT !.state = "rotated"] \in SessionRecords
  <2> HIDE DEF old
  <2> QED  BY <1>4 DEF SessionRecords, SessionStates
<1>7. \A r \in Row : r \in R => TypedRow(r, new[r])
  <2> SUFFICES ASSUME NEW r \in Row, r \in R
               PROVE  TypedRow(r, new[r])
    OBVIOUS
  <2>1. new[r] \in SessionRecords
    <3> HIDE DEF old
    <3> QED  BY <1>5, <1>6
  <2>2. r = SessionRow(s) \/ r = SessionRow(j)
    OBVIOUS
  <2> HIDE DEF new, R
  <2> QED  BY <1>3, <2>1, <2>2, RowKinds
<1> HIDE DEF R, new, next
<1> QED  BY <1>1, <1>2, <1>7, TypedWrite

LEMMA TypedSetUserStatus ==
    ASSUME Inv, TypesInv, NEW j \in Jobs, SetUserStatus(j)
    PROVE  TypesInv'
<1> PICK u \in Accounts, status \in {"active", "suspended"} :
      LET old == db[UserRow(u)] IN
      /\ Put1(j, UserRow(u), [old EXCEPT !.status = status])
      /\ Becomes(j, [Blank(IF status = "suspended" THEN "hunt" ELSE "commit")
                       EXCEPT !.kind = "status", !.user = u, !.wide = TRUE])
  BY DEF SetUserStatus
<1> DEFINE old == db[UserRow(u)]
           R == {UserRow(u)}
           new == [r \in R |-> [old EXCEPT !.status = status]]
           pc == IF status = "suspended" THEN "hunt" ELSE "commit"
           next == [Blank(pc) EXCEPT !.kind = "status", !.user = u, !.wide = TRUE]
<1>1. /\ Put(j, R, new) /\ Becomes(j, next) /\ UNCHANGED <<clock, history>>
  BY DEF SetUserStatus, Put1
<1>2. JobTyped(next)
  BY DEF JobTyped, Blank
<1>3. \A r \in Row : r \in R => TypedRow(r, new[r])
  <2> SUFFICES ASSUME UserRow(u) \in Row  PROVE TypedRow(UserRow(u), [old EXCEPT !.status = status])
    OBVIOUS
  <2>1. old \in UserRecords
    BY RowOf DEF TypesInv
  <2> HIDE DEF old
  <2>2. [old EXCEPT !.status = status] \in UserRecords
    BY <2>1 DEF UserRecords, UserStates
  <2> QED  BY <2>2, RowKinds
<1> HIDE DEF R, new, next
<1> QED  BY <1>1, <1>2, <1>3, TypedWrite

LEMMA TypedDeleteAccount ==
    ASSUME Inv, TypesInv, NEW j \in Jobs, DeleteAccount(j)
    PROVE  TypesInv'
<1> PICK u \in Accounts :
      LET old == db[UserRow(u)] IN
      /\ Put1(j, UserRow(u), old)
      /\ Becomes(j, [Blank("hunt") EXCEPT !.kind = "account", !.user = u, !.wide = TRUE,
                                          !.address = old.address])
  BY DEF DeleteAccount
<1> DEFINE old == db[UserRow(u)]
           R == {UserRow(u)}
           new == [r \in R |-> old]
           next == [Blank("hunt") EXCEPT !.kind = "account", !.user = u, !.wide = TRUE,
                                         !.address = old.address]
<1>1. /\ Put(j, R, new) /\ Becomes(j, next) /\ UNCHANGED <<clock, history>>
  BY DEF DeleteAccount, Put1
<1>2. old \in UserRecords
  BY RowOf DEF TypesInv
<1>3. JobTyped(next)
  <2> HIDE DEF old
  <2> QED  BY <1>2 DEF JobTyped, Blank, UserRecords
<1>4. \A r \in Row : r \in R => TypedRow(r, new[r])
  <2> SUFFICES ASSUME UserRow(u) \in Row  PROVE TypedRow(UserRow(u), old)
    OBVIOUS
  <2> QED  BY <1>2, RowKinds
<1> HIDE DEF R, new, next
<1> QED  BY <1>1, <1>3, <1>4, TypedWrite

LEMMA TypedStrike ==
    ASSUME Inv, TypesInv, NEW j \in Jobs, Strike(j)
    PROVE  TypesInv'
<1> DEFINE me == job[j]
           R == me.todo
           lost == {draft[r].family : r \in {q \in me.todo : draft[q].state = "rotated"}}
           new == [r \in R |-> [draft[r] EXCEPT !.state = IF @ = "live" THEN "revoked" ELSE @]]
           pc == IF me.kind = "account" THEN "look" ELSE "commit"
           missed == IF me.kind = "account" THEN {} ELSE lost
           next == [me EXCEPT !.pc = pc, !.todo = {}, !.missed = missed]
<1>1. /\ Put(j, R, new) /\ Becomes(j, next) /\ UNCHANGED <<clock, history>> /\ me.pc = "strike"
  BY DEF Strike
<1>2. JobShape(me) /\ JobTyped(me) /\ \A r \in R : r \in SessionRows
  BY <1>1, TypedJob DEF JobInv
<1>3. \A r \in R : \E s \in AllSessions : r = SessionRow(s) /\ draft[r] \in SessionRecords
  <2> SUFFICES ASSUME NEW r \in R
               PROVE  \E s \in AllSessions : r = SessionRow(s) /\ draft[r] \in SessionRecords
    OBVIOUS
  <2>1. PICK s \in AllSessions : r = SessionRow(s)
    BY <1>2 DEF SessionRows
  <2> QED  BY <2>1, RowOf DEF TypesInv
<1>4. lost \subseteq AllSessions
  <2> SUFFICES ASSUME NEW r \in R, draft[r].state = "rotated"
               PROVE  draft[r].family \in AllSessions
    OBVIOUS
  <2>1. draft[r] \in SessionRecords
    BY <1>3
  <2> QED  BY <2>1 DEF SessionRecords
<1>5. JobTyped(next)
  <2> HIDE DEF lost
  <2> QED  BY <1>2, <1>4 DEF JobShape, JobTyped, Blank
<1>6. \A r \in Row : r \in R => TypedRow(r, new[r])
  <2> SUFFICES ASSUME NEW r \in Row, r \in R
               PROVE  TypedRow(r, new[r])
    OBVIOUS
  <2> PICK x : x = draft[r]
    OBVIOUS
  <2>1. PICK s \in AllSessions : r = SessionRow(s) /\ x \in SessionRecords
    BY <1>3
  <2>2. [x EXCEPT !.state = IF @ = "live" THEN "revoked" ELSE @] \in SessionRecords
    BY <2>1 DEF SessionRecords, SessionStates
  <2>3. new[r] \in SessionRecords
    BY <2>2
  <2> HIDE DEF new, R
  <2> QED  BY <2>1, <2>3, RowKinds
<1> HIDE DEF R, new, next
<1> QED  BY <1>1, <1>5, <1>6, TypedWrite

LEMMA TypedEraseAccount ==
    ASSUME Inv, TypesInv, NEW j \in Jobs, EraseAccount(j)
    PROVE  TypesInv'
<1> DEFINE me == job[j]
           u == UserRow(me.user)
           R == me.todo \union {u}
           new == [r \in R |-> IF r = u THEN [draft[r] EXCEPT !.status = "inactive"]
                               ELSE [NoCode EXCEPT !.state = "gone"]]
           next == [me EXCEPT !.pc = "commit", !.todo = {}]
<1>1. /\ Put(j, R, new) /\ Becomes(j, next) /\ UNCHANGED <<clock, history>>
      /\ me.pc = "write" /\ me.kind = "account"
  BY DEF EraseAccount
<1>2. JobTyped(next) /\ me.user \in Accounts /\ \A r \in me.todo : r \in CodeRows
  BY <1>1, TypedJob, TypedGoing DEF JobInv
<1>3. \A r \in Row : r \in R => TypedRow(r, new[r])
  <2> SUFFICES ASSUME NEW r \in Row, r \in R
               PROVE  TypedRow(r, new[r])
    OBVIOUS
  <2>1. CASE r = u
    <3> PICK x : x = draft[r]
      OBVIOUS
    <3>1. x \in UserRecords
      BY <1>2, <2>1, RowOf DEF TypesInv
    <3>2. [x EXCEPT !.status = "inactive"] \in UserRecords
      BY <3>1 DEF UserRecords, UserStates
    <3>3. new[r] \in UserRecords
      BY <2>1, <3>2
    <3> HIDE DEF new, R
    <3> QED  BY <1>2, <2>1, <3>3, RowKinds
  <2>2. CASE r # u
    <3>1. PICK c \in AllCodes : r = CodeRow(c)
      BY <1>2, <2>2 DEF CodeRows
    <3>2. 0 \in 0 .. MaxTries
      BY SignInAssumption
    <3>3. [NoCode EXCEPT !.state = "gone"] \in CodeRecords
      BY <3>2 DEF NoCode, CodeRecords, CodeStates
    <3>4. new[r] \in CodeRecords
      BY <2>2, <3>3
    <3> HIDE DEF new, R
    <3> QED  BY <3>1, <3>4, RowKinds
  <2> QED  BY <2>1, <2>2
<1> HIDE DEF R, new, next
<1> QED  BY <1>1, <1>2, <1>3, TypedWrite

(***************************************************************************)
(* The end of a transaction                                                *)
(***************************************************************************)
LEMMA TypedCommit ==
    ASSUME Inv, TypesInv, NEW j \in Jobs, Commit(j)
    PROVE  TypesInv'
<1>1. RowsTyped(db)'
  BY DEF Commit, Sees, TypesInv, RowsTyped
<1>2. RowsTyped(draft)' /\ clock' \in Nat
  BY DEF Commit, TypesInv
<1>3. ended' \subseteq AllSessions /\ outlived' \subseteq AllSessions
  BY TypedJob DEF Commit, TypesInv, JobTyped
<1>4. \A k \in Jobs : JobTyped(job'[k])
  <2> SUFFICES ASSUME NEW k \in Jobs  PROVE JobTyped(job'[k])
    OBVIOUS
  <2>1. job'[k] = IF k = j THEN Blank("done")
                  ELSE IF job[k].pc \in {"take", "resolve", "move"}
                  THEN [job[k] EXCEPT !.moved = @ \union Moving(j)]
                  ELSE job[k]
    BY DEF Commit
  <2>2. JobTyped(Blank("done"))
    BY DEF JobTyped, Blank
  <2>3. JobTyped([job[k] EXCEPT !.moved = @ \union Moving(j)]) /\ JobTyped(job[k])
    BY TypedJob DEF JobShape, JobTyped, Blank
  <2> QED  BY <2>1, <2>2, <2>3
<1> QED  BY <1>1, <1>2, <1>3, <1>4 DEF TypesInv

LEMMA TypedRollBack ==
    ASSUME Inv, TypesInv, NEW j \in Jobs, RollBack(j), NEW next, Becomes(j, next), JobTyped(next)
    PROVE  TypesInv'
<1>1. RowsTyped(db)' /\ clock' \in Nat /\ ended' \subseteq AllSessions /\ outlived' \subseteq AllSessions
  BY DEF RollBack, TypesInv, history
<1>2. RowsTyped(draft)'
  BY DEF RollBack, TypesInv, RowsTyped
<1> QED  BY <1>1, <1>2, TypedStep

LEMMA TypedAbort ==
    ASSUME Inv, TypesInv, NEW j \in Jobs, Abort(j)
    PROVE  TypesInv'
<1>1. JobTyped(Blank("done"))
  BY DEF JobTyped, Blank
<1>2. RollBack(j) /\ Becomes(j, Blank("done"))
  BY DEF Abort
<1> QED  BY <1>1, <1>2, TypedRollBack

LEMMA TypedAgain ==
    ASSUME Inv, TypesInv, NEW j \in Jobs, Again(j)
    PROVE  TypesInv'
<1> DEFINE me == job[j]
           next == [Blank("start") EXCEPT !.kind = me.kind, !.address = me.address, !.key = me.key,
                                          !.guess = me.guess, !.turn = me.turn + 1]
<1>1. RollBack(j) /\ Becomes(j, next)
  BY DEF Again
<1>2. JobTyped(next)
  BY TypedJob DEF JobTyped, Blank
<1> HIDE DEF next
<1> QED  BY <1>1, <1>2, TypedRollBack

LEMMA InitTypes == Init => TypesInv
<1> SUFFICES ASSUME Init  PROVE TypesInv
  OBVIOUS
<1>1. PICK status \in [Users -> {"active", "inactive", "suspended"}],
           owner \in [Sessions -> Users],
           state \in [Sessions -> SessionStates],
           sent \in [Codes -> Addresses \union {None}] :
      /\ \A s \in Sessions :
           /\ state[s] = "live" => status[owner[s]] = "active"
           /\ state[s] = "rotated" <=> \E t \in Sessions : Replaces[t] = s /\ state[t] # "absent"
           /\ Replaces[s] # None => owner[s] = owner[Replaces[s]]
      /\ \A c, d \in Codes : sent[c] # None /\ sent[c] = sent[d] => c = d
      /\ db = [r \in Row |->
           CASE r[1] = "code" ->
                  IF r[2] \in Codes /\ sent[r[2]] # None THEN OpenCode(sent[r[2]], 0) ELSE NoCode
             [] r[1] = "session" ->
                  IF r[2] \in Sessions /\ state[r[2]] # "absent"
                  THEN [state |-> state[r[2]], user |-> owner[r[2]],
                        family |-> IF Replaces[r[2]] = None THEN r[2] ELSE Replaces[r[2]]]
                  ELSE NoSession
             [] r[1] = "user" ->
                  IF r[2] \in Users THEN [status |-> status[r[2]], address |-> Home[r[2]]] ELSE NoUser
             [] r[1] = "key" ->
                  IF \E u \in Users : Home[u] = r[2] THEN CHOOSE u \in Users : Home[u] = r[2] ELSE None]
  BY DEF Init, Settled
<1>2. 0 \in 0 .. MaxTries
  BY SignInAssumption
<1>3. \A r \in Row : TypedRow(r, db[r])
  <2> SUFFICES ASSUME NEW r \in Row  PROVE TypedRow(r, db[r])
    OBVIOUS
  <2>1. CASE \E c \in AllCodes : r = CodeRow(c)
    <3> PICK c \in AllCodes : r = CodeRow(c)
      BY <2>1
    <3>1. db[r] = IF c \in Codes /\ sent[c] # None THEN OpenCode(sent[c], 0) ELSE NoCode
      BY <1>1 DEF CodeRow
    <3>2. NoCode \in CodeRecords
      BY <1>2 DEF NoCode, CodeRecords, CodeStates
    <3>3. c \in Codes => OpenCode(sent[c], 0) \in CodeRecords
      BY <1>2 DEF OpenCode, CodeRecords, CodeStates
    <3> QED  BY <3>1, <3>2, <3>3, RowKinds
  <2>2. CASE \E s \in AllSessions : r = SessionRow(s)
    <3> PICK s \in AllSessions : r = SessionRow(s)
      BY <2>2
    <3> PICK root : root = IF Replaces[s] = None THEN s ELSE Replaces[s]
      OBVIOUS
    <3>1. db[r] = IF s \in Sessions /\ state[s] # "absent"
                  THEN [state |-> state[s], user |-> owner[s], family |-> root] ELSE NoSession
      BY <1>1 DEF SessionRow
    <3>2. NoSession \in SessionRecords
      BY DEF NoSession, SessionRecords, SessionStates
    <3>3. ASSUME s \in Sessions
          PROVE  [state |-> state[s], user |-> owner[s], family |-> root] \in SessionRecords
      <4>1. root \in AllSessions
        BY <3>3, SignInAssumption DEF AllSessions
      <4>2. owner[s] \in Accounts /\ state[s] \in SessionStates
        BY <3>3 DEF Accounts
      <4> QED  BY <4>1, <4>2 DEF SessionRecords
    <3> QED  BY <3>1, <3>2, <3>3, RowKinds
  <2>3. CASE \E u \in Accounts : r = UserRow(u)
    <3> PICK u \in Accounts : r = UserRow(u)
      BY <2>3
    <3>1. db[r] = IF u \in Users THEN [status |-> status[u], address |-> Home[u]] ELSE NoUser
      BY <1>1 DEF UserRow
    <3>2. NoUser \in UserRecords
      BY DEF NoUser, UserRecords, UserStates
    <3>3. ASSUME u \in Users
          PROVE  [status |-> status[u], address |-> Home[u]] \in UserRecords
      <4>1. status[u] \in UserStates /\ Home[u] \in Addresses
        BY <3>3, SignInAssumption DEF UserStates
      <4> QED  BY <4>1 DEF UserRecords
    <3> QED  BY <3>1, <3>2, <3>3, RowKinds
  <2>4. CASE \E k \in Addresses \union Subjects : r = KeyRow(k)
    <3> PICK k \in Addresses \union Subjects : r = KeyRow(k)
      BY <2>4
    <3>1. r[1] = "key"
      BY DEF KeyRow
    <3>2. db[r] = IF \E u \in Users : Home[u] = r[2] THEN CHOOSE u \in Users : Home[u] = r[2] ELSE None
      BY <1>1, <3>1
    <3>3. (\E u \in Users : Home[u] = r[2]) => (CHOOSE u \in Users : Home[u] = r[2]) \in Users
      OBVIOUS
    <3>4. db[r] \in Accounts \union {None}
      BY <3>2, <3>3 DEF Accounts
    <3> QED  BY <3>4, RowKinds
  <2> QED  BY <2>1, <2>2, <2>3, <2>4 DEF Row, CodeRows, SessionRows, KeyRows
<1>4. RowsTyped(db) /\ RowsTyped(draft)
  BY <1>1, <1>3 DEF Init, RowsTyped
<1>5. \A j \in Jobs : JobTyped(job[j])
  BY DEF Init, JobTyped, Blank
<1>6. clock \in Nat /\ ended \subseteq AllSessions /\ outlived \subseteq AllSessions
  BY DEF Init
<1> QED  BY <1>4, <1>5, <1>6 DEF TypesInv

LEMMA NextTypes == Inv /\ CodesInv /\ TypesInv /\ [Next]_vars => TypesInv'
<1> SUFFICES ASSUME Inv, CodesInv, TypesInv, [Next]_vars  PROVE TypesInv'
  OBVIOUS
<1>1. CASE Next
  <2> PICK j \in Jobs :
        \/ RequestCode(j) \/ LookForCodes(j) \/ ReplaceCodes(j)
        \/ VerifyCode(j) \/ Google(j) \/ ChangeEmail(j) \/ Start(j) \/ TakeCode(j) \/ Resolve(j) \/ MoveAddress(j)
        \/ Refresh(j) \/ Rotate(j) \/ Logout(j) \/ SetUserStatus(j) \/ DeleteAccount(j)
        \/ Hunt(j) \/ Strike(j) \/ EraseAccount(j)
        \/ Commit(j) \/ Abort(j) \/ Again(j)
    BY <1>1 DEF Next
  <2>1. CASE RequestCode(j)   BY <2>1, TypedRequestCode
  <2>2. CASE LookForCodes(j)  BY <2>2, TypedLookForCodes
  <2>3. CASE ReplaceCodes(j)  BY <2>3, TypedReplaceCodes
  <2>4. CASE VerifyCode(j)    BY <2>4, TypedVerifyCode
  <2>5. CASE Google(j)        BY <2>5, TypedGoogle
  <2>6. CASE ChangeEmail(j)   BY <2>6, TypedChangeEmail
  <2>7. CASE Start(j)         BY <2>7, TypedStart
  <2>8. CASE TakeCode(j)      BY <2>8, TypedTakeCode
  <2>9. CASE Resolve(j)       BY <2>9, TypedResolve
  <2>10. CASE MoveAddress(j)  BY <2>10, TypedMoveAddress
  <2>11. CASE Refresh(j)      BY <2>11, TypedRefresh
  <2>12. CASE Rotate(j)       BY <2>12, TypedRotate
  <2>13. CASE Logout(j)       BY <2>13, TypedLogout
  <2>14. CASE SetUserStatus(j)  BY <2>14, TypedSetUserStatus
  <2>15. CASE DeleteAccount(j)  BY <2>15, TypedDeleteAccount
  <2>16. CASE Hunt(j)         BY <2>16, TypedHunt
  <2>17. CASE Strike(j)       BY <2>17, TypedStrike
  <2>18. CASE EraseAccount(j) BY <2>18, TypedEraseAccount
  <2>19. CASE Commit(j)       BY <2>19, TypedCommit
  <2>20. CASE Abort(j)        BY <2>20, TypedAbort
  <2>21. CASE Again(j)        BY <2>21, TypedAgain
  <2> QED  BY <2>1, <2>2, <2>3, <2>4, <2>5, <2>6, <2>7, <2>8, <2>9, <2>10, <2>11, <2>12, <2>13,
              <2>14, <2>15, <2>16, <2>17, <2>18, <2>19, <2>20, <2>21
<1>2. CASE UNCHANGED vars
  BY <1>2 DEF vars, tables, history, TypesInv
<1> QED  BY <1>1, <1>2

\* The rows hold what their columns allow, and a row nobody is writing is as it
\* is committed: no guess is counted past the limit, and no statement of sign-in,
\* administration or deletion leaves a row of one table in another's form
\* (what internal/auth, internal/user and internal/admin write).
THEOREM TypesHold == Spec => []TypeOK
<1>1. Inv /\ TypesInv => TypeOK
  BY TypedRows DEF Inv, TablesInv, TypesInv, TypeOK
<1>2. Spec => []TypesInv
  BY InitTypes, NextTypes, Invariance, CodesInvariance, PTL DEF Spec
<1> QED  BY <1>1, <1>2, Invariance, PTL
=============================================================================
