------------------------------- MODULE SignIn -------------------------------
(***************************************************************************)
(* Sign-in codes, the sessions they open and the requests that end them    *)
(* (internal/auth, internal/user DeleteAccount, internal/admin             *)
(* SetUserStatus) over one PostgreSQL database.                            *)
(*                                                                         *)
(* VerifyCode and ChangeEmail are SERIALIZABLE: they see the database as   *)
(* they began, and fail on a row committed since (job.moved).  What        *)
(* PostgreSQL refuses beyond that is Abort.  The other requests are READ   *)
(* COMMITTED: each statement sees what is committed as it starts, and a    *)
(* row it had to wait for as it has become.  db is what is committed,      *)
(* draft the newest version of every row, lock who wrote it or locked it;  *)
(* a session's reference to its user (job.refs) delays only a FOR UPDATE.  *)
(* What a request makes up -- a code, a session with its family, an        *)
(* account -- is named after the request.  Codes and sessions that expire  *)
(* are refused, which is Abort too.                                        *)
(***************************************************************************)
EXTENDS Integers, FiniteSets

CONSTANTS
    Addresses,
    Subjects, Mail,     \* accounts at Google, and the address of each
    Users, Home,        \* the accounts there are, and the address of each
    Codes,              \* codes sent before
    Sessions, Replaces, \* sessions opened before, and the one each replaced
    Jobs,               \* bound: the requests of a behaviour
    MaxTries,           \* OTPMaxAttempts
    EmailLimit,         \* OTPEmailLimit
    Turns,              \* attempts of VerifyCode
    Nobody, None        \* the lock of a row nobody holds; no value

ASSUME SignInAssumption ==
    /\ Mail \in [Subjects -> Addresses] /\ Subjects \intersect Addresses = {}
    /\ Home \in [Users -> Addresses]
    /\ \A u, v \in Users : Home[u] = Home[v] => u = v
    /\ Replaces \in [Sessions -> Sessions \union {None}]
    /\ \A s, t \in Sessions : Replaces[s] # None =>
         /\ Replaces[Replaces[s]] = None
         /\ Replaces[t] = Replaces[s] => s = t
    /\ Jobs \intersect (Users \union Codes \union Sessions) = {}
    /\ None \notin Users \union Jobs \union Codes \union Sessions \union Addresses
    /\ Nobody \notin Jobs
    /\ MaxTries \in Nat \ {0} /\ EmailLimit \in Nat /\ Turns \in Nat \ {0}

Accounts == Users \union Jobs
AllCodes == Codes \union Jobs
AllSessions == Sessions \union Jobs

VARIABLES
    db,       \* the committed tables
    draft,    \* every row with what its writer has not committed yet
    lock,     \* who that writer is
    job,      \* the requests
    clock,    \* codes asked for: created_at of the next one
    uses,     \* history, per code: transactions that used it up
    wrong,    \* history, per code: guesses answered with "wrong"
    ended,    \* history: families a logout, a replayed token, a suspension or
              \* a deletion has ended
    outlived  \* history: those of them a rotation was carrying on meanwhile

history == <<uses, wrong, ended, outlived>>
tables == <<db, draft, lock>>
vars == <<tables, job, clock, history>>

(***************************************************************************)
(* Rows                                                                    *)
(***************************************************************************)
CodeRow(c) == <<"code", c>>       \* email_verification_codes
SessionRow(s) == <<"session", s>> \* auth_sessions
UserRow(u) == <<"user", u>>       \* users
KeyRow(k) == <<"key", k>>         \* auth_identities, by address or Google's subject

SessionRows == {SessionRow(s) : s \in AllSessions}
CodeRows == {CodeRow(c) : c \in AllCodes}
KeyRows == {KeyRow(k) : k \in Addresses \union Subjects}
Row == CodeRows \union SessionRows \union KeyRows \union {UserRow(u) : u \in Accounts}

CodeStates == {"absent", "open", "replaced", "used", "gone"}
SessionStates == {"absent", "live", "rotated", "revoked"}
UserStates == {"absent", "active", "inactive", "suspended"}

NoCode == [state |-> "absent", at |-> None, tries |-> 0, made |-> 0]
NoSession == [state |-> "absent", user |-> None, family |-> None]
NoUser == [status |-> "absent", address |-> None]
OpenCode(a, made) == [state |-> "open", at |-> a, tries |-> 0, made |-> made]
LiveSession(u, f) == [state |-> "live", user |-> u, family |-> f]

Undeleted(user) == user.status \in {"active", "suspended"}

\* The accounts and what is left of earlier requests: per account one family,
\* of which each session has replaced the one before, and per address one code.
Settled(rows) ==
    \E status \in [Users -> {"active", "inactive", "suspended"}],
       owner \in [Sessions -> Users],
       state \in [Sessions -> SessionStates],
       sent \in [Codes -> Addresses \union {None}] :
      /\ \A s \in Sessions :
           /\ state[s] = "live" => status[owner[s]] = "active"
           /\ state[s] = "rotated" <=> \E t \in Sessions : Replaces[t] = s /\ state[t] # "absent"
           /\ Replaces[s] # None => owner[s] = owner[Replaces[s]]
      /\ \A c, d \in Codes : sent[c] # None /\ sent[c] = sent[d] => c = d
      /\ rows = [r \in Row |->
           CASE r[1] = "code" ->
                  IF r[2] \in Codes /\ sent[r[2]] # None THEN OpenCode(sent[r[2]], 0) ELSE NoCode
             [] r[1] = "session" ->
                  IF r[2] \in Sessions /\ state[r[2]] # "absent"
                  THEN [state |-> state[r[2]], user |-> owner[r[2]],
                        family |-> IF Replaces[r[2]] = None THEN r[2] ELSE Replaces[r[2]]]
                  ELSE NoSession
             [] r[1] = "user" ->
                  IF r[2] \in Users THEN [status |-> status[r[2]], address |-> Home[r[2]]] ELSE NoUser
             [] r[1] = "key" ->
                  IF \E u \in Users : Home[u] = r[2] THEN CHOOSE u \in Users : Home[u] = r[2] ELSE None]

\* A request that has not come, or is over.
Blank(pc) == [kind |-> "none", pc |-> pc, user |-> None, address |-> None, key |-> None, session |-> None,
              code |-> None, guess |-> None, made |-> 0, turn |-> 0,
              wide |-> FALSE, keyed |-> FALSE,
              todo |-> {}, refs |-> {}, moved |-> {}, struck |-> {}, missed |-> {}]

Init ==
    /\ Settled(db)
    /\ draft = db
    /\ lock = [r \in Row |-> Nobody]
    /\ job = [j \in Jobs |-> Blank("idle")]
    /\ clock = 1
    /\ uses = [c \in AllCodes |-> 0] /\ wrong = [c \in AllCodes |-> 0]
    /\ ended = {} /\ outlived = {}

(***************************************************************************)
(* Statements                                                              *)
(***************************************************************************)
Sees(j, r) == IF lock[r] = j THEN draft[r] ELSE db[r]
Free(j, r) == lock[r] \in {Nobody, j}

\* SELECT ... FOR UPDATE of a user, which new sessions of the user delay ...
Firm(j, r) == Free(j, r) /\ \A k \in Jobs \ {j} : r \notin job[k].refs

\* ... and the other way round: a new session waits for a FOR UPDATE of its
\* user, not for an update, which touches no key.
Refer(j, r) == lock[r] \in {Nobody, j} \union {k \in Jobs : job[k].kind \in {"status", "change"}}

\* A statement that writes the rows of R, once nobody else has them.
Put(j, R, new) ==
    /\ \A r \in R : Free(j, r)
    /\ lock' = [r \in Row |-> IF r \in R THEN j ELSE lock[r]]
    /\ draft' = [r \in Row |-> IF r \in R THEN new[r] ELSE draft[r]]
    /\ UNCHANGED db

Put1(j, row, value) == Put(j, {row}, [r \in {row} |-> value])

\* A serializable transaction writes no row committed since it began.
Unmoved(j, R) == R \intersect job[j].moved = {}

Becomes(j, next) == job' = [job EXCEPT ![j] = next]
Goto(j, pc) == Becomes(j, [job[j] EXCEPT !.pc = pc])

\* ActiveAccount: the session a signed-in request comes with.
SignedIn(s) ==
    /\ db[SessionRow(s)].state = "live"
    /\ db[UserRow(db[SessionRow(s)].user)].status = "active"

(***************************************************************************)
(* RequestCode                                                             *)
(***************************************************************************)
\* The codes of the address are counted ...
RequestCode(j) ==
    /\ job[j].pc = "idle"
    /\ \E a \in Addresses :
         /\ Cardinality({c \in AllCodes : db[CodeRow(c)].at = a}) < EmailLimit
         /\ Becomes(j, [Blank("look") EXCEPT !.kind = "code", !.address = a, !.made = clock])
    /\ clock' = clock + 1
    /\ UNCHANGED <<tables, history>>

\* ... those open are replaced, or with the account all of them removed: found
\* as the statement starts,
LookForCodes(j) ==
    LET me == job[j]
        found == {c \in AllCodes : /\ Sees(j, CodeRow(c)).at = me.address
                                   /\ me.kind = "code" => Sees(j, CodeRow(c)).state = "open"}
    IN  /\ me.pc = "look"
        /\ Becomes(j, [me EXCEPT !.pc = "write", !.todo = {CodeRow(c) : c \in found}])
        /\ UNCHANGED <<tables, clock, history>>

\* written once they are free, if they are open still; and the new one is put in.
ReplaceCodes(j) ==
    LET me == job[j]
        rows == me.todo \union {CodeRow(j)}
    IN  /\ me.pc = "write" /\ me.kind = "code"
        /\ Put(j, rows, [r \in rows |->
                 IF r = CodeRow(j) THEN OpenCode(me.address, me.made)
                 ELSE [draft[r] EXCEPT !.state = IF @ = "open" THEN "replaced" ELSE @]])
        /\ Becomes(j, [me EXCEPT !.pc = "commit", !.todo = {}])
        /\ UNCHANGED <<clock, history>>

(***************************************************************************)
(* VerifyCode and ChangeEmail: a code is read back                         *)
(***************************************************************************)
\* The guess is an open code of the address, or none of them.
Guesses(a) ==
    {c \in AllCodes : db[CodeRow(c)].state = "open" /\ db[CodeRow(c)].at = a} \union {None}

VerifyCode(j) ==
    /\ job[j].pc = "idle"
    /\ \E a \in Addresses : \E g \in Guesses(a) :
         Becomes(j, [Blank("start") EXCEPT !.kind = "verify", !.address = a, !.key = a,
                                     !.guess = g, !.turn = 1])
    /\ UNCHANGED <<tables, clock, history>>

\* Google: the address is the one Google says is the subject's.
Google(j) ==
    /\ job[j].pc = "idle"
    /\ \E g \in Subjects :
         Becomes(j, [Blank("start") EXCEPT !.kind = "google", !.address = Mail[g], !.key = g, !.turn = 1])
    /\ UNCHANGED <<tables, clock, history>>

ChangeEmail(j) ==
    /\ job[j].pc = "idle"
    /\ \E s \in AllSessions, a \in Addresses : \E g \in Guesses(a) :
         /\ SignedIn(s)
         /\ Becomes(j, [Blank("start") EXCEPT !.kind = "change", !.address = a, !.guess = g,
                                              !.user = db[SessionRow(s)].user])
    /\ UNCHANGED <<tables, clock, history>>

\* The code the statement finds: the last one made.
Newest(c, a) ==
    /\ db[CodeRow(c)].state = "open" /\ db[CodeRow(c)].at = a
    /\ \A d \in AllCodes : db[CodeRow(d)].state = "open" /\ db[CodeRow(d)].at = a
                             => db[CodeRow(d)].made <= db[CodeRow(c)].made

\* Whom an identity signs in: its user, or one who has the address.
SignsIn(k, a, u) ==
    LET owners == {v \in Accounts : /\ db[UserRow(v)].address = a
                                    /\ db[UserRow(v)].status \in {"active", "inactive"}}
    IN  IF db[KeyRow(k)] # None THEN u = db[KeyRow(k)]
        ELSE IF owners # {} THEN u \in owners
        ELSE u = None

\* An address another user has, in one version of the rows or the other.
Taken(rows, a, u) == \E v \in Accounts \ {u} : Undeleted(rows[UserRow(v)]) /\ rows[UserRow(v)].address = a

\* The transaction begins: what it will read is settled here.
Start(j) ==
    LET me == job[j] IN
    /\ me.pc = "start"
    /\ me.kind = "change" => ~Taken(db, me.address, me.user)
    /\ \E c \in AllCodes \union {None}, u \in Accounts \union {None} :
         /\ IF me.kind = "google" THEN c = None ELSE c \in AllCodes /\ Newest(c, me.address)
         /\ IF me.kind = "change" THEN u = me.user ELSE SignsIn(me.key, me.address, u)
         /\ Becomes(j, [me EXCEPT !.pc = IF c = None THEN "resolve" ELSE "take", !.code = c, !.user = u,
                                  !.keyed = me.kind # "change" /\ db[KeyRow(me.key)] # None])
    /\ UNCHANGED <<tables, clock, history>>

\* What becomes of a code that is guessed.
Guessed(code, right) ==
    IF right THEN [code EXCEPT !.state = "used"] ELSE [code EXCEPT !.tries = @ + 1]

AfterGuess(me, right) ==
    IF ~right THEN "commit" ELSE IF me.kind = "change" THEN "move" ELSE "resolve"

\* Mutant form: one guess more than the limit.
TakeCodeOffByOne(j) ==
    LET me == job[j]
        row == CodeRow(me.code)
        right == me.guess = me.code
    IN  /\ me.pc = "take"
        /\ Unmoved(j, {row})
        /\ db[row].tries <= MaxTries
        /\ Put1(j, row, Guessed(db[row], right))
        /\ Goto(j, AfterGuess(me, right))
        /\ UNCHANGED <<clock, history>>

\* Mutant form: the code is taken as the request found it, whatever has become
\* of it since.
TakeCodeAsFound(j) ==
    LET me == job[j]
        row == CodeRow(me.code)
        right == me.guess = me.code
    IN  /\ me.pc = "take"
        /\ db[row].tries < MaxTries
        /\ Put1(j, row, Guessed(db[row], right))
        /\ Goto(j, AfterGuess(me, right))
        /\ UNCHANGED <<clock, history>>

\* Mutant form: a wrong guess is answered and rolled back.
TakeCodeUncounted(j) ==
    LET me == job[j]
        row == CodeRow(me.code)
        right == me.guess = me.code
    IN  /\ me.pc = "take"
        /\ Unmoved(j, {row})
        /\ db[row].tries < MaxTries
        /\ Put1(j, row, IF right THEN Guessed(db[row], right) ELSE db[row])
        /\ Goto(j, AfterGuess(me, right))
        /\ UNCHANGED <<clock, history>>

\* The code is locked and compared: a wrong guess is counted, a right one uses
\* the code up.
TakeCode(j) ==
    LET me == job[j]
        row == CodeRow(me.code)
        right == me.guess = me.code
    IN  /\ me.pc = "take"
        /\ Unmoved(j, {row})
        /\ db[row].tries < MaxTries
        /\ Put1(j, row, Guessed(db[row], right))
        /\ Goto(j, AfterGuess(me, right))
        /\ UNCHANGED <<clock, history>>

\* resolveIdentity and createSession: an account that was deleted comes back,
\* an address nobody has makes one, a suspended user is refused.
Resolve(j) ==
    LET me == job[j]
        u == IF me.user = None THEN j ELSE me.user
        old == db[UserRow(u)]
        mine == {UserRow(u), SessionRow(j)} \union (IF me.keyed THEN {} ELSE {KeyRow(me.key)})
    IN  /\ me.pc = "resolve"
        /\ Firm(j, UserRow(u)) /\ Unmoved(j, mine)
        /\ old.status # "suspended"
        /\ old.status # "active" => ~Taken(db, me.address, u) /\ ~Taken(draft, me.address, u)
        /\ Put(j, mine, [r \in mine |->
                 CASE r = UserRow(u) ->
                        IF old.status = "active" THEN old
                        ELSE [status |-> "active", address |-> me.address]
                   [] r = SessionRow(j) -> LiveSession(u, j)
                   [] OTHER -> u])
        /\ Goto(j, "commit")
        /\ UNCHANGED <<clock, history>>

\* The address moves, and the identity with it.
MoveAddress(j) ==
    LET me == job[j]
        u == UserRow(me.user)
        others == {KeyRow(a) : a \in {b \in Addresses \ {me.address} : db[KeyRow(b)] = me.user}}
        mine == {u, KeyRow(me.address)} \union others
    IN  /\ me.pc = "move"
        /\ Unmoved(j, mine)
        /\ Undeleted(db[u]) => ~Taken(db, me.address, me.user) /\ ~Taken(draft, me.address, me.user)
        /\ Put(j, mine, [r \in mine |->
                 CASE r = u -> [db[u] EXCEPT !.address = me.address]
                   [] r = KeyRow(me.address) -> me.user
                   [] OTHER -> None])
        /\ Goto(j, "commit")
        /\ UNCHANGED <<clock, history>>

(***************************************************************************)
(* Sessions: rotation, and the requests that end them                      *)
(***************************************************************************)
\* Refresh locks the session of the token it is given.  A live one is about
\* to be rotated; any other was used before, and its family is to end.
Refresh(j) ==
    /\ job[j].pc = "idle"
    /\ \E s \in AllSessions :
         LET old == db[SessionRow(s)] IN
         /\ old.state # "absent"
         /\ Put1(j, SessionRow(s), old)
         /\ Becomes(j, [Blank(IF old.state = "live" THEN "rotate" ELSE "hunt")
                          EXCEPT !.kind = "refresh", !.session = s, !.user = old.user])
    /\ UNCHANGED <<clock, history>>

\* Mutant form: the session rotated stays good.
RotateBeside(j) ==
    LET me == job[j]
        old == draft[SessionRow(me.session)]
    IN  /\ me.pc = "rotate"
        /\ Refer(j, UserRow(me.user))
        /\ Put1(j, SessionRow(j), LiveSession(old.user, old.family))
        /\ Becomes(j, [me EXCEPT !.pc = "commit", !.refs = {UserRow(me.user)}])
        /\ UNCHANGED <<clock, history>>

\* Mutant form: a session is no reference to its user.
RotateUnreferred(j) ==
    LET me == job[j]
        old == draft[SessionRow(me.session)]
        mine == {SessionRow(me.session), SessionRow(j)}
    IN  /\ me.pc = "rotate"
        /\ Put(j, mine, [r \in mine |-> IF r = SessionRow(j) THEN LiveSession(old.user, old.family)
                                        ELSE [old EXCEPT !.state = "rotated"]])
        /\ Goto(j, "commit")
        /\ UNCHANGED <<clock, history>>

\* The next session of the family takes the place of the one locked, whatever
\* has become of the user.
Rotate(j) ==
    LET me == job[j]
        old == draft[SessionRow(me.session)]
        mine == {SessionRow(me.session), SessionRow(j)}
    IN  /\ me.pc = "rotate"
        /\ Refer(j, UserRow(me.user))
        /\ Put(j, mine, [r \in mine |-> IF r = SessionRow(j) THEN LiveSession(old.user, old.family)
                                        ELSE [old EXCEPT !.state = "rotated"]])
        /\ Becomes(j, [me EXCEPT !.pc = "commit", !.refs = {UserRow(me.user)}])
        /\ UNCHANGED <<clock, history>>

\* Logout of the family, or of all sessions of the user.
Logout(j) ==
    /\ job[j].pc = "idle"
    /\ \E s \in AllSessions, all \in BOOLEAN :
         /\ SignedIn(s)
         /\ Becomes(j, [Blank("hunt") EXCEPT !.kind = "logout", !.session = s, !.wide = all,
                                             !.user = db[SessionRow(s)].user])
    /\ UNCHANGED <<tables, clock, history>>

\* SetUserStatus: a suspension ends the sessions, a reactivation nothing.
SetUserStatus(j) ==
    /\ job[j].pc = "idle"
    /\ \E u \in Accounts, status \in {"active", "suspended"} :
         LET old == db[UserRow(u)] IN
         /\ Undeleted(old)
         /\ Put1(j, UserRow(u), [old EXCEPT !.status = status])
         /\ Becomes(j, [Blank(IF status = "suspended" THEN "hunt" ELSE "commit")
                          EXCEPT !.kind = "status", !.user = u, !.wide = TRUE])
    /\ UNCHANGED <<clock, history>>

\* DeleteAccount, by the user or by an operator, locks the user first.
DeleteAccount(j) ==
    /\ job[j].pc = "idle"
    /\ \E u \in Accounts :
         LET old == db[UserRow(u)] IN
         /\ old.status = "active" /\ Firm(j, UserRow(u))
         /\ Put1(j, UserRow(u), old)
         /\ Becomes(j, [Blank("hunt") EXCEPT !.kind = "account", !.user = u, !.wide = TRUE,
                                             !.address = old.address])
    /\ UNCHANGED <<clock, history>>

\* Mutant form: a replayed token ends its own session only.
ConcernedNarrowly(j, s) ==
    LET row == Sees(j, SessionRow(s)) IN
    /\ row.state # "absent" /\ row.user = job[j].user
    /\ job[j].wide \/ s = job[j].session

\* The sessions a statement of j is about, of those there are as it starts.
Concerned(j, s) ==
    LET row == Sees(j, SessionRow(s))
        mine == Sees(j, SessionRow(job[j].session))
    IN  /\ row.state # "absent" /\ row.user = job[j].user
        /\ job[j].wide \/ row.family = mine.family

\* The statement that revokes them starts: an account's deletion writes every
\* one, the others those that are live ...
Hunt(j) ==
    LET me == job[j]
        found == {s \in AllSessions : Concerned(j, s)}
        hit == {s \in found : me.kind = "account" \/ Sees(j, SessionRow(s)).state = "live"}
    IN  /\ me.pc = "hunt"
        /\ Becomes(j, [me EXCEPT !.pc = "strike", !.todo = {SessionRow(s) : s \in hit},
                                 !.struck = {Sees(j, SessionRow(s)).family : s \in found}])
        /\ UNCHANGED <<tables, clock, history>>

\* ... and writes them when they are free, if they are live still.  A session
\* that was rotated meanwhile is passed over, and the one in its place is not
\* among those found.
Strike(j) ==
    LET me == job[j]
        lost == {draft[r].family : r \in {q \in me.todo : draft[q].state = "rotated"}}
    IN  /\ me.pc = "strike"
        /\ Put(j, me.todo, [r \in me.todo |->
                 [draft[r] EXCEPT !.state = IF @ = "live" THEN "revoked" ELSE @]])
        /\ Becomes(j, [me EXCEPT !.pc = IF me.kind = "account" THEN "look" ELSE "commit",
                                 !.todo = {}, !.missed = IF me.kind = "account" THEN {} ELSE lost])
        /\ UNCHANGED <<clock, history>>

\* The rest of an account's deletion: its codes, and the user.
EraseAccount(j) ==
    LET me == job[j]
        rows == me.todo \union {UserRow(me.user)}
    IN  /\ me.pc = "write" /\ me.kind = "account"
        /\ Put(j, rows, [r \in rows |-> IF r = UserRow(me.user) THEN [draft[r] EXCEPT !.status = "inactive"]
                                        ELSE [NoCode EXCEPT !.state = "gone"]])
        /\ Becomes(j, [me EXCEPT !.pc = "commit", !.todo = {}])
        /\ UNCHANGED <<clock, history>>

(***************************************************************************)
(* The end of a transaction                                                *)
(***************************************************************************)
Unlocked(j) == [r \in Row |-> IF lock[r] = j THEN Nobody ELSE lock[r]]

\* What j changed has moved for the serializable transactions that began before.
Moving(j) == {r \in Row : lock[r] = j /\ draft[r] # db[r]}

Counted(counter, c, yes) == IF yes THEN [counter EXCEPT ![c] = @ + 1] ELSE counter

Commit(j) ==
    LET me == job[j]
        guessed == me.kind \in {"verify", "change"}
    IN  /\ me.pc = "commit"
        /\ db' = [r \in Row |-> Sees(j, r)]
        /\ lock' = Unlocked(j)
        /\ job' = [k \in Jobs |->
             IF k = j THEN Blank("done")
             ELSE IF job[k].pc \in {"take", "resolve", "move"}
             THEN [job[k] EXCEPT !.moved = @ \union Moving(j)]
             ELSE job[k]]
        /\ uses' = Counted(uses, me.code, guessed /\ me.guess = me.code)
        /\ wrong' = Counted(wrong, me.code, guessed /\ me.guess # me.code)
        /\ ended' = ended \union me.struck
        /\ outlived' = (outlived \ me.struck) \union me.missed
        /\ UNCHANGED <<draft, clock>>

RollBack(j) ==
    /\ draft' = [r \in Row |-> IF lock[r] = j THEN db[r] ELSE draft[r]]
    /\ lock' = Unlocked(j)
    /\ UNCHANGED <<db, clock, history>>

\* A request refused, cancelled, out of database, or chosen to end a deadlock.
Abort(j) ==
    /\ job[j].pc \notin {"idle", "done"}
    /\ RollBack(j)
    /\ Becomes(j, Blank("done"))

\* identityRace: VerifyCode and Google begin again after a conflict.  One met at the lock
\* of the code is not among them: its zero expiry is taken for an old code's.
Again(j) ==
    LET me == job[j] IN
    /\ me.kind \in {"verify", "google"} /\ me.pc \in {"resolve", "commit"} /\ me.turn < Turns
    /\ RollBack(j)
    /\ Becomes(j, [Blank("start") EXCEPT !.kind = me.kind, !.address = me.address, !.key = me.key,
                                         !.guess = me.guess, !.turn = me.turn + 1])

Next == \E j \in Jobs :
    \/ RequestCode(j) \/ LookForCodes(j) \/ ReplaceCodes(j)
    \/ VerifyCode(j) \/ Google(j) \/ ChangeEmail(j) \/ Start(j) \/ TakeCode(j) \/ Resolve(j) \/ MoveAddress(j)
    \/ Refresh(j) \/ Rotate(j) \/ Logout(j) \/ SetUserStatus(j) \/ DeleteAccount(j)
    \/ Hunt(j) \/ Strike(j) \/ EraseAccount(j)
    \/ Commit(j) \/ Abort(j) \/ Again(j)

Spec == Init /\ [][Next]_vars

(***************************************************************************)
(* What sign-in promises                                                   *)
(***************************************************************************)
Typed(rows) ==
    /\ DOMAIN rows = Row
    /\ \A c \in AllCodes : rows[CodeRow(c)] \in
         [state : CodeStates, at : Addresses \union {None}, tries : 0 .. MaxTries, made : Nat]
    /\ \A s \in AllSessions : rows[SessionRow(s)] \in
         [state : SessionStates, user : Accounts \union {None}, family : AllSessions \union {None}]
    /\ \A u \in Accounts : rows[UserRow(u)] \in [status : UserStates, address : Addresses \union {None}]
    /\ \A k \in Addresses \union Subjects : rows[KeyRow(k)] \in Accounts \union {None}

TypeOK ==
    /\ Typed(db) /\ Typed(draft)
    /\ lock \in [Row -> Jobs \union {Nobody}]
    /\ \A r \in Row : lock[r] = Nobody => draft[r] = db[r]
    /\ ended \subseteq AllSessions /\ outlived \subseteq AllSessions

\* "The code is spent either way": a code signs somebody in, or moves an
\* address, once, however many requests bring it at the same time.
CodeUsedOnce == \A c \in AllCodes : uses[c] <= 1

\* Every guess that is answered with "wrong" was counted first, and nobody is
\* answered more often than the limit says.
GuessesCounted ==
    \A c \in AllCodes :
        /\ wrong[c] <= MaxTries
        /\ db[CodeRow(c)].state # "gone" => db[CodeRow(c)].tries = wrong[c]

Live(rows, s) == rows[SessionRow(s)].state = "live"

\* A family has one live session: a token that was rotated is good for nothing,
\* whoever presents it while the rotation runs.
OneLivePerFamily ==
    \A s, t \in AllSessions :
        /\ Live(db, s) /\ Live(db, t)
        /\ db[SessionRow(s)].family = db[SessionRow(t)].family
        => s = t

\* "Reuse of a revoked or replaced token revokes the whole family", and so do
\* a logout and a suspension -- save where a rotation was under way, whose
\* session nobody could see yet.
EndedUnlessOutlived ==
    \A s \in AllSessions :
        Live(db, s) /\ db[SessionRow(s)].family \in ended
            => db[SessionRow(s)].family \in outlived

\* A deleted account has no session left, not even one that a rotation was
\* making at the time: none comes back with the account.
DeletionEndsSessions ==
    \A s \in AllSessions :
        Live(db, s) => db[UserRow(db[SessionRow(s)].user)].status # "inactive"
=============================================================================
