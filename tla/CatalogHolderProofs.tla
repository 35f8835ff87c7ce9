------------------------ MODULE CatalogHolderProofs ------------------------
(***************************************************************************)
(* What CatalogHolder promises, for any number of shops, readers and       *)
(* writers: lists are fresh, the copy in place is fresh, and a copy is     *)
(* only ever replaced by one at least as new.                              *)
(***************************************************************************)
EXTENDS CatalogHolder, TLAPS

InLoad(r) == pc[r] \in {"begin", "load", "install", "clean"}
InRefresh(r) == InLoad(r) \/ pc[r] \in {"retry", "acquire", "repick"}

\* What a copy must have seen, given its number.
Covers(c) ==
    \A w \in Writers :
        wpc[w] = "numbered" /\ c.epoch >= mark[w] =>
            \A t \in scope[w] : c.saw[t] >= made[w][t]
FreshLists(c) == c.epoch >= stale => c.saw[AnyList] >= told[AnyList]
FreshPages(c) ==
    c.epoch >= stale => \A s \in Stores : dirty[s] <= c.epoch => c.saw[s] >= told[s]
InRange(c) == c.epoch <= epoch /\ \A t \in Topics : c.saw[t] <= db[t]
NoOlder(c, d) == d.epoch <= c.epoch /\ \A t \in Topics : d.saw[t] <= c.saw[t]

Bounds ==
    /\ \A t \in Topics : told[t] <= db[t]
    /\ \A w \in Writers : mark[w] <= epoch /\ \A t \in Topics : made[w][t] <= db[t]
    /\ stale <= epoch
    /\ \A s \in Stores : dirty[s] <= epoch

CurrentInv ==
    current # NoCopy =>
        InRange(current) /\ Covers(current) /\ FreshLists(current) /\ FreshPages(current)

HeldInv ==
    \A r \in Readers : held[r] # NoCopy =>
        /\ Covers(held[r]) /\ FreshLists(held[r])
        /\ current # NoCopy /\ NoOlder(current, held[r])

LoaderInv ==
    /\ \A r \in Readers : InLoad(r) => loading
    /\ \A r, q \in Readers : InLoad(r) /\ InLoad(q) => r = q

DraftInv ==
    \A r \in Readers :
        /\ pc[r] \in {"load", "install", "clean"} => draft[r].epoch <= epoch
        /\ pc[r] \in {"load", "install"} /\ current # NoCopy => current.epoch <= draft[r].epoch
        /\ pc[r] = "install" =>
            /\ InRange(draft[r]) /\ Covers(draft[r])
            /\ FreshLists(draft[r]) /\ FreshPages(draft[r])
            /\ current # NoCopy => NoOlder(draft[r], current)
        /\ pc[r] = "clean" => current # NoCopy /\ draft[r].epoch <= current.epoch

ReaderInv ==
    \A r \in Readers :
        /\ floor[r] <= told[want[r]]
        /\ pc[r] \in {"answer", "copy"} =>
            held[r] # NoCopy /\ (want[r] = AnyList => held[r].saw[AnyList] >= floor[r])
        /\ InRefresh(r) /\ reason[r] \in {"max_age", "awake"} =>
            current # NoCopy /\ (want[r] = AnyList => current.saw[AnyList] >= floor[r])

\* The inductive invariant.
IInv == TypeOK /\ Bounds /\ CurrentInv /\ HeldInv /\ LoaderInv /\ DraftInv /\ ReaderInv

-----------------------------------------------------------------------------
(* Types.                                                                   *)

LEMMA BlankIsCopy == Blank \in Copies /\ Blank # NoCopy
BY HolderAssumption DEF Blank, Copies, Unread, Versions

LEMMA OlderIsCopy ==
    \A c \in Copies \cup {NoCopy} :
        /\ Older(c) \in Copies \cup {NoCopy}
        /\ c \in Copies => Older(c) \in Copies /\ Older(c).epoch = c.epoch /\ Older(c).saw = c.saw
        /\ Older(c) = NoCopy <=> c = NoCopy
BY HolderAssumption DEF Older, Copies, Versions

LEMMA TypeInit == Init => TypeOK
<1>1. /\ Unread \in Versions
      /\ {AnyList} \in Scopes
      /\ AnyList \in Topics
  BY DEF Unread, Versions, Scopes, Topics
<1> SUFFICES ASSUME Init PROVE TypeOK
  OBVIOUS
<1>3. /\ db \in Versions /\ told \in Versions
      /\ epoch \in Nat /\ stale \in Nat /\ dirty \in [Stores -> Nat]
      /\ current \in Copies \cup {NoCopy}
      /\ retryIn \in 0 .. RetryAfter
  BY <1>1, BlankIsCopy, HolderAssumption DEF Init, Load
<1>4. /\ pc \in [Readers -> ReaderStates]
      /\ want \in [Readers -> Topics]
      /\ floor \in [Readers -> Nat]
      /\ held \in [Readers -> Copies \cup {NoCopy}]
      /\ reason \in [Readers -> Reasons]
      /\ draft \in [Readers -> Copies]
  BY <1>1, BlankIsCopy DEF Init, ReaderStates, Reasons
<1>5. /\ wpc \in [Writers -> {"idle", "committed", "numbered"}]
      /\ scope \in [Writers -> Scopes]
      /\ made \in [Writers -> Versions]
      /\ mark \in [Writers -> Nat]
  BY <1>1 DEF Init
<1>6. loading \in BOOLEAN
  BY DEF Init
<1>7. QED
  BY <1>3, <1>4, <1>5, <1>6 DEF TypeOK

LEMMA TypeWrite ==
    ASSUME TypeOK, NEW w \in Writers, Write(w)
    PROVE  TypeOK'
<1>1. CASE Commit(w)
  BY <1>1 DEF TypeOK, Commit, catalogVars, readerVars, Versions, Topics
<1>2. CASE TakeNumber(w)
  BY <1>2 DEF TypeOK, TakeNumber, readerVars
<1>3. Unread \in Versions /\ {AnyList} \in Scopes
  BY DEF Unread, Versions, Scopes, Topics
<1>4. CASE RaiseStale(w)
  BY <1>3, <1>4 DEF TypeOK, RaiseStale, Tell, Larger, readerVars, Versions
<1>5. CASE RaiseDirty(w)
  BY <1>3, <1>5 DEF TypeOK, RaiseDirty, Tell, Larger, readerVars, Versions
<1>6. QED
  BY <1>1, <1>2, <1>4, <1>5 DEF Write

LEMMA TypeRead ==
    ASSUME TypeOK, NEW r \in Readers, Arrive(r) \/ Serve(r)
    PROVE  TypeOK'
<1>1. CASE Arrive(r)
  BY <1>1 DEF TypeOK, Arrive, Goto, catalogVars, writerVars, ReaderStates, Versions, Topics
<1>2. CASE Pick(r)
  BY <1>2 DEF TypeOK, Pick, Goto, catalogVars, writerVars, ReaderStates
<1>3. CASE Judge(r)
  BY <1>3 DEF TypeOK, Judge, Refresh, Goto, Reasons, catalogVars, writerVars, ReaderStates
<1>4. CASE CheckRetry(r)
  BY <1>4 DEF TypeOK, CheckRetry, Goto, catalogVars, writerVars, ReaderStates
<1>5. CASE Acquire(r)
  BY <1>5 DEF TypeOK, Acquire, Goto, writerVars, ReaderStates
<1>6. CASE ReadEpoch(r)
  BY BlankIsCopy, HolderAssumption, <1>6 DEF TypeOK, ReadEpoch, Goto, Copies, Blank, catalogVars, writerVars, ReaderStates
<1>7. CASE ReadDatabase(r)
  <2>1. draft[r] \in Copies /\ db \in Versions
    BY DEF TypeOK
  <2>2. [draft[r] EXCEPT !.saw = db] \in Copies
    BY <2>1 DEF Copies
  <2>3. draft' = [draft EXCEPT ![r] = [draft[r] EXCEPT !.saw = db]]
    BY <1>7 DEF ReadDatabase
  <2>4. draft' \in [Readers -> Copies]
    BY <2>2, <2>3 DEF TypeOK
  <2>5. QED
    BY <1>7, <2>4 DEF TypeOK, ReadDatabase, Goto, catalogVars, writerVars, ReaderStates
<1>8. CASE FailToRead(r)
  <2>1. retryIn' \in 0 .. RetryAfter
    BY HolderAssumption, <1>8 DEF FailToRead
  <2>2. QED
    BY <1>8, <2>1 DEF TypeOK, FailToRead, Goto, writerVars, ReaderStates
<1>9. CASE Install(r)
  BY <1>9 DEF TypeOK, Install, Goto, writerVars, ReaderStates
<1>10. CASE Clean(r)
  BY <1>10 DEF TypeOK, Clean, Goto, Copies, writerVars, ReaderStates
<1>11. CASE Repick(r)
  BY BlankIsCopy, <1>11 DEF TypeOK, Repick, Goto, Reasons, catalogVars, writerVars, ReaderStates
<1>12. CASE AnswerFromCopy(r)
  BY <1>12 DEF TypeOK, AnswerFromCopy, Goto, catalogVars, writerVars, ReaderStates
<1>13. CASE LeaveToDatabase(r)
  BY <1>13 DEF TypeOK, LeaveToDatabase, Goto, catalogVars, writerVars, ReaderStates
<1>14. CASE Leave(r)
  BY <1>14 DEF TypeOK, Leave, Goto, catalogVars, writerVars, ReaderStates, Topics
<1>15. QED
  BY <1>1, <1>2, <1>3, <1>4, <1>5, <1>6, <1>7, <1>8, <1>9, <1>10, <1>11, <1>12, <1>13, <1>14 DEF Serve, Current, Reload

LEMMA TypeTick == TypeOK /\ Tick => TypeOK'
BY OlderIsCopy, HolderAssumption DEF TypeOK, Tick, writerVars

LEMMA TypeStep == TypeOK /\ [Next]_vars => TypeOK'
<1> SUFFICES ASSUME TypeOK, [Next]_vars PROVE TypeOK'
  OBVIOUS
<1>1. CASE UNCHANGED vars
  BY <1>1 DEF TypeOK, vars, catalogVars, readerVars, writerVars
<1>2. QED
  BY <1>1, TypeWrite, TypeRead, TypeTick DEF Next

-----------------------------------------------------------------------------
(* A write leaves whatever a copy has seen as fresh as it was.              *)

Fresh(c) == InRange(c) /\ Covers(c) /\ FreshLists(c) /\ FreshPages(c)

LEMMA CommitKeeps ==
    ASSUME TypeOK, Bounds, NEW w \in Writers, Commit(w)
    PROVE  /\ Bounds'
           /\ \A c \in Copies : InRange(c) => InRange(c)'
           /\ \A c \in Copies : Covers(c) => Covers(c)'
           /\ \A c \in Copies : FreshLists(c) => FreshLists(c)'
           /\ \A c \in Copies : FreshPages(c) => FreshPages(c)'
<1>1. \A t \in Topics : db'[t] >= db[t] /\ db'[t] \in Nat
  BY DEF Commit, TypeOK, Versions
<1>2. Bounds'
  BY <1>1 DEF Commit, TypeOK, Versions, Bounds, catalogVars, Topics
<1>3. \A c \in Copies : InRange(c) => InRange(c)'
  BY <1>1 DEF Commit, TypeOK, Versions, Copies, InRange, catalogVars
<1>4. \A c \in Copies : Covers(c) => Covers(c)'
  BY DEF Commit, TypeOK, Covers
<1>5. \A c \in Copies : FreshLists(c) => FreshLists(c)'
  BY DEF Commit, FreshLists, catalogVars
<1>6. \A c \in Copies : FreshPages(c) => FreshPages(c)'
  BY DEF Commit, FreshPages, catalogVars
<1>7. QED
  BY <1>2, <1>3, <1>4, <1>5, <1>6

LEMMA NumberKeeps ==
    ASSUME TypeOK, Bounds, NEW w \in Writers, TakeNumber(w)
    PROVE  /\ Bounds'
           /\ \A c \in Copies : InRange(c) => InRange(c)'
           /\ \A c \in Copies : InRange(c) /\ Covers(c) => Covers(c)'
           /\ \A c \in Copies : FreshLists(c) => FreshLists(c)'
           /\ \A c \in Copies : FreshPages(c) => FreshPages(c)'
<1>1. Bounds'
  BY DEF TakeNumber, TypeOK, Versions, Bounds, Topics
<1>2. \A c \in Copies : InRange(c) => InRange(c)'
  BY DEF TakeNumber, TypeOK, Copies, InRange
<1>3. \A c \in Copies : InRange(c) /\ Covers(c) => Covers(c)'
  BY DEF TakeNumber, TypeOK, Covers, Copies, InRange
<1>4. \A c \in Copies : FreshLists(c) => FreshLists(c)'
  BY DEF TakeNumber, FreshLists
<1>5. \A c \in Copies : FreshPages(c) => FreshPages(c)'
  BY DEF TakeNumber, FreshPages
<1>6. QED
  BY <1>1, <1>2, <1>3, <1>4, <1>5

LEMMA RaiseStaleKeeps ==
    ASSUME TypeOK, Bounds, NEW w \in Writers, RaiseStale(w)
    PROVE  /\ Bounds'
           /\ \A c \in Copies : InRange(c) => InRange(c)'
           /\ \A c \in Copies : Covers(c) => Covers(c)'
           /\ \A c \in Copies : Covers(c) /\ FreshLists(c) => FreshLists(c)'
           /\ \A c \in Copies : Covers(c) /\ FreshPages(c) => FreshPages(c)'
<1>1. /\ \A t \in Topics : told'[t] = IF t \in scope[w] THEN Larger(told[t], made[w][t]) ELSE told[t]
      /\ stale' = Larger(stale, mark[w]) /\ stale' \in Nat /\ mark[w] \in Nat /\ stale \in Nat
      /\ dirty' = dirty /\ epoch' = epoch /\ db' = db
      /\ wpc[w] = "numbered" /\ wpc' = [wpc EXCEPT ![w] = "idle"]
      /\ mark' = [mark EXCEPT ![w] = 0] /\ made' = [made EXCEPT ![w] = Unread]
      /\ scope' = [scope EXCEPT ![w] = {AnyList}]
  BY DEF RaiseStale, Tell, TypeOK, Larger
<1>2. Bounds'
  BY <1>1 DEF TypeOK, Versions, Bounds, Topics, Larger, Unread
<1>3. \A c \in Copies : InRange(c) => InRange(c)'
  BY <1>1 DEF InRange
<1>4. \A c \in Copies : Covers(c) => Covers(c)'
  BY <1>1 DEF Covers, TypeOK
<1>5. ASSUME NEW c \in Copies, Covers(c), c.epoch >= stale'
      PROVE  /\ c.epoch >= stale
             /\ \A t \in scope[w] : c.saw[t] >= made[w][t]
  BY <1>1, <1>5 DEF Covers, Larger, Copies
<1>6. \A t \in Topics : told[t] \in Nat /\ made[w][t] \in Nat
  BY DEF TypeOK, Versions
<1>7. \A c \in Copies : Covers(c) /\ FreshLists(c) => FreshLists(c)'
  BY <1>1, <1>5, <1>6 DEF FreshLists, Larger, Copies, Versions, Topics
<1>8. \A c \in Copies : Covers(c) /\ FreshPages(c) => FreshPages(c)'
  BY <1>1, <1>5, <1>6 DEF FreshPages, Larger, Copies, Versions, Topics
<1>9. QED
  BY <1>2, <1>3, <1>4, <1>7, <1>8

LEMMA RaiseDirtyKeeps ==
    ASSUME TypeOK, Bounds, NEW w \in Writers, RaiseDirty(w)
    PROVE  /\ Bounds'
           /\ \A c \in Copies : InRange(c) => InRange(c)'
           /\ \A c \in Copies : Covers(c) => Covers(c)'
           /\ \A c \in Copies : FreshLists(c) => FreshLists(c)'
           /\ \A c \in Copies : Covers(c) /\ FreshPages(c) => FreshPages(c)'
<1>1. /\ \A t \in Topics : told'[t] = IF t \in scope[w] THEN Larger(told[t], made[w][t]) ELSE told[t]
      /\ \A s \in Stores : dirty'[s] = IF s \in scope[w] THEN Larger(dirty[s], mark[w]) ELSE dirty[s]
      /\ mark[w] \in Nat /\ stale' = stale /\ epoch' = epoch /\ db' = db
      /\ wpc[w] = "numbered" /\ wpc' = [wpc EXCEPT ![w] = "idle"]
      /\ mark' = [mark EXCEPT ![w] = 0] /\ made' = [made EXCEPT ![w] = Unread]
      /\ scope' = [scope EXCEPT ![w] = {AnyList}] /\ AnyList \notin scope[w]
  BY DEF RaiseDirty, Tell, TypeOK
<1>2. /\ \A t \in Topics : told[t] \in Nat /\ made[w][t] \in Nat /\ db[t] \in Nat
      /\ \A s \in Stores : dirty[s] \in Nat
  BY DEF TypeOK, Versions
<1>3. Bounds'
  <2>1. \A t \in Topics : told'[t] <= db'[t]
    BY <1>1, <1>2 DEF Bounds, Larger
  <2>2. \A s \in Stores : dirty'[s] <= epoch'
    BY <1>1, <1>2 DEF Bounds, Larger
  <2>3. \A v \in Writers : mark'[v] <= epoch' /\ \A t \in Topics : made'[v][t] <= db'[t]
    BY <1>1, <1>2 DEF Bounds, TypeOK, Unread
  <2>4. QED
    BY <1>1, <2>1, <2>2, <2>3 DEF Bounds
<1>4. \A c \in Copies : InRange(c) => InRange(c)'
  BY <1>1 DEF InRange
<1>5. \A c \in Copies : Covers(c) => Covers(c)'
  BY <1>1 DEF Covers, TypeOK
<1>6. \A c \in Copies : FreshLists(c) => FreshLists(c)'
  BY <1>1 DEF FreshLists, Topics
<1>7. ASSUME NEW c \in Copies, Covers(c), FreshPages(c), c.epoch >= stale,
             NEW s \in Stores, dirty'[s] <= c.epoch
      PROVE  c.saw[s] >= told'[s]
  <2>1. s \in Topics
    BY DEF Topics
  <2>2. dirty[s] <= c.epoch /\ (s \in scope[w] => mark[w] <= c.epoch)
    BY <1>1, <1>2, <1>7 DEF Larger, Copies
  <2>3. c.saw[s] >= told[s] /\ (s \in scope[w] => c.saw[s] >= made[w][s])
    BY <1>1, <1>7, <2>2 DEF Covers, FreshPages, Copies
  <2>4. QED
    BY <1>1, <2>1, <2>3 DEF Larger
<1>8. \A c \in Copies : Covers(c) /\ FreshPages(c) => FreshPages(c)'
  BY <1>1, <1>7 DEF FreshPages
<1>9. QED
  BY <1>3, <1>4, <1>5, <1>6, <1>8

LEMMA WriteKeeps ==
    ASSUME TypeOK, Bounds, NEW w \in Writers, Write(w)
    PROVE  /\ Bounds'
           /\ \A c \in Copies : InRange(c) => InRange(c)'
           /\ \A c \in Copies : InRange(c) /\ Covers(c) => Covers(c)'
           /\ \A c \in Copies : Covers(c) /\ FreshLists(c) => FreshLists(c)'
           /\ \A c \in Copies : Covers(c) /\ FreshPages(c) => FreshPages(c)'
BY CommitKeeps, NumberKeeps, RaiseStaleKeeps, RaiseDirtyKeeps DEF Write

LEMMA WriteStep ==
    ASSUME IInv, NEW w \in Writers, Write(w)
    PROVE  IInv'
<1>1. TypeOK /\ Bounds /\ CurrentInv /\ HeldInv /\ LoaderInv /\ DraftInv /\ ReaderInv
  BY DEF IInv
<1>2. /\ current' = current /\ loading' = loading /\ pc' = pc /\ want' = want
      /\ floor' = floor /\ held' = held /\ reason' = reason /\ draft' = draft
  BY DEF Write, Commit, TakeNumber, RaiseStale, RaiseDirty, Tell, catalogVars, readerVars
<1>3. TypeOK'
  BY <1>1, TypeWrite
<1>4. Bounds'
  BY <1>1, WriteKeeps
<1>5. epoch' >= epoch /\ \A t \in Topics : told'[t] >= told[t]
  BY <1>1 DEF TypeOK, Versions, Write, Commit, TakeNumber, RaiseStale, RaiseDirty, Tell,
              Larger, catalogVars
<1>6. ASSUME NEW c \in Copies, Fresh(c)
      PROVE  Fresh(c)'
  BY <1>1, <1>6, WriteKeeps DEF Fresh
<1>7. CurrentInv'
  BY <1>1, <1>2, <1>6 DEF CurrentInv, TypeOK, Fresh
<1>8. HeldInv'
  <2> SUFFICES ASSUME NEW r \in Readers, held[r] # NoCopy
               PROVE  /\ Covers(held[r])' /\ FreshLists(held[r])'
                      /\ current # NoCopy /\ NoOlder(current, held[r])
    BY <1>2 DEF HeldInv, NoOlder
  <2>1. /\ held[r] \in Copies /\ current \in Copies /\ current # NoCopy
        /\ Covers(held[r]) /\ FreshLists(held[r]) /\ NoOlder(current, held[r])
    BY <1>1 DEF TypeOK, HeldInv
  <2>2. InRange(held[r])
    BY <1>1, <2>1 DEF InRange, NoOlder, CurrentInv, TypeOK, Copies, Versions
  <2>3. Covers(held[r])' /\ FreshLists(held[r])'
    BY <1>1, <1>2, <2>1, <2>2, WriteKeeps
  <2>4. QED
    BY <2>1, <2>3
<1>9. LoaderInv'
  BY <1>1, <1>2 DEF LoaderInv, InLoad
<1>10. DraftInv'
  <2>1. ASSUME NEW r \in Readers, pc[r] = "install"
        PROVE  Fresh(draft[r])'
    BY <1>1, <1>2, <1>6, <2>1 DEF DraftInv, TypeOK, Fresh
  <2>2. ASSUME NEW r \in Readers, draft[r].epoch <= epoch
        PROVE  draft[r].epoch <= epoch'
    BY <1>1, <1>3, <1>5, <2>2 DEF TypeOK, Copies
  <2>3. QED
    BY <1>1, <1>2, <2>1, <2>2 DEF DraftInv, Fresh, NoOlder
<1>11. ReaderInv'
  <2>1. ASSUME NEW r \in Readers
        PROVE  floor[r] <= told'[want[r]]
    BY <1>1, <1>3, <1>5 DEF ReaderInv, TypeOK, Versions
  <2>2. QED
    BY <1>1, <1>2, <2>1 DEF ReaderInv, InRefresh, InLoad
<1>12. QED
  BY <1>3, <1>4, <1>7, <1>8, <1>9, <1>10, <1>11 DEF IInv

-----------------------------------------------------------------------------
(* The readers' steps.                                                      *)

LEMMA ArriveStep ==
    ASSUME IInv, NEW r \in Readers, Arrive(r), TypeOK'
    PROVE  IInv'
<1> USE DEF Arrive, Goto, catalogVars, writerVars
<1>1. Bounds'
  BY DEF IInv, Bounds
<1>2. CurrentInv'
  BY DEF IInv, CurrentInv, InRange, Covers, FreshLists, FreshPages
<1>3. HeldInv'
  BY DEF IInv, TypeOK, CurrentInv, HeldInv, InRange, Covers, FreshLists, NoOlder
<1>4. LoaderInv'
  BY DEF IInv, TypeOK, LoaderInv, InLoad
<1>5. DraftInv'
  BY DEF IInv, TypeOK, DraftInv, InRange, Covers, FreshLists, FreshPages, NoOlder
<1>6. ReaderInv'
  BY DEF IInv, TypeOK, ReaderInv, InRefresh, InLoad
<1>7. QED
  BY <1>1, <1>2, <1>3, <1>4, <1>5, <1>6 DEF IInv

LEMMA PickStep ==
    ASSUME IInv, NEW r \in Readers, Pick(r), TypeOK'
    PROVE  IInv'
<1> USE DEF Pick, Goto, catalogVars, writerVars
<1>1. Bounds'
  BY DEF IInv, Bounds
<1>2. CurrentInv'
  BY DEF IInv, CurrentInv, InRange, Covers, FreshLists, FreshPages
<1>3. HeldInv'
  <2> SUFFICES ASSUME NEW q \in Readers, held'[q] # NoCopy
               PROVE  /\ Covers(held'[q]) /\ FreshLists(held'[q])
                      /\ current # NoCopy /\ NoOlder(current, held'[q])
    BY DEF HeldInv, Covers, FreshLists, NoOlder
  <2>1. CASE q = r
    <3>1. held'[q] = current
      BY <2>1 DEF IInv, TypeOK
    <3>2. NoOlder(current, current)
      BY <3>1 DEF IInv, TypeOK, Copies, Versions, NoOlder
    <3>3. QED
      BY <3>1, <3>2 DEF IInv, CurrentInv
  <2>2. CASE q # r
    BY <2>2 DEF IInv, TypeOK, HeldInv
  <2>3. QED
    BY <2>1, <2>2
<1>4. LoaderInv'
  BY DEF IInv, TypeOK, LoaderInv, InLoad
<1>5. DraftInv'
  BY DEF IInv, TypeOK, DraftInv, InRange, Covers, FreshLists, FreshPages, NoOlder
<1>6. ReaderInv'
  BY DEF IInv, TypeOK, ReaderInv, InRefresh, InLoad
<1>7. QED
  BY <1>1, <1>2, <1>3, <1>4, <1>5, <1>6 DEF IInv

LEMMA JudgeStep ==
    ASSUME IInv, NEW r \in Readers, Judge(r), TypeOK'
    PROVE  IInv'
<1> USE DEF Judge, Goto, Refresh, Invalid, catalogVars, writerVars
<1>1. Bounds'
  BY DEF IInv, Bounds
<1>2. CurrentInv'
  BY DEF IInv, CurrentInv, InRange, Covers, FreshLists, FreshPages
<1>3. HeldInv'
  BY DEF IInv, TypeOK, CurrentInv, HeldInv, InRange, Covers, FreshLists, NoOlder
<1>4. LoaderInv'
  BY DEF IInv, TypeOK, LoaderInv, InLoad
<1>5. DraftInv'
  BY DEF IInv, TypeOK, DraftInv, InRange, Covers, FreshLists, FreshPages, NoOlder
<1>6. ReaderInv'
  <2>1. ASSUME held[r] # NoCopy, held[r].epoch >= stale
        PROVE  /\ current # NoCopy
               /\ want[r] = AnyList => held[r].saw[AnyList] >= floor[r]
               /\ want[r] = AnyList => current.saw[AnyList] >= floor[r]
    <3>1. held[r] \in Copies /\ current \in Copies /\ told \in Versions /\ floor[r] \in Nat
      BY <2>1 DEF IInv, TypeOK, HeldInv
    <3>2. /\ held[r].saw[AnyList] >= told[AnyList]
          /\ current # NoCopy
          /\ held[r].saw[AnyList] <= current.saw[AnyList]
      BY <2>1 DEF IInv, HeldInv, FreshLists, NoOlder, Topics
    <3>3. floor[r] <= told[want[r]]
      BY DEF IInv, ReaderInv
    <3>4. QED
      BY <3>1, <3>2, <3>3 DEF Copies, Versions, Topics
  <2>2. held[r] # NoCopy => held[r].epoch \in Nat /\ stale \in Nat
    BY DEF IInv, TypeOK, Copies
  <2>3. QED
    BY <2>1, <2>2 DEF IInv, TypeOK, ReaderInv, InRefresh, InLoad
<1>7. QED
  BY <1>1, <1>2, <1>3, <1>4, <1>5, <1>6 DEF IInv

LEMMA CheckRetryStep ==
    ASSUME IInv, NEW r \in Readers, CheckRetry(r), TypeOK'
    PROVE  IInv'
<1> USE DEF CheckRetry, Goto, catalogVars, writerVars
<1>1. Bounds'
  BY DEF IInv, Bounds
<1>2. CurrentInv'
  BY DEF IInv, CurrentInv, InRange, Covers, FreshLists, FreshPages
<1>3. HeldInv'
  BY DEF IInv, TypeOK, CurrentInv, HeldInv, InRange, Covers, FreshLists, NoOlder
<1>4. LoaderInv'
  BY DEF IInv, TypeOK, LoaderInv, InLoad
<1>5. DraftInv'
  BY DEF IInv, TypeOK, DraftInv, InRange, Covers, FreshLists, FreshPages, NoOlder
<1>6. ReaderInv'
  BY DEF IInv, TypeOK, ReaderInv, InRefresh, InLoad
<1>7. QED
  BY <1>1, <1>2, <1>3, <1>4, <1>5, <1>6 DEF IInv

LEMMA AcquireStep ==
    ASSUME IInv, NEW r \in Readers, Acquire(r), TypeOK'
    PROVE  IInv'
<1> USE DEF Acquire, Goto, writerVars
<1>1. Bounds'
  BY DEF IInv, Bounds
<1>2. CurrentInv'
  BY DEF IInv, CurrentInv, InRange, Covers, FreshLists, FreshPages
<1>3. HeldInv'
  BY DEF IInv, TypeOK, CurrentInv, HeldInv, InRange, Covers, FreshLists, NoOlder
<1>4. LoaderInv'
  BY DEF IInv, TypeOK, LoaderInv, InLoad
<1>5. DraftInv'
  BY DEF IInv, TypeOK, DraftInv, InRange, Covers, FreshLists, FreshPages, NoOlder
<1>6. ReaderInv'
  BY DEF IInv, TypeOK, ReaderInv, InRefresh, InLoad
<1>7. QED
  BY <1>1, <1>2, <1>3, <1>4, <1>5, <1>6 DEF IInv

LEMMA ReadEpochStep ==
    ASSUME IInv, NEW r \in Readers, ReadEpoch(r), TypeOK'
    PROVE  IInv'
<1> USE DEF ReadEpoch, Goto, Blank, catalogVars, writerVars
<1>1. Bounds'
  BY DEF IInv, Bounds
<1>2. CurrentInv'
  BY DEF IInv, CurrentInv, InRange, Covers, FreshLists, FreshPages
<1>3. HeldInv'
  BY DEF IInv, TypeOK, CurrentInv, HeldInv, InRange, Covers, FreshLists, NoOlder
<1>4. LoaderInv'
  BY DEF IInv, TypeOK, LoaderInv, InLoad
<1>5. DraftInv'
  <2>1. /\ pc'[r] = "load" /\ draft'[r].epoch = epoch
        /\ current # NoCopy => current.epoch <= draft'[r].epoch
        /\ draft'[r].epoch <= epoch
    BY DEF IInv, TypeOK, CurrentInv, InRange
  <2>2. \A q \in Readers : q # r => pc'[q] = pc[q] /\ draft'[q] = draft[q]
    BY DEF IInv, TypeOK
  <2>3. QED
    BY <2>1, <2>2 DEF IInv, DraftInv, InRange, Covers, FreshLists, FreshPages, NoOlder
<1>6. ReaderInv'
  BY DEF IInv, TypeOK, ReaderInv, InRefresh, InLoad
<1>7. QED
  BY <1>1, <1>2, <1>3, <1>4, <1>5, <1>6 DEF IInv

LEMMA ReadDatabaseStep ==
    ASSUME IInv, NEW r \in Readers, ReadDatabase(r), TypeOK'
    PROVE  IInv'
<1> USE DEF ReadDatabase, Goto, catalogVars, writerVars
<1>1. Bounds'
  BY DEF IInv, Bounds
<1>2. CurrentInv'
  BY DEF IInv, CurrentInv, InRange, Covers, FreshLists, FreshPages
<1>3. HeldInv'
  BY DEF IInv, TypeOK, CurrentInv, HeldInv, InRange, Covers, FreshLists, NoOlder
<1>4. LoaderInv'
  BY DEF IInv, TypeOK, LoaderInv, InLoad
<1>5. DraftInv'
  <2>1. /\ pc'[r] = "install" /\ draft'[r].epoch = draft[r].epoch /\ draft'[r].saw = db
        /\ draft[r] \in Copies /\ draft[r].epoch <= epoch
        /\ current # NoCopy => current.epoch <= draft[r].epoch
    BY DEF IInv, TypeOK, DraftInv, Copies
  <2>2. \A t \in Topics : db[t] \in Nat /\ told[t] <= db[t]
    BY DEF IInv, TypeOK, Versions, Bounds
  <2>3. InRange(draft'[r])
    BY <2>1, <2>2 DEF InRange
  <2>4. Covers(draft'[r])
    <3>1. \A w \in Writers : scope[w] \subseteq Topics
      BY DEF IInv, TypeOK, Scopes, Topics
    <3>2. QED
      BY <2>1, <3>1 DEF Covers, IInv, Bounds
  <2>5. FreshLists(draft'[r]) /\ FreshPages(draft'[r])
    BY <2>1, <2>2 DEF FreshLists, FreshPages, Topics
  <2>6. current # NoCopy => NoOlder(draft'[r], current)
    BY <2>1 DEF NoOlder, IInv, CurrentInv, InRange
  <2>7. \A q \in Readers : q # r => pc'[q] = pc[q] /\ draft'[q] = draft[q]
    BY DEF IInv, TypeOK
  <2>8. QED
    BY <2>1, <2>3, <2>4, <2>5, <2>6, <2>7
       DEF IInv, DraftInv, InRange, Covers, FreshLists, FreshPages, NoOlder
<1>6. ReaderInv'
  BY DEF IInv, TypeOK, ReaderInv, InRefresh, InLoad
<1>7. QED
  BY <1>1, <1>2, <1>3, <1>4, <1>5, <1>6 DEF IInv

LEMMA FailToReadStep ==
    ASSUME IInv, NEW r \in Readers, FailToRead(r), TypeOK'
    PROVE  IInv'
<1> USE DEF FailToRead, Goto, writerVars
<1>1. Bounds'
  BY DEF IInv, Bounds
<1>2. CurrentInv'
  BY DEF IInv, CurrentInv, InRange, Covers, FreshLists, FreshPages
<1>3. HeldInv'
  BY DEF IInv, TypeOK, CurrentInv, HeldInv, InRange, Covers, FreshLists, NoOlder
<1>4. LoaderInv'
  BY DEF IInv, TypeOK, LoaderInv, InLoad
<1>5. DraftInv'
  BY DEF IInv, TypeOK, DraftInv, InRange, Covers, FreshLists, FreshPages, NoOlder
<1>6. ReaderInv'
  BY DEF IInv, TypeOK, ReaderInv, InRefresh, InLoad
<1>7. QED
  BY <1>1, <1>2, <1>3, <1>4, <1>5, <1>6 DEF IInv

LEMMA InstallStep ==
    ASSUME IInv, NEW r \in Readers, Install(r), TypeOK'
    PROVE  IInv'
<1> USE DEF Install, Goto, writerVars
<1>1. /\ Bounds /\ CurrentInv /\ HeldInv /\ LoaderInv /\ DraftInv /\ ReaderInv
      /\ current' = draft[r] /\ current' \in Copies /\ current' # NoCopy
      /\ pc' = [pc EXCEPT ![r] = "clean"] /\ pc[r] = "install" /\ pc'[r] = "clean"
  BY HolderAssumption DEF IInv, TypeOK
<1>2. Bounds'
  BY <1>1 DEF Bounds
<1>3. CurrentInv'
  BY <1>1 DEF CurrentInv, DraftInv, InRange, Covers, FreshLists, FreshPages
<1>4. current # NoCopy => NoOlder(draft[r], current)
  BY <1>1 DEF DraftInv
<1>5. HeldInv'
  <2> SUFFICES ASSUME NEW q \in Readers, held[q] # NoCopy
               PROVE  /\ Covers(held[q]) /\ FreshLists(held[q])
                      /\ NoOlder(draft[r], held[q])
    BY <1>1 DEF HeldInv, Covers, FreshLists, NoOlder
  <2>1. /\ Covers(held[q]) /\ FreshLists(held[q])
        /\ current # NoCopy /\ NoOlder(current, held[q])
    BY <1>1 DEF HeldInv
  <2>2. /\ held[q] \in Copies /\ current \in Copies /\ draft[r] \in Copies
    BY <2>1 DEF IInv, TypeOK
  <2>3. NoOlder(draft[r], held[q])
    BY <1>4, <2>1, <2>2 DEF NoOlder, Copies, Versions
  <2>4. QED
    BY <2>1, <2>3
<1>6. LoaderInv'
  BY <1>1 DEF LoaderInv, InLoad, IInv, TypeOK
<1>7. DraftInv'
  <2>1. \A q \in Readers : q # r => pc'[q] = pc[q] /\ ~InLoad(q)
    BY <1>1 DEF LoaderInv, InLoad, IInv, TypeOK
  <2>2. draft[r].epoch <= epoch /\ draft[r].epoch <= current'.epoch
    BY <1>1 DEF DraftInv, Copies
  <2>3. QED
    BY <1>1, <2>1, <2>2 DEF DraftInv, InLoad
<1>8. ReaderInv'
  <2>1. ASSUME NEW q \in Readers, InRefresh(q), reason[q] \in {"max_age", "awake"}, want[q] = AnyList
        PROVE  current'.saw[AnyList] >= floor[q]
    <3>1. current # NoCopy /\ current.saw[AnyList] >= floor[q]
      BY <1>1, <2>1 DEF ReaderInv
    <3>2. current \in Copies /\ draft[r] \in Copies /\ floor[q] \in Nat
      BY <3>1 DEF IInv, TypeOK
    <3>3. current.saw[AnyList] <= draft[r].saw[AnyList]
      BY <1>4, <3>1 DEF NoOlder, Topics
    <3>4. QED
      BY <1>1, <3>1, <3>2, <3>3 DEF Copies, Versions, Topics
  <2>2. \A q \in Readers : InRefresh(q)' => InRefresh(q)
    BY <1>1 DEF InRefresh, InLoad, IInv, TypeOK
  <2>3. \A q \in Readers : pc'[q] \in {"answer", "copy"} => pc[q] \in {"answer", "copy"}
    BY <1>1 DEF IInv, TypeOK
  <2>4. QED
    BY <1>1, <2>1, <2>2, <2>3 DEF ReaderInv
<1>9. QED
  BY <1>2, <1>3, <1>5, <1>6, <1>7, <1>8 DEF IInv

LEMMA CleanStep ==
    ASSUME IInv, NEW r \in Readers, Clean(r), TypeOK'
    PROVE  IInv'
<1> USE DEF Clean, Goto, writerVars
<1>a. /\ \A s \in Stores : dirty'[s] \in Nat /\ dirty[s] \in Nat /\ dirty'[s] <= dirty[s]
      /\ \A s \in Stores : dirty'[s] # dirty[s] => dirty[s] <= draft[r].epoch
      /\ draft[r].epoch \in Nat /\ epoch \in Nat
  BY DEF IInv, TypeOK, Copies
<1>1. Bounds'
  BY <1>a DEF IInv, Bounds
<1>2. CurrentInv'
  <2>1. /\ current # NoCopy /\ current.epoch \in Nat /\ draft[r].epoch <= current.epoch
        /\ FreshPages(current)
    BY DEF IInv, TypeOK, DraftInv, CurrentInv, Copies
  <2>2. FreshPages(current)'
    BY <1>a, <2>1 DEF FreshPages
  <2>3. QED
    BY <2>2 DEF IInv, CurrentInv, InRange, Covers, FreshLists
<1>3. HeldInv'
  BY DEF IInv, TypeOK, CurrentInv, HeldInv, InRange, Covers, FreshLists, NoOlder
<1>4. LoaderInv'
  BY DEF IInv, TypeOK, LoaderInv, InLoad
<1>5. DraftInv'
  <2>1. \A q \in Readers : q # r => pc'[q] = pc[q] /\ ~InLoad(q)
    BY DEF IInv, LoaderInv, InLoad, TypeOK
  <2>2. pc'[r] = "repick"
    BY DEF IInv, TypeOK
  <2>3. QED
    BY <2>1, <2>2 DEF DraftInv, InLoad
<1>6. ReaderInv'
  BY DEF IInv, TypeOK, ReaderInv, InRefresh, InLoad
<1>7. QED
  BY <1>1, <1>2, <1>3, <1>4, <1>5, <1>6 DEF IInv

LEMMA RepickStep ==
    ASSUME IInv, NEW r \in Readers, Repick(r), TypeOK'
    PROVE  IInv'
<1> USE DEF Repick, Goto, Invalid, catalogVars, writerVars
<1>1. Bounds'
  BY DEF IInv, Bounds
<1>2. CurrentInv'
  BY DEF IInv, CurrentInv, InRange, Covers, FreshLists, FreshPages
<1>3. HeldInv'
  <2> SUFFICES ASSUME NEW q \in Readers, held'[q] # NoCopy
               PROVE  /\ Covers(held'[q]) /\ FreshLists(held'[q])
                      /\ current # NoCopy /\ NoOlder(current, held'[q])
    BY DEF HeldInv, Covers, FreshLists, NoOlder
  <2>1. CASE q = r
    <3>1. held'[q] = current
      BY <2>1 DEF IInv, TypeOK
    <3>2. NoOlder(current, current)
      BY <3>1 DEF IInv, TypeOK, Copies, Versions, NoOlder
    <3>3. QED
      BY <3>1, <3>2 DEF IInv, CurrentInv
  <2>2. CASE q # r
    BY <2>2 DEF IInv, TypeOK, HeldInv
  <2>3. QED
    BY <2>1, <2>2
<1>4. LoaderInv'
  BY DEF IInv, TypeOK, LoaderInv, InLoad
<1>5. DraftInv'
  BY DEF IInv, TypeOK, DraftInv, InRange, Covers, FreshLists, FreshPages, NoOlder
<1>6. ReaderInv'
  <2>1. ASSUME pc'[r] = "answer"
        PROVE  current # NoCopy /\ (want[r] = AnyList => current.saw[AnyList] >= floor[r])
    <3>1. CASE reason[r] \in {"max_age", "awake"}
      BY <3>1 DEF IInv, ReaderInv, InRefresh
    <3>2. CASE reason[r] \in {"missing", "invalidated"}
      <4>1. ~Invalid(current)
        BY <2>1, <3>2 DEF IInv, TypeOK
      <4>2. current \in Copies /\ stale \in Nat /\ floor[r] \in Nat /\ told \in Versions
        BY <4>1 DEF IInv, TypeOK
      <4>3. current.saw[AnyList] >= told[AnyList]
        BY <4>1, <4>2 DEF IInv, CurrentInv, FreshLists, Copies
      <4>4. QED
        BY <4>1, <4>2, <4>3 DEF IInv, ReaderInv, Copies, Versions, Topics
    <3>3. QED
      BY <3>1, <3>2 DEF IInv, TypeOK, Reasons
  <2>2. /\ held'[r] = current /\ pc'[r] \in {"answer", "database"}
        /\ \A q \in Readers : q # r => /\ pc'[q] = pc[q] /\ held'[q] = held[q]
                                    /\ reason'[q] = reason[q]
    BY DEF IInv, TypeOK
  <2>3. QED
    BY <2>1, <2>2 DEF IInv, ReaderInv, InRefresh, InLoad
<1>7. QED
  BY <1>1, <1>2, <1>3, <1>4, <1>5, <1>6 DEF IInv

LEMMA AnswerFromCopyStep ==
    ASSUME IInv, NEW r \in Readers, AnswerFromCopy(r), TypeOK'
    PROVE  IInv'
<1> USE DEF AnswerFromCopy, Goto, catalogVars, writerVars
<1>1. Bounds'
  BY DEF IInv, Bounds
<1>2. CurrentInv'
  BY DEF IInv, CurrentInv, InRange, Covers, FreshLists, FreshPages
<1>3. HeldInv'
  BY DEF IInv, TypeOK, CurrentInv, HeldInv, InRange, Covers, FreshLists, NoOlder
<1>4. LoaderInv'
  BY DEF IInv, TypeOK, LoaderInv, InLoad
<1>5. DraftInv'
  BY DEF IInv, TypeOK, DraftInv, InRange, Covers, FreshLists, FreshPages, NoOlder
<1>6. ReaderInv'
  BY DEF IInv, TypeOK, ReaderInv, InRefresh, InLoad
<1>7. QED
  BY <1>1, <1>2, <1>3, <1>4, <1>5, <1>6 DEF IInv

LEMMA LeaveToDatabaseStep ==
    ASSUME IInv, NEW r \in Readers, LeaveToDatabase(r), TypeOK'
    PROVE  IInv'
<1> USE DEF LeaveToDatabase, Goto, catalogVars, writerVars
<1>1. Bounds'
  BY DEF IInv, Bounds
<1>2. CurrentInv'
  BY DEF IInv, CurrentInv, InRange, Covers, FreshLists, FreshPages
<1>3. HeldInv'
  BY DEF IInv, TypeOK, CurrentInv, HeldInv, InRange, Covers, FreshLists, NoOlder
<1>4. LoaderInv'
  BY DEF IInv, TypeOK, LoaderInv, InLoad
<1>5. DraftInv'
  BY DEF IInv, TypeOK, DraftInv, InRange, Covers, FreshLists, FreshPages, NoOlder
<1>6. ReaderInv'
  BY DEF IInv, TypeOK, ReaderInv, InRefresh, InLoad
<1>7. QED
  BY <1>1, <1>2, <1>3, <1>4, <1>5, <1>6 DEF IInv

LEMMA LeaveStep ==
    ASSUME IInv, NEW r \in Readers, Leave(r), TypeOK'
    PROVE  IInv'
<1> USE DEF Leave, Goto, catalogVars, writerVars
<1>1. Bounds'
  BY DEF IInv, Bounds
<1>2. CurrentInv'
  BY DEF IInv, CurrentInv, InRange, Covers, FreshLists, FreshPages
<1>3. HeldInv'
  BY DEF IInv, TypeOK, CurrentInv, HeldInv, InRange, Covers, FreshLists, NoOlder
<1>4. LoaderInv'
  BY DEF IInv, TypeOK, LoaderInv, InLoad
<1>5. DraftInv'
  BY DEF IInv, TypeOK, DraftInv, InRange, Covers, FreshLists, FreshPages, NoOlder
<1>6. ReaderInv'
  <2>1. floor'[r] <= told[want'[r]]
    BY DEF IInv, TypeOK, Versions, Topics
  <2>2. QED
    BY <2>1 DEF IInv, TypeOK, ReaderInv, InRefresh, InLoad
<1>7. QED
  BY <1>1, <1>2, <1>3, <1>4, <1>5, <1>6 DEF IInv

LEMMA ReadStep ==
    ASSUME IInv, NEW r \in Readers, Arrive(r) \/ Serve(r)
    PROVE  IInv'
<1>1. TypeOK'
  BY TypeRead DEF IInv
<1>2. QED
  BY <1>1, ArriveStep, PickStep, JudgeStep, CheckRetryStep, AcquireStep, ReadEpochStep, ReadDatabaseStep,
     FailToReadStep, InstallStep, CleanStep, RepickStep, AnswerFromCopyStep, LeaveToDatabaseStep, LeaveStep
     DEF Serve, Current, Reload

LEMMA TickStep ==
    ASSUME IInv, Tick
    PROVE  IInv'
<1>1. TypeOK'
  BY TypeTick DEF IInv
<1>2. /\ current' = Older(current) /\ held' = [r \in Readers |-> Older(held[r])]
      /\ draft' = [r \in Readers |-> Older(draft[r])]
      /\ UNCHANGED <<db, told, epoch, stale, dirty, loading, pc, want, floor, reason, writerVars>>
  BY DEF Tick
<1>3. /\ current # NoCopy <=> current' # NoCopy
      /\ current # NoCopy => current'.epoch = current.epoch /\ current'.saw = current.saw
      /\ \A r \in Readers :
            /\ held[r] # NoCopy <=> held'[r] # NoCopy
            /\ held[r] # NoCopy => held'[r].epoch = held[r].epoch /\ held'[r].saw = held[r].saw
            /\ draft'[r].epoch = draft[r].epoch /\ draft'[r].saw = draft[r].saw
  BY <1>2, OlderIsCopy DEF IInv, TypeOK
<1>4. Bounds'
  BY <1>2 DEF IInv, Bounds, writerVars
<1>5. CurrentInv'
  BY <1>2, <1>3 DEF IInv, CurrentInv, InRange, Covers, FreshLists, FreshPages, writerVars
<1>6. HeldInv'
  BY <1>2, <1>3 DEF IInv, HeldInv, Covers, FreshLists, NoOlder, writerVars
<1>7. LoaderInv'
  BY <1>2 DEF IInv, LoaderInv, InLoad
<1>8. DraftInv'
  BY <1>2, <1>3 DEF IInv, DraftInv, InRange, Covers, FreshLists, FreshPages, NoOlder, writerVars
<1>9. ReaderInv'
  BY <1>2, <1>3 DEF IInv, ReaderInv, InRefresh, InLoad
<1>10. QED
  BY <1>1, <1>4, <1>5, <1>6, <1>7, <1>8, <1>9 DEF IInv

LEMMA IInvInit == Init => IInv
<1> SUFFICES ASSUME Init PROVE IInv
  OBVIOUS
<1>1. TypeOK
  BY TypeInit
<1>2. /\ db = Unread /\ told = Unread /\ epoch = 0 /\ stale = 0
      /\ dirty = [s \in Stores |-> 0] /\ current \in {Blank, NoCopy}
      /\ pc = [r \in Readers |-> "idle"] /\ floor = [r \in Readers |-> 0]
      /\ want = [r \in Readers |-> AnyList] /\ held = [r \in Readers |-> NoCopy]
      /\ wpc = [w \in Writers |-> "idle"] /\ made = [w \in Writers |-> Unread]
      /\ mark = [w \in Writers |-> 0]
  BY DEF Init, Load
<1>3. Bounds
  BY <1>2 DEF Bounds, Unread
<1>4. CurrentInv
  BY <1>2 DEF CurrentInv, InRange, Covers, FreshLists, FreshPages, Blank, Unread, Topics
<1>5. HeldInv /\ LoaderInv /\ DraftInv
  BY <1>2 DEF HeldInv, LoaderInv, DraftInv, InLoad
<1>6. ReaderInv
  BY <1>2 DEF ReaderInv, InRefresh, InLoad, Unread, Topics
<1>7. QED
  BY <1>1, <1>3, <1>4, <1>5, <1>6 DEF IInv

LEMMA IInvStep == IInv /\ [Next]_vars => IInv'
<1> SUFFICES ASSUME IInv, [Next]_vars PROVE IInv'
  OBVIOUS
<1>1. CASE UNCHANGED vars
  BY <1>1 DEF IInv, TypeOK, Bounds, CurrentInv, HeldInv, LoaderInv, DraftInv, ReaderInv,
              InLoad, InRefresh, InRange, Covers, FreshLists, FreshPages, NoOlder,
              vars, catalogVars, readerVars, writerVars
<1>2. QED
  BY <1>1, WriteStep, ReadStep, TickStep DEF Next

-----------------------------------------------------------------------------
(* What follows from it.                                                    *)

\* Every variable of every reachable state holds a value of its type.
THEOREM TypeCorrect == Spec => []TypeOK
<1>1. TypeOK /\ [Next]_vars => TypeOK'
  BY TypeStep
<1>2. QED
  BY TypeInit, <1>1, PTL DEF Spec

\* The invariant the readers' theorems follow from.
THEOREM Invariant == Spec => []IInv
BY IInvInit, IInvStep, PTL DEF Spec

\* For any number of shops, readers and writers, a list answered from the
\* copy shows every full change whose write had returned when it was asked for.
THEOREM ListsAreFresh == Spec => []ListsFresh
<1>1. IInv => ListsFresh
  BY DEF IInv, ReaderInv, ListsFresh
<1>2. QED
  BY <1>1, Invariant, PTL

\* For any number of shops, readers and writers, the copy in place has read
\* every returned change that the change counter does not hold against it.
THEOREM CopyIsFresh == Spec => []CopyInPlaceIsFresh
<1>1. IInv => CopyInPlaceIsFresh
  <2> SUFFICES ASSUME IInv, ~Invalid(current) PROVE
        /\ current.saw[AnyList] >= told[AnyList]
        /\ \A s \in Stores : ~ChangedSince(current, s) => current.saw[s] >= told[s]
    BY DEF CopyInPlaceIsFresh
  <2>1. /\ current # NoCopy /\ current.epoch \in Nat /\ stale \in Nat
        /\ current.epoch >= stale /\ \A s \in Stores : dirty[s] \in Nat
    BY DEF IInv, TypeOK, Invalid, Copies
  <2>2. QED
    BY <2>1 DEF IInv, CurrentInv, FreshLists, FreshPages, ChangedSince
<1>2. QED
  BY <1>1, Invariant, PTL

\* Whatever reloads overlap or fail, a copy is only ever replaced by one that
\* began reading no earlier and has seen no less.
THEOREM CopyOnlyMovesOn == Spec => CopyNeverGoesBack
<1> DEFINE Step == current # NoCopy =>
                     /\ current' # NoCopy
                     /\ current'.epoch >= current.epoch
                     /\ \A t \in Topics : current'.saw[t] >= current.saw[t]
<1>1. IInv /\ [Next]_vars => [Step]_vars
  <2> SUFFICES ASSUME IInv, [Next]_vars, current # NoCopy PROVE Step
    OBVIOUS
  <2>1. current \in Copies
    BY DEF IInv, TypeOK
  <2>2. CASE current' = current
    BY <2>1, <2>2 DEF Copies, Versions
  <2>3. ASSUME NEW r \in Readers, Install(r)
        PROVE  Step
    <3>1. NoOlder(draft[r], current) /\ draft[r] \in Copies
      BY <2>3 DEF IInv, DraftInv, Install, TypeOK
    <3>2. current' = draft[r] /\ current' # NoCopy
      BY <2>3, <3>1, HolderAssumption DEF Install
    <3>3. QED
      BY <2>1, <3>1, <3>2 DEF NoOlder, Copies, Versions
  <2>4. CASE Tick
    <3>1. current' # NoCopy /\ current'.epoch = current.epoch /\ current'.saw = current.saw
      BY <2>1, <2>4, OlderIsCopy, HolderAssumption DEF Tick
    <3>2. QED
      BY <2>1, <3>1 DEF Copies, Versions
  <2>5. QED
    BY <2>2, <2>3, <2>4
       DEF Next, Write, Commit, TakeNumber, RaiseStale, RaiseDirty, Tell, Arrive, Serve,
           Current, Reload, Pick, Judge, CheckRetry, Acquire, ReadEpoch, ReadDatabase,
           FailToRead, Clean, Repick, AnswerFromCopy, LeaveToDatabase, Leave,
           vars, catalogVars, readerVars, writerVars
<1>2. QED
  BY <1>1, Invariant, PTL DEF Spec, CopyNeverGoesBack

-----------------------------------------------------------------------------
(* Pages.  What a copy shows of a page is what its reader may expect, unless *)
(* the page's entry in dirty keeps the copy from answering it.               *)

Page(c, r) == dirty[want[r]] <= c.epoch => c.saw[want[r]] >= floor[r]
Patient(r) == InRefresh(r) /\ reason[r] \in {"max_age", "awake"}
Replaced(c) == c.epoch < current.epoch

\* A reader sent to refresh by the age of a valid copy takes what it finds
\* afterwards without comparing it with stale, so that the copy in place and
\* the copy being read must both show it its page.
PageOf(r) ==
    want[r] \in Stores =>
        /\ pc[r] = "judge" /\ held[r] # NoCopy =>
            held[r].epoch < stale \/ Replaced(held[r]) \/ Page(held[r], r)
        /\ pc[r] = "answer" => Replaced(held[r]) \/ Page(held[r], r)
        /\ Patient(r) =>
            /\ Page(current, r)
            /\ \A q \in Readers : pc[q] = "install" => Page(draft[q], r)

PageInv == \A r \in Readers : PageOf(r)

\* A copy that covers every full change shows what was told of a page.
LEMMA CoveringCopyShowsPage ==
    ASSUME IInv, NEW c \in Copies, FreshPages(c), c.epoch >= stale,
           NEW r \in Readers, want[r] \in Stores
    PROVE  Page(c, r)
<1>1. floor[r] <= told[want[r]] /\ floor[r] \in Nat /\ told[want[r]] \in Nat
      /\ c.saw[want[r]] \in Nat
  BY DEF IInv, ReaderInv, TypeOK, Versions, Copies
<1>2. QED
  BY <1>1 DEF FreshPages, Page

\* A step of r that leaves the copies and the entries alone is nothing to others.
LEMMA OthersPages ==
    ASSUME PageInv, NEW r \in Readers,
           dirty' = dirty, stale' = stale, current' = current,
           \A q \in Readers \ {r} :
              /\ pc'[q] = pc[q] /\ want'[q] = want[q] /\ floor'[q] = floor[q]
              /\ held'[q] = held[q] /\ reason'[q] = reason[q],
           \A q \in Readers : pc'[q] = "install" => pc[q] = "install" /\ draft'[q] = draft[q],
           PageOf(r)'
    PROVE  PageInv'
<1> SUFFICES ASSUME NEW q \in Readers \ {r} PROVE PageOf(q)'
  BY DEF PageInv
<1>1. PageOf(q)
  BY DEF PageInv
<1>2. Patient(q)' = Patient(q)
  BY DEF Patient, InRefresh, InLoad
<1>3. /\ Page(held[q], q)' = Page(held[q], q) /\ Page(current, q)' = Page(current, q)
      /\ Replaced(held[q])' = Replaced(held[q])
      /\ \A x \in Readers : pc'[x] = "install" => Page(draft[x], q)' = Page(draft[x], q)
  BY DEF Page, Replaced
<1>4. QED
  BY <1>1, <1>2, <1>3 DEF PageOf

LEMMA PagesWrite ==
    ASSUME IInv, PageInv, NEW w \in Writers, Write(w)
    PROVE  PageInv'
<1>1. /\ UNCHANGED <<current, pc, want, floor, held, reason, draft>>
  BY DEF Write, Commit, TakeNumber, RaiseStale, RaiseDirty, Tell, catalogVars, readerVars
<1>2. stale' >= stale /\ stale \in Nat /\ stale' \in Nat
      /\ \A s \in Stores : dirty[s] \in Nat /\ dirty'[s] \in Nat /\ dirty'[s] >= dirty[s]
  BY DEF IInv, TypeOK, Write, Commit, TakeNumber, RaiseStale, RaiseDirty, Tell, Larger, catalogVars
<1>3. ASSUME NEW c \in Copies, NEW r \in Readers, want[r] \in Stores, Page(c, r)
      PROVE  Page(c, r)'
  BY <1>1, <1>2, <1>3 DEF Page, Copies
<1>4. ASSUME NEW r \in Readers, want[r] \in Stores
      PROVE  PageOf(r)'
  <2>1. PageOf(r) /\ Patient(r)' = Patient(r) /\ Replaced(held[r])' = Replaced(held[r])
    BY <1>1 DEF PageInv, Patient, InRefresh, InLoad, Replaced
  <2>2. /\ held[r] \in Copies \cup {NoCopy} /\ current \in Copies \cup {NoCopy}
        /\ \A q \in Readers : draft[q] \in Copies
        /\ pc[r] = "answer" => held[r] # NoCopy
        /\ Patient(r) => current # NoCopy
    BY DEF IInv, TypeOK, ReaderInv, Patient
  <2>3. pc'[r] = "judge" /\ held'[r] # NoCopy =>
            held'[r].epoch < stale' \/ Replaced(held[r])' \/ Page(held[r], r)'
    <3>1. held[r] \in Copies => held[r].epoch \in Nat
      BY DEF Copies
    <3>2. QED
      BY <1>1, <1>2, <1>3, <1>4, <2>1, <2>2, <3>1 DEF PageOf
  <2>4. pc'[r] = "answer" => Replaced(held[r])' \/ Page(held[r], r)'
    BY <1>1, <1>3, <1>4, <2>1, <2>2 DEF PageOf
  <2>5. Patient(r)' => Page(current, r)'
    BY <1>1, <1>3, <1>4, <2>1, <2>2 DEF PageOf
  <2>6. Patient(r)' => \A q \in Readers : pc'[q] = "install" => Page(draft[q], r)'
    BY <1>1, <1>3, <1>4, <2>1, <2>2 DEF PageOf
  <2>7. QED
    BY <2>3, <2>4, <2>5, <2>6 DEF PageOf
<1>5. QED
  BY <1>1, <1>4 DEF PageInv, PageOf

LEMMA PagesPick ==
    ASSUME IInv, PageInv, NEW r \in Readers, Pick(r)
    PROVE  PageInv'
<1> USE DEF Pick, Goto, catalogVars, writerVars
<1>1. /\ dirty' = dirty /\ stale' = stale /\ current' = current /\ draft' = draft
      /\ want' = want /\ floor' = floor
      /\ pc'[r] = "judge" /\ held'[r] = current
      /\ \A q \in Readers \ {r} : pc'[q] = pc[q] /\ want'[q] = want[q] /\ floor'[q] = floor[q]
              /\ held'[q] = held[q] /\ reason'[q] = reason[q]
      /\ \A q \in Readers : pc'[q] = "install" => pc[q] = "install"
  BY DEF IInv, TypeOK
<1>2. PageOf(r)'
  <2>1. SUFFICES ASSUME want[r] \in Stores, current # NoCopy
                 PROVE  current.epoch < stale \/ Page(current, r)
    BY <1>1 DEF PageOf, Patient, InRefresh, InLoad, Page
  <2>2. current \in Copies /\ current.epoch \in Nat /\ stale \in Nat /\ FreshPages(current)
    BY <2>1 DEF IInv, TypeOK, CurrentInv, Copies
  <2>3. QED
    BY <2>1, <2>2, CoveringCopyShowsPage
<1>3. QED
  BY <1>1, <1>2, OthersPages

LEMMA PagesJudge ==
    ASSUME IInv, PageInv, NEW r \in Readers, Judge(r)
    PROVE  PageInv'
<1>1. /\ dirty' = dirty /\ stale' = stale /\ current' = current /\ draft' = draft
      /\ want' = want /\ floor' = floor
      /\ \A q \in Readers \ {r} : pc'[q] = pc[q] /\ want'[q] = want[q] /\ floor'[q] = floor[q]
              /\ held'[q] = held[q] /\ reason'[q] = reason[q]
      /\ pc[r] = "judge" /\ pc'[r] \in {"retry", "answer", "database"}
      /\ pc'[r] = "answer" =>
            held[r] # NoCopy /\ ~(held[r].epoch < stale) /\ held'[r] = held[r]
      /\ pc'[r] = "retry" /\ reason'[r] \in {"max_age", "awake"} =>
            held[r] # NoCopy /\ ~(held[r].epoch < stale)
  BY DEF Judge, Refresh, Goto, Invalid, catalogVars, writerVars, IInv, TypeOK
<1>2. \A q \in Readers : pc'[q] = "install" => pc[q] = "install"
  BY <1>1
<1>3. PageOf(r)'
  <2>1. SUFFICES ASSUME want[r] \in Stores
                 PROVE  /\ pc'[r] = "answer" => Replaced(held[r]) \/ Page(held[r], r)
                        /\ Patient(r)' => /\ Page(current, r)
                                          /\ \A q \in Readers : pc[q] = "install" => Page(draft[q], r)
    BY <1>1, <1>2 DEF PageOf, Page, Replaced
  <2>2. pc'[r] = "answer" => Replaced(held[r]) \/ Page(held[r], r)
    BY <1>1, <2>1 DEF PageInv, PageOf
  <2>3. ASSUME Patient(r)'
        PROVE  /\ Page(current, r)
               /\ \A q \in Readers : pc[q] = "install" => Page(draft[q], r)
    <3>1. held[r] # NoCopy /\ ~(held[r].epoch < stale)
      BY <1>1, <2>3 DEF Patient, InRefresh, InLoad
    <3>2. held[r] \in Copies /\ current # NoCopy /\ current \in Copies /\ NoOlder(current, held[r])
          /\ FreshPages(current)
      BY <3>1 DEF IInv, TypeOK, HeldInv, CurrentInv
    <3>3. /\ held[r].epoch \in Nat /\ current.epoch \in Nat /\ stale \in Nat
          /\ held[r].epoch <= current.epoch
      BY <3>2 DEF IInv, TypeOK, Copies, NoOlder
    <3>4. Page(current, r)
      BY <2>1, <3>1, <3>2, <3>3, CoveringCopyShowsPage
    <3>5. ASSUME NEW q \in Readers, pc[q] = "install"
          PROVE  Page(draft[q], r)
      <4>1. draft[q] \in Copies /\ draft[q].epoch \in Nat /\ FreshPages(draft[q])
            /\ current.epoch <= draft[q].epoch
        BY <3>2, <3>5 DEF IInv, TypeOK, DraftInv, Copies
      <4>2. QED
        BY <2>1, <3>1, <3>3, <4>1, CoveringCopyShowsPage
    <3>6. QED
      BY <3>4, <3>5
  <2>4. QED
    BY <2>2, <2>3
<1>4. QED
  BY <1>1, <1>2, <1>3, OthersPages

\* The steps of a refresh that leave every copy as it is.
LEMMA PagesWait ==
    ASSUME IInv, PageInv, NEW r \in Readers,
           Arrive(r) \/ CheckRetry(r) \/ Acquire(r) \/ ReadEpoch(r) \/ FailToRead(r)
             \/ AnswerFromCopy(r) \/ LeaveToDatabase(r) \/ Leave(r)
    PROVE  PageInv'
<1> USE DEF Arrive, CheckRetry, Acquire, ReadEpoch, FailToRead, AnswerFromCopy, LeaveToDatabase,
            Leave, Goto, catalogVars, writerVars
<1>1. /\ dirty' = dirty /\ stale' = stale /\ current' = current
      /\ \A q \in Readers \ {r} : pc'[q] = pc[q] /\ want'[q] = want[q] /\ floor'[q] = floor[q]
              /\ held'[q] = held[q] /\ reason'[q] = reason[q] /\ draft'[q] = draft[q]
      /\ pc'[r] \notin {"judge", "answer", "install"}
      /\ InRefresh(r)' => InRefresh(r) /\ want'[r] = want[r] /\ floor'[r] = floor[r]
                          /\ reason'[r] = reason[r]
  BY DEF IInv, TypeOK, InRefresh, InLoad
<1>2. \A q \in Readers : pc'[q] = "install" => pc[q] = "install" /\ draft'[q] = draft[q]
  BY <1>1
<1> USE DEF Patient
<1>3. PageOf(r)'
  <2>1. PageOf(r) /\ (Patient(r)' => Patient(r))
    BY <1>1 DEF PageInv
  <2>2. ASSUME Patient(r)', want'[r] \in Stores
        PROVE  Page(current, r)' /\ \A q \in Readers : pc'[q] = "install" => Page(draft[q], r)'
    <3>1. want'[r] = want[r] /\ floor'[r] = floor[r]
      BY <1>1, <2>2
    <3>2. Page(current, r) /\ \A q \in Readers : pc[q] = "install" => Page(draft[q], r)
      BY <2>1, <2>2, <3>1 DEF PageOf
    <3>3. QED
      BY <1>1, <1>2, <3>1, <3>2 DEF Page
  <2>3. QED
    BY <1>1, <2>2 DEF PageOf
<1>4. QED
  BY <1>1, <1>2, <1>3, OthersPages

LEMMA PagesReadDatabase ==
    ASSUME IInv, PageInv, NEW r \in Readers, ReadDatabase(r)
    PROVE  PageInv'
<1>1. /\ dirty' = dirty /\ stale' = stale /\ current' = current /\ want' = want /\ floor' = floor
      /\ held' = held /\ reason' = reason
      /\ pc[r] = "load" /\ pc'[r] = "install" /\ draft'[r].saw = db
      /\ \A q \in Readers \ {r} : pc'[q] = pc[q] /\ draft'[q] = draft[q]
  BY DEF IInv, TypeOK, ReadDatabase, Goto, catalogVars, writerVars, Copies
<1> SUFFICES ASSUME NEW x \in Readers, want[x] \in Stores PROVE PageOf(x)'
  BY <1>1 DEF PageInv, PageOf
<1>2. PageOf(x) /\ Patient(x)' = Patient(x)
  BY <1>1 DEF PageInv, Patient, InRefresh, InLoad
<1>3. Page(draft[r], x)'
  <2>1. floor[x] <= told[want[x]] /\ told[want[x]] <= db[want[x]]
    BY DEF IInv, ReaderInv, Bounds, Topics
  <2>2. floor[x] \in Nat /\ told[want[x]] \in Nat /\ db[want[x]] \in Nat
    BY DEF IInv, TypeOK, Versions
  <2>3. QED
    BY <1>1, <2>1, <2>2 DEF Page
<1>4. /\ pc'[x] = "judge" => pc[x] = "judge"
      /\ pc'[x] = "answer" => pc[x] = "answer"
  BY <1>1
<1>5. Patient(x)' => \A q \in Readers : pc'[q] = "install" => Page(draft[q], x)'
  <2>1. SUFFICES ASSUME Patient(x), NEW q \in Readers \ {r}, pc[q] = "install"
                 PROVE  Page(draft[q], x)'
    BY <1>1, <1>2, <1>3
  <2>2. QED
    BY <1>1, <1>2, <2>1 DEF PageOf, Page
<1>6. QED
  BY <1>1, <1>2, <1>4, <1>5 DEF PageOf, Page, Replaced

LEMMA PagesInstall ==
    ASSUME IInv, PageInv, NEW r \in Readers, Install(r)
    PROVE  PageInv'
<1>1. /\ dirty' = dirty /\ stale' = stale /\ want' = want /\ floor' = floor
      /\ held' = held /\ reason' = reason /\ draft' = draft
      /\ pc[r] = "install" /\ pc'[r] = "clean" /\ current' = draft[r]
      /\ \A q \in Readers \ {r} : pc'[q] = pc[q]
  BY DEF IInv, TypeOK, Install, Goto, writerVars
<1> SUFFICES ASSUME NEW x \in Readers, want[x] \in Stores PROVE PageOf(x)'
  BY <1>1 DEF PageInv, PageOf
<1>2. PageOf(x) /\ Patient(x)' = Patient(x)
  BY <1>1 DEF PageInv, Patient, InRefresh, InLoad
<1>3. ASSUME held[x] # NoCopy, Replaced(held[x])
      PROVE  Replaced(held[x])'
  <2>1. current # NoCopy /\ current \in Copies /\ held[x] \in Copies /\ draft[r] \in Copies
    BY <1>3 DEF IInv, HeldInv, TypeOK
  <2>2. current.epoch <= draft[r].epoch
    BY <1>1, <2>1 DEF IInv, DraftInv
  <2>3. QED
    BY <1>1, <1>3, <2>1, <2>2 DEF Replaced, Copies
<1>4. Patient(x)' => /\ Page(current, x)'
                     /\ \A q \in Readers : pc'[q] = "install" => Page(draft[q], x)'
  BY <1>1, <1>2 DEF PageOf, Page
<1>5. pc'[x] = "judge" /\ held'[x] # NoCopy =>
          held'[x].epoch < stale' \/ Replaced(held[x])' \/ Page(held[x], x)'
  BY <1>1, <1>2, <1>3 DEF PageOf, Page
<1>6. pc'[x] = "answer" => Replaced(held[x])' \/ Page(held[x], x)'
  <2>1. pc[x] = "answer" => held[x] # NoCopy
    BY DEF IInv, ReaderInv
  <2>2. QED
    BY <1>1, <1>2, <1>3, <2>1 DEF PageOf, Page
<1>7. QED
  BY <1>4, <1>5, <1>6 DEF PageOf

\* An entry goes only when the copy in place covers it: whoever still holds an
\* older copy holds one that was replaced.
LEMMA PagesClean ==
    ASSUME IInv, PageInv, NEW r \in Readers, Clean(r)
    PROVE  PageInv'
<1>1. /\ stale' = stale /\ current' = current /\ want' = want /\ floor' = floor
      /\ held' = held /\ reason' = reason /\ draft' = draft
      /\ pc[r] = "clean" /\ pc'[r] = "repick"
      /\ \A q \in Readers \ {r} : pc'[q] = pc[q]
      /\ \A s \in Stores : dirty'[s] = IF dirty[s] <= draft[r].epoch THEN 0 ELSE dirty[s]
  BY DEF IInv, TypeOK, Clean, Goto, writerVars
<1>2. /\ current # NoCopy /\ current.epoch \in Nat /\ draft[r].epoch \in Nat
      /\ draft[r].epoch <= current.epoch
      /\ \A s \in Stores : dirty[s] \in Nat
  BY <1>1 DEF IInv, DraftInv, TypeOK, Copies
<1>3. \A q \in Readers : pc'[q] # "install"
  BY <1>1 DEF IInv, LoaderInv, InLoad
<1> SUFFICES ASSUME NEW x \in Readers, want[x] \in Stores PROVE PageOf(x)'
  BY <1>1 DEF PageInv, PageOf
<1>4. PageOf(x) /\ (Patient(x)' => Patient(x))
  BY <1>1 DEF PageInv, Patient, InRefresh, InLoad
<1>5. ASSUME NEW c \in Copies, Page(c, x)
      PROVE  Page(c, x)' \/ c.epoch < current.epoch
  <2>1. c.epoch \in Nat
    BY DEF Copies
  <2>2. QED
    BY <1>1, <1>2, <1>5, <2>1 DEF Page
<1>6. ASSUME held[x] # NoCopy, Replaced(held[x]) \/ Page(held[x], x)
      PROVE  Replaced(held[x])' \/ Page(held[x], x)'
  <2>1. held[x] \in Copies
    BY <1>6 DEF IInv, TypeOK
  <2>2. QED
    BY <1>1, <1>5, <1>6, <2>1 DEF Replaced, Page
<1>7. pc'[x] = "judge" /\ held'[x] # NoCopy =>
          held'[x].epoch < stale' \/ Replaced(held[x])' \/ Page(held[x], x)'
  BY <1>1, <1>4, <1>6 DEF PageOf
<1>8. pc'[x] = "answer" => Replaced(held[x])' \/ Page(held[x], x)'
  <2>1. pc[x] = "answer" => held[x] # NoCopy
    BY DEF IInv, ReaderInv
  <2>2. QED
    BY <1>1, <1>4, <1>6, <2>1 DEF PageOf
<1>9. Patient(x)' => Page(current, x)'
  <2>1. current \in Copies
    BY <1>2 DEF IInv, TypeOK
  <2>2. QED
    BY <1>1, <1>2, <1>4, <1>5, <2>1 DEF PageOf, Page
<1>10. QED
  BY <1>3, <1>7, <1>8, <1>9 DEF PageOf

LEMMA PagesRepick ==
    ASSUME IInv, PageInv, NEW r \in Readers, Repick(r)
    PROVE  PageInv'
<1>1. /\ dirty' = dirty /\ stale' = stale /\ current' = current
      /\ want' = want /\ floor' = floor
      /\ pc[r] = "repick" /\ held'[r] = current /\ pc'[r] \in {"answer", "database"}
      /\ \A q \in Readers \ {r} : pc'[q] = pc[q] /\ want'[q] = want[q] /\ floor'[q] = floor[q]
              /\ held'[q] = held[q] /\ reason'[q] = reason[q] /\ draft'[q] = draft[q]
      /\ pc'[r] = "answer" => reason[r] \in {"max_age", "awake"} \/ ~Invalid(current)
  BY DEF Repick, Goto, catalogVars, writerVars, IInv, TypeOK, Reasons
<1>2. \A q \in Readers : pc'[q] = "install" => pc[q] = "install" /\ draft'[q] = draft[q]
  BY <1>1
<1>3. ASSUME want[r] \in Stores, pc'[r] = "answer"
      PROVE  Page(current, r)
  <2>1. CASE reason[r] \in {"max_age", "awake"}
    BY <1>1, <1>3, <2>1 DEF PageInv, PageOf, Patient, InRefresh
  <2>2. CASE ~Invalid(current)
    <3>1. /\ current \in Copies /\ current.epoch \in Nat /\ stale \in Nat
          /\ FreshPages(current) /\ ~(current.epoch < stale)
      BY <2>2 DEF IInv, TypeOK, CurrentInv, Invalid, Copies
    <3>2. QED
      BY <1>3, <3>1, CoveringCopyShowsPage
  <2>3. QED
    BY <1>1, <1>3, <2>1, <2>2
<1>4. PageOf(r)'
  BY <1>1, <1>3 DEF PageOf, Page, Patient, InRefresh, InLoad
<1>5. QED
  BY <1>1, <1>2, <1>4, OthersPages

LEMMA PagesTick ==
    ASSUME IInv, PageInv, Tick
    PROVE  PageInv'
<1>1. /\ UNCHANGED <<dirty, stale, pc, want, floor, reason>>
      /\ current # NoCopy => current'.epoch = current.epoch /\ current'.saw = current.saw
      /\ \A r \in Readers :
            /\ held[r] # NoCopy <=> held'[r] # NoCopy
            /\ held[r] # NoCopy => held'[r].epoch = held[r].epoch /\ held'[r].saw = held[r].saw
            /\ draft'[r].epoch = draft[r].epoch /\ draft'[r].saw = draft[r].saw
  BY OlderIsCopy DEF IInv, TypeOK, Tick
<1> SUFFICES ASSUME NEW r \in Readers PROVE PageOf(r)'
  BY DEF PageInv
<1>2. PageOf(r) /\ Patient(r)' = Patient(r)
  BY <1>1 DEF PageInv, Patient, InRefresh, InLoad
<1>3. /\ pc[r] = "answer" => held[r] # NoCopy
      /\ held[r] # NoCopy => current # NoCopy
      /\ Patient(r) => current # NoCopy
  BY DEF IInv, ReaderInv, HeldInv, Patient
<1>4. held[r] # NoCopy => /\ Replaced(held[r])' = Replaced(held[r])
                          /\ Page(held[r], r)' = Page(held[r], r)
  BY <1>1, <1>3 DEF Replaced, Page
<1>5. current # NoCopy => Page(current, r)' = Page(current, r)
  BY <1>1 DEF Page
<1>6. \A q \in Readers : Page(draft[q], r)' = Page(draft[q], r)
  BY <1>1 DEF Page
<1>7. QED
  BY <1>1, <1>2, <1>3, <1>4, <1>5, <1>6 DEF PageOf

LEMMA PageInvStep == IInv /\ PageInv /\ [Next]_vars => PageInv'
<1> SUFFICES ASSUME IInv, PageInv, [Next]_vars PROVE PageInv'
  OBVIOUS
<1>1. CASE UNCHANGED vars
  BY <1>1 DEF PageInv, PageOf, Patient, InRefresh, InLoad, Page, Replaced,
              vars, catalogVars, readerVars, writerVars
<1>2. QED
  BY <1>1, PagesWrite, PagesPick, PagesJudge, PagesWait, PagesReadDatabase, PagesInstall,
     PagesClean, PagesRepick, PagesTick
     DEF Next, Serve, Current, Reload

\* For any number of shops, readers and writers, a page answered from the copy
\* lacks a change that was told before its request arrived only when the copy
\* has been replaced since the reader took it up: Clean removes the entry of a
\* page while a reader of the copy before still has to look at it.
THEOREM OnlyReplacedCopiesAreStale == Spec => StalePageOnlyFromReplacedCopy
<1> DEFINE Step == \A r \in Readers :
                     AnswersPage(r) =>
                        \/ held[r].saw[want[r]] >= floor[r]
                        \/ current.epoch > held[r].epoch
<1>1. IInv /\ PageInv /\ [Next]_vars => [Step]_vars
  <2> SUFFICES ASSUME IInv, PageInv, Next, NEW r \in Readers, AnswersPage(r)
               PROVE  \/ held[r].saw[want[r]] >= floor[r]
                      \/ current.epoch > held[r].epoch
    OBVIOUS
  <2>1. AnswerFromCopy(r)
    <3>1. pc[r] = "answer" /\ pc'[r] = "copy"
      BY DEF AnswersPage
    <3>2. ASSUME NEW q \in Readers, Arrive(q) \/ Serve(q)
          PROVE  q = r /\ AnswerFromCopy(q)
      BY <3>1, <3>2 DEF IInv, TypeOK, Arrive, Serve, Current, Reload, Pick, Judge, Refresh,
         CheckRetry, Acquire, ReadEpoch, ReadDatabase, FailToRead, Install, Clean, Repick,
         AnswerFromCopy, LeaveToDatabase, Leave, Goto
    <3>3. ASSUME NEW w \in Writers, Write(w)
          PROVE  FALSE
      BY <3>1, <3>3 DEF Write, Commit, TakeNumber, RaiseStale, RaiseDirty, Tell, readerVars
    <3>4. ~Tick
      BY <3>1 DEF Tick
    <3>5. QED
      BY <3>2, <3>3, <3>4 DEF Next
  <2>2. want[r] \in Stores /\ pc[r] = "answer" /\ ~(dirty[want[r]] > held[r].epoch)
    BY <2>1 DEF AnswersPage, AnswerFromCopy, ChangedSince
  <2>3. Replaced(held[r]) \/ Page(held[r], r)
    BY <2>2 DEF PageInv, PageOf
  <2>4. held[r] \in Copies /\ current \in Copies /\ dirty[want[r]] \in Nat
    BY <2>2 DEF IInv, TypeOK, ReaderInv, HeldInv
  <2>5. QED
    BY <2>2, <2>3, <2>4 DEF Replaced, Page, Copies
<1>2. Init => PageInv
  BY DEF Init, PageInv, PageOf, Patient, InRefresh, InLoad
<1>3. Spec => [](IInv /\ PageInv)
  BY IInvInit, IInvStep, PageInvStep, <1>2, PTL DEF Spec
<1>4. QED
  BY <1>1, <1>3, PTL DEF Spec, StalePageOnlyFromReplacedCopy

=============================================================================
