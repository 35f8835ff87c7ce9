---------------------------- MODULE MailPromise ----------------------------
(***************************************************************************)
(* What the mail outbox promises whoever writes a message into it, with    *)
(* nothing of workers, claims, leases and retries: a message is owed until *)
(* it is sent, given up or erased, and no copy of it leaves while an       *)
(* earlier copy may still be known to have arrived.  A message whose sender  *)
(* was too slow for that has lapsed: of it less is promised.                 *)
(***************************************************************************)
EXTENDS Naturals

CONSTANT Rows      \* the messages

VARIABLES
    mail,     \* message -> what has become of it
    copies,   \* message -> how many copies the provider has taken
    doubts,   \* message -> how many of them the outbox never hears of
    lapsed    \* messages of which only the least is promised

vars == <<mail, copies, doubts, lapsed>>

Init ==
    /\ mail = [r \in Rows |-> "unwritten"]
    /\ copies = [r \in Rows |-> 0]
    /\ doubts = [r \in Rows |-> 0]
    /\ lapsed = {}

\* A copy has been taken, and the outbox may still hear of it.
InFlight(r) == copies[r] = doubts[r] + 1

Becomes(r, from, to) ==
    /\ mail[r] = from
    /\ mail' = [mail EXCEPT ![r] = to]
    /\ UNCHANGED <<copies, doubts, lapsed>>

Write(r) == Becomes(r, "unwritten", "owed")

\* The provider takes a copy, of an erased message too when the worker had
\* it in its hands.  Its answer may be lost at once.
Reach(r) ==
    /\ \/ mail[r] \in {"owed", "erased"} /\ copies[r] = doubts[r]
       \/ mail[r] # "unwritten" /\ r \in lapsed
    /\ copies' = [copies EXCEPT ![r] = copies[r] + 1]
    /\ \/ UNCHANGED doubts
       \/ doubts' = [doubts EXCEPT ![r] = doubts[r] + 1]
    /\ UNCHANGED <<mail, lapsed>>

\* What the provider answered is lost before it is recorded.
Doubt(r) ==
    /\ \/ mail[r] \in {"owed", "erased"} /\ InFlight(r)
       \/ copies[r] > 0 /\ r \in lapsed
    /\ doubts' = [doubts EXCEPT ![r] = doubts[r] + 1]
    /\ UNCHANGED <<mail, copies, lapsed>>

\* Sent only when a copy is known to have been taken, given up only when none
\* is.
Settle(r) == InFlight(r) /\ Becomes(r, "owed", "sent")
GiveUp(r) == copies[r] = doubts[r] /\ Becomes(r, "owed", "given up")

\* A sender that was overtaken says what came of its own attempt.
Overwrite(r) ==
    /\ r \in lapsed
    /\ \E from, to \in {"owed", "sent", "given up"} :
         Becomes(r, from, to) /\ (to = "sent" => copies[r] > 0)

Erase(r) ==
    /\ mail[r] \in {"owed", "sent", "given up"}
    /\ mail' = [mail EXCEPT ![r] = "erased"]
    /\ UNCHANGED <<copies, doubts, lapsed>>

Lapse ==
    /\ \E late \in SUBSET {r \in Rows : mail[r] \in {"owed", "erased"}} :
         lapsed' = lapsed \union late
    /\ UNCHANGED <<mail, copies, doubts>>

Next ==
    \/ \E r \in Rows :
         \/ Write(r) \/ Reach(r) \/ Doubt(r)
         \/ Settle(r) \/ GiveUp(r) \/ Overwrite(r) \/ Erase(r)
    \/ Lapse

Spec == Init /\ [][Next]_vars
=============================================================================
