------------------------------ MODULE Mailbox -------------------------------
(***************************************************************************)
(* What message delivery promises, with no sessions, frames or retries: a  *)
(* message is queued, the receiver accepts it, and only then may its       *)
(* sender call it delivered.  Each acceptance owes one announcement on the *)
(* receiver's screen, which may be missed but is never made twice.         *)
(*                                                                         *)
(* The abstract specification of docs/PROTOCOL.md "Delivery semantics"     *)
(* that module Delivery is shown to implement.                             *)
(***************************************************************************)
EXTENDS Naturals

CONSTANTS
  Msg,    \* messages
  Ticket  \* whoever may owe an announcement

VARIABLES
  status,    \* the sender's record of each message
  copy,      \* messages the receiver has
  accepted,  \* messages the receiver has ever had
  owed,      \* announcements due: <<ticket, message>>
  shown      \* announcements made, per message

mvars == <<status, copy, accepted, owed, shown>>

Init ==
  /\ status = [m \in Msg |-> "none"]
  /\ copy = {} /\ accepted = {} /\ owed = {}
  /\ shown = [m \in Msg |-> 0]

Become(S, how) == status' = [m \in Msg |-> IF m \in S THEN how ELSE status[m]]

Post(m) ==
  /\ status[m] = "none"
  /\ Become({m}, "queued")
  /\ UNCHANGED <<copy, accepted, owed, shown>>

\* The receiver takes a message it does not have, even one its sender has
\* deleted since.
Accept(m, t) ==
  /\ status[m] # "none" /\ m \notin copy
  /\ copy' = copy \cup {m}
  /\ accepted' = accepted \cup {m}
  /\ owed' = owed \cup {<<t, m>>}
  /\ UNCHANGED <<status, shown>>

Announce(m, t) ==
  /\ <<t, m>> \in owed
  /\ owed' = owed \ {<<t, m>>}
  /\ shown' = [shown EXCEPT ![m] = @ + 1]
  /\ UNCHANGED <<status, copy, accepted>>

\* The screen misses announcements: it reads the copies instead.
Miss ==
  /\ owed' \subseteq owed
  /\ UNCHANGED <<status, copy, accepted, shown>>

Confirm(m) ==
  /\ status[m] = "queued" /\ m \in accepted
  /\ Become({m}, "delivered")
  /\ UNCHANGED <<copy, accepted, owed, shown>>

\* The sender's user deletes messages, delivered or not.
Withdraw(S) ==
  /\ \A m \in S : status[m] \in {"queued", "delivered"}
  /\ Become(S, "deleted")
  /\ UNCHANGED <<copy, accepted, owed, shown>>

\* Retention removes messages at the sender: delivered ones only.
Expire(S) ==
  /\ \A m \in S : status[m] = "delivered"
  /\ Become(S, "pruned")
  /\ UNCHANGED <<copy, accepted, owed, shown>>

Discard(S) ==
  /\ copy' = copy \ S
  /\ UNCHANGED <<status, accepted, owed, shown>>

Next ==
  \/ \E m \in Msg : Post(m) \/ Confirm(m)
  \/ \E m \in Msg, t \in Ticket : Accept(m, t) \/ Announce(m, t)
  \/ Miss
  \/ \E S \in SUBSET Msg : Withdraw(S) \/ Expire(S) \/ Discard(S)

Spec == Init /\ [][Next]_mvars

=============================================================================
