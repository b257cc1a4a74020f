------------------------------ MODULE Handoff ------------------------------
(***************************************************************************)
(* What the transactional outbox promises its callers, with no publisher,  *)
(* lease, retry or table row in sight: a command that was accepted in the  *)
(* caller's transaction is settled only after it has been handed to the    *)
(* queue (or withdrawn by a cancellation), and what is settled stays so.   *)
(* Handing over may happen more than once: delivery is at least once.      *)
(***************************************************************************)
CONSTANT Message

VARIABLES accepted,  \* commands whose transaction committed
          handed,    \* commands given to the queue at least once
          withdrawn, \* commands a publisher dropped because of a cancellation
          settled    \* commands nobody will work on again

handoffVars == <<accepted, handed, withdrawn, settled>>

HandoffInit ==
  /\ accepted = {}
  /\ handed = {}
  /\ withdrawn = {}
  /\ settled = {}

Accept(m) ==
  /\ m \notin accepted
  /\ accepted' = accepted \cup {m}
  /\ UNCHANGED <<handed, withdrawn, settled>>

Hand(m) ==
  /\ m \in accepted
  /\ handed' = handed \cup {m}
  /\ UNCHANGED <<accepted, withdrawn, settled>>

Withdraw(m) ==
  /\ m \in accepted
  /\ withdrawn' = withdrawn \cup {m}
  /\ UNCHANGED <<accepted, handed, settled>>

Settle(m) ==
  /\ m \in handed \cup withdrawn
  /\ settled' = settled \cup {m}
  /\ UNCHANGED <<accepted, handed, withdrawn>>

HandoffNext ==
  \E m \in Message : Accept(m) \/ Hand(m) \/ Withdraw(m) \/ Settle(m)

HandoffSpec == HandoffInit /\ [][HandoffNext]_handoffVars
=============================================================================
