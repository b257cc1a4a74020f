------------------------------ MODULE MCOutbox ------------------------------
(* Instances of Outbox for TLC. *)
EXTENDS Outbox

CONSTANTS m1, m2, p1, p2

\* One deployment command, one command of another kind.
MCMessage == {m1, m2}
MCDeployMessage == {m1}
MCMalformed == {m2}
MCPublisher == {p1, p2}
=============================================================================
