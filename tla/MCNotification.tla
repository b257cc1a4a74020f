--------------------------- MODULE MCNotification ---------------------------
(* Instances of Notification for TLC. *)
EXTENDS Notification

CONSTANTS d1, w1, w2

MCDelivery == {d1}
MCWorker == {w1, w2}
=============================================================================
