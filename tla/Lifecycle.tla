----------------------------- MODULE Lifecycle -----------------------------
(***************************************************************************)
(* What the control plane promises about a deployment record, with no      *)
(* queue, lock, heartbeat or request in sight: a record is queued once,    *)
(* is executed by one owner at a time, may be retried, ends in a terminal  *)
(* status, and once terminal it is never executed again.  A user may       *)
(* cancel it whenever it exists; only a terminal record is removed.        *)
(***************************************************************************)
CONSTANTS Deployment, Worker, Nobody

VARIABLES status, \* status of each record; "none" before, "removed" after
          owner   \* who executes it

lifecycleVars == <<status, owner>>

Ended == {"success", "failed", "stale", "cancelled"}

LifecycleInit ==
  /\ status = [d \in Deployment |-> "none"]
  /\ owner = [d \in Deployment |-> Nobody]

Move(d, s, w) ==
  /\ status' = [status EXCEPT ![d] = s]
  /\ owner' = [owner EXCEPT ![d] = w]

Queue(d) == status[d] = "none" /\ Move(d, "queued", Nobody)

\* The first execution, a retry, or the takeover of an abandoned execution.
Claim(d, w) ==
  /\ status[d] \in {"queued", "retrying", "running"}
  /\ Move(d, "running", w)

Finish(d) ==
  /\ status[d] = "running"
  /\ \E s \in {"success", "failed", "stale", "cancelled", "retrying"} :
       Move(d, s, Nobody)

\* Cancelling may replace the outcome of a record, and it may hit several.
Cancel(S) ==
  /\ \A d \in S : status[d] \notin {"none", "removed"}
  /\ status' = [d \in Deployment |-> IF d \in S THEN "cancelled" ELSE status[d]]
  /\ owner' = [d \in Deployment |-> IF d \in S THEN Nobody ELSE owner[d]]

Remove(d) == status[d] \in Ended /\ Move(d, "removed", Nobody)

LifecycleNext ==
  \/ \E d \in Deployment :
       \/ Queue(d) \/ Finish(d) \/ Remove(d)
       \/ \E w \in Worker : Claim(d, w)
  \/ \E S \in SUBSET Deployment : Cancel(S)

LifecycleSpec == LifecycleInit /\ [][LifecycleNext]_lifecycleVars
=============================================================================
