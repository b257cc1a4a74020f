---------------------------- MODULE MCDeployment ----------------------------
(* Instances of Deployment for TLC. *)
EXTENDS Deployment, TLC

CONSTANTS d1, d2, r1, w1, w2

\* Two deployments of one resource compete for its lock; two slots may even
\* execute the same deployment.
MCTwoDeployments == {d1, d2}
MCOneDeployment == {d1}
MCResource == {r1}
MCResourceOf == [d \in Deployment |-> r1]
MCWorker == {w1, w2}

WorkerSymmetry == Permutations(MCWorker)
SharedSymmetry == Permutations(MCWorker) \cup Permutations(MCTwoDeployments)
=============================================================================
