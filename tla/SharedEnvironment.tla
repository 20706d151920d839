-------------------------- MODULE SharedEnvironment --------------------------
(***************************************************************************)
(* TestEnvironment under names that set it apart from the publisher, which *)
(* has a worktree and mishaps of its own, and what it promises.            *)
(***************************************************************************)

CONSTANTS Demands, Unfit, Pushes, MaxPr, MaxAsk, MaxMishap, MaxRound
VARIABLES pr, ledger, env, queue, republish, reset, stack, checkout, asking, op, asks, faults, owed

Test == INSTANCE TestEnvironment WITH worktree <- checkout, mishaps <- faults

FairTestSpec == Test!FairSpec

\* What the panel announces as ready to test is what the containers run, and
\* nobody waits twice or for what it has (derive() and view() of testenv.py).
ReadyMeansRunning == Test!ReadyMeansRunning

\* One request of the human pays for one publication (testenv.py, CA5).
PublishedOnRequest == Test!PublishedOnRequest

\* A finished demand leaves, and the first in the queue is served (reconcile).
QueueServed == Test!QueueServed
=============================================================================
