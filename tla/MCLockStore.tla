---------------------------- MODULE MCLockStore ----------------------------
EXTENDS LockStore, TLC

CONSTANTS w1, w2, w3, lockA, lockB

\* Two calls carry the same lock, the third one another content.
MCContentOf == (w1 :> lockA) @@ (w2 :> lockA) @@ (w3 :> lockB)
\* The two publications of one lock of the concurrency test.
MCTwoCalls == (w1 :> lockA) @@ (w2 :> lockA)
=============================================================================
