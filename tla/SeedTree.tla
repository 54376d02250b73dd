------------------------------ MODULE SeedTree ------------------------------
(***************************************************************************)
(* The tree of random streams of a simulation: the spawn keys of NumPy's   *)
(* SeedSequence, which are sequences of numbers.  Path number i of a seed  *)
(* is child i, counted from what the seed had spawned before; each path    *)
(* has one child per stochastic stage, and retirement and duration split   *)
(* once more.                                                              *)
(***************************************************************************)
EXTENDS Naturals, Sequences

\* A SeedReference: entropy and pool size never change, so what is left of
\* a node is its key and the number of children it has spawned.
SeedNode == [key : Seq(Nat), spawned : Nat]
Child(node, i) == [key |-> Append(node.key, node.spawned + i), spawned |-> 0]

\* simulate_match: the seed of path number `path` of a batch that starts at
\* path_start.
PathSeed(root, start, path) == Child(root, start + path)

\* derive_match_seed_plan: a stage and, for retirement and duration, one of
\* the halves they split into.  Strength is the last child and duration the
\* one before, so that a plan without them keeps the other keys.
Stages == <<"parameters", "player a", "player b", "points", "retirement",
            "duration", "strength">>
Streams(strength) ==
  {<<i, 0>> : i \in 1..(IF strength THEN 7 ELSE 6)} \cup ({5, 6} \X {1, 2})
StageSeed(seed, stream) ==
  LET stage == Child(seed, stream[1] - 1)
  IN  IF stream[2] = 0 THEN stage ELSE Child(stage, stream[2] - 1)

\* The validator of MatchSeedPlan: no two streams of a path are the same.
StreamsDistinct(seed, strength) ==
  \A x, y \in Streams(strength) :
    x # y => StageSeed(seed, x).key # StageSeed(seed, y).key
=============================================================================
