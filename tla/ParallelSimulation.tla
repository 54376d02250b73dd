------------------------ MODULE ParallelSimulation ------------------------
(***************************************************************************)
(* simulation/parallel.py and parallel_worker.py: calls of                 *)
(* simulate_matches_parallel that share one checkpoint directory, one      *)
(* after the other (a resume) or at once, and the worker processes each    *)
(* starts.  A call cuts its paths into chunks, takes the chunks it finds,  *)
(* cuts others out of larger checkpoints, lets workers simulate the rest   *)
(* and merges.  Calls are killed or interrupted, workers fail, and the     *)
(* processes below a terminated worker live on.                            *)
(*                                                                         *)
(* A simulated path is its index, the setup (distribution, seed, policies) *)
(* it was drawn from and, with the rally layer, the range it was annotated *)
(* in: annotate_paths draws once for a whole batch.                        *)
(***************************************************************************)
EXTENDS Integers, Sequences, FiniteSets

CONSTANTS Calls,
          SetupChoices, \* the ways the calls' setup_ids may agree or differ
          PathsOf,      \* call -> n_paths
          SizeOf,       \* call -> checkpoint_paths
          WorkersOf,    \* call -> workers
          PerProcess,   \* ranges one worker process takes before it starts another (10)
          Rally,        \* do the distributions carry a rally layer?
          TreeKill,     \* does terminating a worker end the processes below it? (Windows)
          Interrupts,   \* may a call be killed or interrupted?
          Faults,       \* may a worker process fail?
          None

ASSUME ParallelAssumption ==
  /\ PathsOf \in [Calls -> Nat \ {0}] /\ SizeOf \in [Calls -> Nat \ {0}]
  /\ WorkersOf \in [Calls -> Nat \ {0}] /\ PerProcess \in Nat \ {0}
  /\ {Rally, TreeKill, Interrupts, Faults} \subseteq BOOLEAN

-----------------------------------------------------------------------------
(* Ranges of paths <<start, count>> and what a checkpoint holds of them. *)

Smaller(a, b) == IF a < b THEN a ELSE b
ChunkCount(c) == (PathsOf[c] + SizeOf[c] - 1) \div SizeOf[c]
Chunk(c, k) == LET start == (k - 1) * SizeOf[c]
               IN <<start, Smaller(SizeOf[c], PathsOf[c] - start)>>
ChunkNumbers(c) == 1..ChunkCount(c)
Ranges == UNION {{Chunk(c, k) : k \in ChunkNumbers(c)} : c \in Calls}
Slots == UNION {{c} \X (1..WorkersOf[c]) : c \in Calls}

\* simulate_matches for one range; a path's own draws depend on setup and
\* index only, its rally annotation on the batch.
Simulated(s, range) ==
  [setup |-> s,
   paths |-> [j \in 1..range[2] |->
                [drawn |-> <<s, range[1] + j - 1>>,
                 annotated |-> IF Rally THEN range ELSE None]]]

\* None is no checkpoint.
ASSUME NoneAssumption ==
  \A f \in SetupChoices : \A c \in Calls : \A r \in Ranges : Simulated(f[c], r) # None

Covers(source, range) ==
  /\ source[2] > range[2]
  /\ source[1] <= range[1]
  /\ range[1] + range[2] <= source[1] + source[2]

\* Fault: the slice starts one path late.
CutLate(batch, source, range) ==
  [batch EXCEPT !.paths = [j \in 1..range[2] |->
     batch.paths[Smaller(range[1] - source[1] + j + 1, source[2])]]]

Cut(batch, source, range) ==
  [batch EXCEPT !.paths = [j \in 1..range[2] |-> batch.paths[range[1] - source[1] + j]]]

-----------------------------------------------------------------------------
VARIABLES setup,     \* the setup_id of each call
          files,     \* the directory: chunk file -> its batch, or None
          pc,        \* where each call is
          at,        \* the chunk it is looking at
          sources,   \* the chunk files its glob found
          cache,     \* the covering checkpoints it has loaded
          from,      \* the covering checkpoint it is about to cut a chunk from
          batches,   \* the batches it holds, by chunk
          watched,   \* the worker processes it still polls
          result,    \* the paths it returned
          queue,     \* the ranges each worker slot still has to do
          left,      \* how many of them its running process takes
          depth,     \* how many processes are above the running one
          doing,     \* what the running process does
          code       \* what the call's poll of the slot's first process says

calling == <<pc, at, sources, cache, from, batches, watched, result>>
working == <<queue, left, depth, doing, code>>
vars == <<setup, files, calling, working>>

Init ==
  /\ setup \in SetupChoices
  /\ files = [r \in Ranges |-> None]
  /\ pc = [c \in Calls |-> "idle"]
  /\ at = [c \in Calls |-> 1]
  /\ sources = [c \in Calls |-> {}]
  /\ cache = [c \in Calls |-> [r \in Ranges |-> None]]
  /\ from = [c \in Calls |-> None]
  /\ batches = [c \in Calls |-> [k \in ChunkNumbers(c) |-> None]]
  /\ watched = [c \in Calls |-> {}]
  /\ result = [c \in Calls |-> <<>>]
  /\ queue = [s \in Slots |-> <<>>]
  /\ left = [s \in Slots |-> 0]
  /\ depth = [s \in Slots |-> 0]
  /\ doing = [s \in Slots |-> "absent"]
  /\ code = [s \in Slots |-> "none"]

Goto(c, step) == pc' = [pc EXCEPT ![c] = step]
Here(c) == Chunk(c, at[c])

\* The exception handler: every watched process is terminated; what a
\* worker started itself is reached on Windows only.
Terminated(c) == {<<c, w>> : w \in {v \in watched[c] : code[<<c, v>>] = "running"}}
Terminate(c) ==
  /\ code' = [s \in Slots |-> IF s \in Terminated(c) THEN "failed" ELSE code[s]]
  /\ doing' = [s \in Slots |->
                 IF s \in Terminated(c) /\ (depth[s] = 0 \/ TreeKill) THEN "stopped" ELSE doing[s]]

Ends(c, outcome) == Goto(c, outcome) /\ Terminate(c) /\ UNCHANGED <<queue, left, depth>>

-----------------------------------------------------------------------------
(* simulate_matches_parallel, one action per access to the directory or to *)
(* the worker processes.                                                   *)

\* directory.glob("chunk-*.pickle"), once
Glob(c) ==
  /\ pc[c] = "idle"
  /\ sources' = [sources EXCEPT ![c] = {r \in Ranges : files[r] # None}]
  /\ Goto(c, "look")
  /\ UNCHANGED <<files, at, cache, from, batches, watched, result, working>>

\* path.exists(); a missing chunk that some listed checkpoint covers is cut
\* from it
Look(c) ==
  /\ pc[c] = "look" /\ at[c] \in ChunkNumbers(c)
  /\ LET covering == {r \in sources[c] : Covers(r, Here(c))} IN
     IF files[Here(c)] # None \/ covering = {}
     THEN Goto(c, "take") /\ UNCHANGED from
     ELSE Goto(c, "source") /\ \E r \in covering : from' = [from EXCEPT ![c] = r]
  /\ UNCHANGED <<files, at, sources, cache, batches, watched, result, working>>

\* A checkpoint of another setup is an error, not something to redo.
Source(c) ==
  /\ pc[c] = "source"
  /\ IF cache[c][from[c]] = None /\ files[from[c]].setup # setup[c]
     THEN Ends(c, "failed") /\ UNCHANGED cache
     ELSE /\ Goto(c, "cut")
          /\ cache' = [cache EXCEPT ![c][from[c]] =
                         IF @ = None THEN files[from[c]] ELSE @]
          /\ UNCHANGED working
  /\ UNCHANGED <<files, at, sources, from, batches, watched, result>>

\* _atomic_pickle of the slice
CutOut(c) ==
  /\ pc[c] = "cut"
  /\ files' = [files EXCEPT ![Here(c)] = Cut(cache[c][from[c]], from[c], Here(c))]
  /\ from' = [from EXCEPT ![c] = None]
  /\ Goto(c, "take")
  /\ UNCHANGED <<at, sources, cache, batches, watched, result, working>>

\* _validated_checkpoint of the chunk
Loads(c, next) ==
  IF files[Here(c)].setup = setup[c]
  THEN /\ batches' = [batches EXCEPT ![c][at[c]] = files[Here(c)]]
       /\ at' = [at EXCEPT ![c] = @ + 1] /\ Goto(c, next)
       /\ UNCHANGED working
  ELSE Ends(c, "failed") /\ UNCHANGED <<at, batches>>

\* the second path.exists(): hold the batch, or leave the chunk pending
Take(c) ==
  /\ pc[c] = "take"
  /\ IF files[Here(c)] # None
     THEN Loads(c, "look")
     ELSE /\ at' = [at EXCEPT ![c] = @ + 1] /\ Goto(c, "look")
          /\ UNCHANGED <<batches, working>>
  /\ UNCHANGED <<files, sources, cache, from, watched, result>>

\* The pending chunks, last first, dealt to the workers in turn.
Pending(c) == {k \in ChunkNumbers(c) : batches[c][k] = None}
Place(k, S) == Cardinality({j \in S : j >= k})
WorkerCount(c) == Smaller(WorkersOf[c], Cardinality(Pending(c)))
Share(c, w) == {k \in Pending(c) : (Place(k, Pending(c)) - 1) % WorkerCount(c) = w - 1}
Dealt(c, w) ==
  [n \in 1..Cardinality(Share(c, w)) |->
     Chunk(c, CHOOSE k \in Share(c, w) : Place(k, Share(c, w)) = n)]

Launch(c) ==
  /\ pc[c] = "look" /\ at[c] \notin ChunkNumbers(c) /\ Pending(c) # {}
  /\ LET started == {c} \X (1..WorkerCount(c)) IN
     /\ watched' = [watched EXCEPT ![c] = 1..WorkerCount(c)]
     /\ queue' = [s \in Slots |-> IF s \in started THEN Dealt(c, s[2]) ELSE queue[s]]
     /\ left' = [s \in Slots |-> IF s \in started THEN PerProcess ELSE left[s]]
     /\ doing' = [s \in Slots |-> IF s \in started THEN "check" ELSE doing[s]]
     /\ code' = [s \in Slots |-> IF s \in started THEN "running" ELSE code[s]]
  /\ Goto(c, "poll")
  /\ UNCHANGED <<files, at, sources, cache, from, batches, result, depth>>

NothingPending(c) ==
  /\ pc[c] = "look" /\ at[c] \notin ChunkNumbers(c) /\ Pending(c) = {}
  /\ at' = [at EXCEPT ![c] = 1]
  /\ Goto(c, "collect")
  /\ UNCHANGED <<files, sources, cache, from, batches, watched, result, working>>

\* The loop polls twice: for failures, and for what still runs.  A worker
\* that fails in between is dropped unnoticed.
PollFailed(c) ==
  /\ pc[c] = "poll"
  /\ IF \E w \in watched[c] : code[<<c, w>>] = "failed"
     THEN Ends(c, "failed") ELSE Goto(c, "sift") /\ UNCHANGED working
  /\ UNCHANGED <<files, at, sources, cache, from, batches, watched, result>>

\* Fault: processes that have ended stay on the list.
PollKeeps(c) ==
  /\ pc[c] = "sift" /\ Goto(c, "poll")
  /\ UNCHANGED <<files, at, sources, cache, from, batches, watched, result, working>>

PollRunning(c) ==
  /\ pc[c] = "sift"
  /\ LET running == {w \in watched[c] : code[<<c, w>>] = "running"} IN
     /\ watched' = [watched EXCEPT ![c] = running]
     /\ IF running # {} THEN Goto(c, "poll") /\ UNCHANGED at
        ELSE Goto(c, "collect") /\ at' = [at EXCEPT ![c] = 1]
  /\ UNCHANGED <<files, sources, cache, from, batches, result, working>>

\* The chunks not held yet are loaded; one that is missing raises.
Collect(c) ==
  /\ pc[c] = "collect" /\ at[c] \in ChunkNumbers(c)
  /\ IF batches[c][at[c]] # None
     THEN at' = [at EXCEPT ![c] = @ + 1] /\ UNCHANGED <<pc, batches, working>>
     ELSE IF files[Here(c)] = None
     THEN Ends(c, "failed") /\ UNCHANGED <<at, batches>>
     ELSE Loads(c, "collect")
  /\ UNCHANGED <<files, sources, cache, from, watched, result>>

\* The batches one after the other: path i lies in chunk (i - 1) \div size.
Merge(c) ==
  /\ pc[c] = "collect" /\ at[c] \notin ChunkNumbers(c)
  /\ result' = [result EXCEPT ![c] =
       [i \in 1..PathsOf[c] |->
          batches[c][((i - 1) \div SizeOf[c]) + 1].paths[((i - 1) % SizeOf[c]) + 1]]]
  /\ Goto(c, "returned")
  /\ UNCHANGED <<files, at, sources, cache, from, batches, watched, working>>

Active(c) == pc[c] \notin {"idle", "returned", "failed", "interrupted", "killed"}

\* KeyboardInterrupt and the like run the exception handler ...
Interrupt(c) ==
  /\ Interrupts /\ Active(c)
  /\ Ends(c, "interrupted")
  /\ UNCHANGED <<files, at, sources, cache, from, batches, watched, result>>

\* ... the death of the calling process does not: its workers go on.
Kill(c) ==
  /\ Interrupts /\ Active(c)
  /\ Goto(c, "killed")
  /\ UNCHANGED <<files, at, sources, cache, from, batches, watched, result, working>>

-----------------------------------------------------------------------------
(* parallel_worker.main in slot s: a process takes PerProcess ranges, then *)
(* starts a process below it for the rest and waits (check=True).          *)

NextRange(s) == Head(queue[s])
Drop(s) == queue' = [queue EXCEPT ![s] = Tail(@)] /\ left' = [left EXCEPT ![s] = @ - 1]

\* target.exists()
WorkerCheck(s) ==
  /\ doing[s] = "check" /\ queue[s] # <<>> /\ left[s] > 0
  /\ IF files[NextRange(s)] # None
     THEN Drop(s) /\ UNCHANGED doing
     ELSE doing' = [doing EXCEPT ![s] = "publish"] /\ UNCHANGED <<queue, left>>
  /\ UNCHANGED <<files, calling, depth, code>>

\* simulate_matches and the os.replace of _atomic_pickle; the temporary
\* file carries the process id and no name the glob finds
WorkerPublish(s) ==
  /\ doing[s] = "publish"
  /\ files' = [files EXCEPT ![NextRange(s)] = Simulated(setup[s[1]], NextRange(s))]
  /\ Drop(s)
  /\ doing' = [doing EXCEPT ![s] = "check"]
  /\ UNCHANGED <<calling, depth, code>>

\* Fault: the rest of the ranges is forgotten.
StartNoOther(s) ==
  /\ doing[s] = "check" /\ queue[s] # <<>> /\ left[s] = 0
  /\ queue' = [queue EXCEPT ![s] = <<>>]
  /\ depth' = [depth EXCEPT ![s] = @ + 1]
  /\ UNCHANGED <<files, calling, left, doing, code>>

StartOther(s) ==
  /\ doing[s] = "check" /\ queue[s] # <<>> /\ left[s] = 0
  /\ left' = [left EXCEPT ![s] = PerProcess]
  /\ depth' = [depth EXCEPT ![s] = @ + 1]
  /\ UNCHANGED <<files, calling, queue, doing, code>>

\* Exit codes travel up the chain, unless its first process is gone.
Exits(s, status) ==
  /\ doing' = [doing EXCEPT ![s] = "stopped"]
  /\ code' = [code EXCEPT ![s] = IF @ = "running" THEN status ELSE @]
  /\ UNCHANGED <<files, calling, queue, left, depth>>

WorkerExit(s) == doing[s] = "check" /\ queue[s] = <<>> /\ Exits(s, "ok")
WorkerFail(s) == Faults /\ doing[s] \in {"check", "publish"} /\ Exits(s, "failed")

\* The first process dies while it waits for one below it.
FirstDies(s) ==
  /\ Faults /\ depth[s] > 0 /\ code[s] = "running"
  /\ code' = [code EXCEPT ![s] = "failed"]
  /\ UNCHANGED <<files, calling, queue, left, depth, doing>>

-----------------------------------------------------------------------------
Call(c) ==
  \/ Glob(c) \/ Look(c) \/ Source(c) \/ CutOut(c) \/ Take(c) \/ Launch(c) \/ NothingPending(c)
  \/ PollFailed(c) \/ PollRunning(c) \/ Collect(c) \/ Merge(c)
Worker(s) == WorkerCheck(s) \/ WorkerPublish(s) \/ StartOther(s) \/ WorkerExit(s)
Disturb ==
  \/ \E c \in Calls : Interrupt(c) \/ Kill(c)
  \/ \E s \in Slots : WorkerFail(s) \/ FirstDies(s)

Next ==
  /\ \/ \E c \in Calls : Call(c)
     \/ \E s \in Slots : Worker(s)
     \/ Disturb
  /\ UNCHANGED setup

Spec == Init /\ [][Next]_vars

\* The operating system runs every process that is ready; nothing makes a
\* call start or a process die.
FairSpec ==
  /\ Spec
  /\ \A c \in Calls : WF_vars(Active(c) /\ Call(c) /\ UNCHANGED setup)
  /\ \A s \in Slots : WF_vars(Worker(s) /\ UNCHANGED setup)

-----------------------------------------------------------------------------
(* Properties *)

\* Every field keeps its type; a call holds only chunks of its own, of its
\* own setup (parallel.py:229-335).
TypeOK ==
  /\ \A r \in Ranges : files[r] # None => Len(files[r].paths) = r[2]
  /\ \A c \in Calls :
       /\ pc[c] \in {"idle", "look", "source", "cut", "take", "poll", "sift", "collect",
                     "returned", "failed", "interrupted", "killed"}
       /\ at[c] \in 1..(ChunkCount(c) + 1)
       /\ sources[c] \subseteq Ranges /\ from[c] \in Ranges \cup {None}
       /\ watched[c] \subseteq 1..WorkersOf[c]
       /\ \A k \in ChunkNumbers(c) :
            batches[c][k] # None => batches[c][k].setup = setup[c]
       /\ \A r \in Ranges : cache[c][r] # None => cache[c][r].setup = setup[c]
  /\ \A s \in Slots :
       /\ left[s] \in 0..PerProcess /\ depth[s] \in Nat
       /\ doing[s] \in {"absent", "check", "publish", "stopped"}
       /\ code[s] \in {"none", "running", "ok", "failed"}

\* A call that returns has the paths one process would have simulated, in
\* their order: whatever was found, cut, redone, killed or raced for, and
\* whatever another match left in the directory
\* (test_match_parameters.py:447: parallel.paths == serial.paths).
ResultIsSerial ==
  \A c \in Calls : pc[c] = "returned" =>
    result[c] = Simulated(setup[c], <<0, PathsOf[c]>>).paths

\* A checkpoint, once there, is never changed while all calls are for one
\* match: two that write one chunk write the same (parallel.py:62, os.replace).
CheckpointsFinal ==
  [][(\A c, d \in Calls : setup[c] = setup[d]) =>
       \A r \in Ranges : files[r] # None => files'[r] = files[r]]_vars

\* A call fails only when a worker of its own has, or when the directory
\* holds a chunk of another setup at that moment; never for what other calls,
\* living or dead, left or do there (parallel.py:117, 302).
FailsForReason ==
  [][\A c \in Calls : pc[c] # "failed" /\ pc'[c] = "failed" =>
       \/ \E w \in 1..WorkersOf[c] : code[<<c, w>>] = "failed"
       \/ \E r \in Ranges : files[r] # None /\ files[r].setup # setup[c]]_vars

\* A call that is under way ends (parallel.py:299: while processes).
CallsEnd == \A c \in Calls : Active(c) ~> ~Active(c)
=============================================================================
