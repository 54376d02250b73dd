-------------------------- MODULE ParallelProofs --------------------------
(***************************************************************************)
(* Theorems about ParallelSimulation without the rally layer, for any      *)
(* number of calls, workers, paths and chunk sizes, with any kills,        *)
(* interrupts and failures.  DirectoryInv says what every checkpoint and   *)
(* every copy of one holds; CallInv what a call knows at each step;        *)
(* WorkInv what its workers still have to do.                              *)
(***************************************************************************)
EXTENDS ParallelSimulation, FiniteSetTheorems, TLAPS

Batches == {Simulated(setup[c], r) : c \in Calls, r \in Ranges}

DirectoryInv ==
  /\ files \in [Ranges -> Batches \union {None}]
  /\ \A r \in Ranges : files[r] # None => \E c \in Calls : files[r] = Simulated(setup[c], r)

\* The fields of one call.
CallTypes(c) ==
  /\ at[c] \in Nat \ {0}
  /\ sources[c] \subseteq {r \in Ranges : files[r] # None}
  /\ cache[c] \in [Ranges -> Batches \union {None}]
  /\ batches[c] \in [ChunkNumbers(c) -> Batches \union {None}]

CallInv(c) ==
  /\ \A r \in Ranges : cache[c][r] # None => cache[c][r] = Simulated(setup[c], r)
  /\ \A k \in ChunkNumbers(c) :
       batches[c][k] # None => batches[c][k] = Simulated(setup[c], Chunk(c, k))
  /\ pc[c] \in {"source", "cut"} =>
       /\ at[c] \in ChunkNumbers(c)
       /\ from[c] \in sources[c] /\ Covers(from[c], Here(c))
  /\ pc[c] = "cut" => cache[c][from[c]] # None
  /\ pc[c] = "take" => at[c] \in ChunkNumbers(c)
  /\ pc[c] = "collect" =>
       \A k \in ChunkNumbers(c) : k < at[c] => batches[c][k] # None
  /\ pc[c] = "returned" =>
       result[c] = Simulated(setup[c], <<0, PathsOf[c]>>).paths

FieldsOfCalls ==
  /\ pc = [c \in Calls |-> pc[c]] /\ at = [c \in Calls |-> at[c]]
  /\ sources = [c \in Calls |-> sources[c]] /\ cache = [c \in Calls |-> cache[c]]
  /\ from = [c \in Calls |-> from[c]] /\ batches = [c \in Calls |-> batches[c]]
  /\ result = [c \in Calls |-> result[c]]

IInv ==
  /\ setup \in SetupChoices
  /\ DirectoryInv
  /\ FieldsOfCalls
  /\ \A c \in Calls : CallTypes(c) /\ CallInv(c)

-----------------------------------------------------------------------------
(* Ranges and slices. *)

LEMMA SetupOfBatch == \A s, r : Simulated(s, r).setup = s
  BY DEF Simulated

LEMMA ChunkInRanges == \A c \in Calls : \A k \in ChunkNumbers(c) : Chunk(c, k) \in Ranges
  BY DEF Ranges

LEMMA ChunkBounds ==
  ASSUME NEW c \in Calls, NEW k \in ChunkNumbers(c)
  PROVE  Chunk(c, k) = <<(k - 1) * SizeOf[c],
                         Smaller(SizeOf[c], PathsOf[c] - (k - 1) * SizeOf[c])>>
         /\ Chunk(c, k)[1] \in Int /\ Chunk(c, k)[2] \in Int
<1>1. SizeOf[c] \in Int /\ PathsOf[c] \in Int BY ParallelAssumption
<1>2. ChunkCount(c) \in Int BY <1>1, ParallelAssumption DEF ChunkCount
<1>3. k - 1 \in Int BY <1>2 DEF ChunkNumbers
<1> DEFINE start == (k - 1) * SizeOf[c]
<1>4. start \in Int BY <1>1, <1>3
<1>5. Smaller(SizeOf[c], PathsOf[c] - start) \in Int
  <2> HIDE DEF start
  <2> QED BY <1>1, <1>4 DEF Smaller
<1>6. Chunk(c, k) = <<start, Smaller(SizeOf[c], PathsOf[c] - start)>> BY DEF Chunk
<1> QED BY <1>4, <1>5, <1>6

LEMMA RangesAreInts == \A r \in Ranges : r[1] \in Int /\ r[2] \in Int
  BY ChunkBounds DEF Ranges

\* Without the rally layer, what is cut from a larger checkpoint is what the
\* range would have been simulated as.
LEMMA CutIsSimulated ==
  ASSUME ~Rally, NEW s, NEW source \in Ranges, NEW r \in Ranges, Covers(source, r)
  PROVE  Cut(Simulated(s, source), source, r) = Simulated(s, r)
<1>1. source[1] \in Int /\ source[2] \in Int /\ r[1] \in Int /\ r[2] \in Int
  BY RangesAreInts
<1> DEFINE paths(q) == [j \in 1..q[2] |-> [drawn |-> <<s, q[1] + j - 1>>, annotated |-> None]]
<1>2. \A q : Simulated(s, q) = [setup |-> s, paths |-> paths(q)] BY DEF Simulated
<1>3. Cut(Simulated(s, source), source, r)
        = [setup |-> s, paths |-> [j \in 1..r[2] |-> paths(source)[r[1] - source[1] + j]]]
  <2> DEFINE slice == [j \in 1..r[2] |-> paths(source)[r[1] - source[1] + j]]
             batch == [setup |-> s, paths |-> paths(source)]
  <2>1. Simulated(s, source) = batch BY <1>2
  <2>2. batch.paths = paths(source) OBVIOUS
  <2>3. Cut(batch, source, r) = [batch EXCEPT !.paths = slice] BY <2>2 DEF Cut
  <2>4. [batch EXCEPT !.paths = slice] = [setup |-> s, paths |-> slice]
    <3> HIDE DEF slice, paths
    <3> QED OBVIOUS
  <2> QED BY <2>1, <2>3, <2>4
<1>4. ASSUME NEW j \in 1..r[2]
      PROVE  paths(source)[r[1] - source[1] + j] = paths(r)[j]
  <2>1. r[1] - source[1] + j \in 1..source[2] BY <1>1 DEF Covers
  <2>2. source[1] + (r[1] - source[1] + j) - 1 = r[1] + j - 1 BY <1>1
  <2> QED BY <2>1, <2>2
<1>5. [j \in 1..r[2] |-> paths(source)[r[1] - source[1] + j]] = paths(r) BY <1>4
<1> QED BY <1>2, <1>3, <1>5

\* Path i lies in a chunk of the call, at its place there.
LEMMA PathInChunk ==
  ASSUME NEW c \in Calls, NEW i \in 1..PathsOf[c]
  PROVE  LET k == ((i - 1) \div SizeOf[c]) + 1
             j == ((i - 1) % SizeOf[c]) + 1
         IN  /\ k \in ChunkNumbers(c) /\ j \in 1..Chunk(c, k)[2]
             /\ Chunk(c, k)[1] + j - 1 = i - 1
<1> DEFINE n == PathsOf[c]
           z == SizeOf[c]
           q == (i - 1) \div z
           m == (i - 1) % z
           e == (n + z - 1) \div z
<1>1. n \in Nat /\ n > 0 /\ z \in Nat /\ z > 0 /\ i \in Nat /\ 1 <= i /\ i <= n
  BY ParallelAssumption
<1> HIDE DEF n, z
<1>2. /\ q \in Nat /\ m \in 0..(z - 1) /\ i - 1 = z * q + m BY <1>1
<1>3. /\ e \in Nat /\ (n + z - 1) % z \in 0..(z - 1)
      /\ n + z - 1 = z * e + ((n + z - 1) % z)
  BY <1>1
<1> HIDE DEF q, m, e
<1>4. z * e >= n BY <1>1, <1>3
<1>5. z * q < n BY <1>1, <1>2
<1>6. q < e
  <2>1. SUFFICES ASSUME q >= e PROVE FALSE BY <1>2, <1>3
  <2>2. z * q >= z * e BY <1>1, <1>2, <1>3, <2>1
  <2>3. z * q \in Int /\ z * e \in Int BY <1>1, <1>2, <1>3
  <2> QED BY <1>1, <1>4, <1>5, <2>2, <2>3
<1>7. q + 1 \in ChunkNumbers(c) BY <1>2, <1>3, <1>6 DEF ChunkNumbers, ChunkCount, e, n, z
<1>8. Chunk(c, q + 1) = <<q * z, Smaller(z, n - q * z)>>
  <2>1. (q + 1) - 1 = q BY <1>2
  <2> QED BY <2>1 DEF Chunk, n, z
<1>9. q * z = z * q /\ q * z \in Int BY <1>1, <1>2
<1>10. m + 1 \in 1..Smaller(z, n - q * z) BY <1>1, <1>2, <1>9 DEF Smaller
<1>11. q * z + (m + 1) - 1 = i - 1 BY <1>1, <1>2, <1>9
<1> QED BY <1>7, <1>8, <1>10, <1>11 DEF q, m, z

\* The merged batches are the whole range.
LEMMA MergedIsSerial ==
  ASSUME ~Rally, NEW c \in Calls, NEW s, NEW held,
         \A k \in ChunkNumbers(c) : held[k] = Simulated(s, Chunk(c, k))
  PROVE  [i \in 1..PathsOf[c] |->
            held[((i - 1) \div SizeOf[c]) + 1].paths[((i - 1) % SizeOf[c]) + 1]]
           = Simulated(s, <<0, PathsOf[c]>>).paths
<1> DEFINE path(i) == [drawn |-> <<s, i - 1>>, annotated |-> None]
<1>1. Simulated(s, <<0, PathsOf[c]>>).paths = [i \in 1..PathsOf[c] |-> path(i)]
  <2>1. \A i \in 1..PathsOf[c] : 0 + i - 1 = i - 1 BY ParallelAssumption
  <2> QED BY <2>1 DEF Simulated
<1>2. ASSUME NEW i \in 1..PathsOf[c]
      PROVE  held[((i - 1) \div SizeOf[c]) + 1].paths[((i - 1) % SizeOf[c]) + 1] = path(i)
  <2> DEFINE k == ((i - 1) \div SizeOf[c]) + 1
             j == ((i - 1) % SizeOf[c]) + 1
  <2>1. k \in ChunkNumbers(c) /\ j \in 1..Chunk(c, k)[2] /\ Chunk(c, k)[1] + j - 1 = i - 1
    BY PathInChunk
  <2> HIDE DEF k, j
  <2>2. held[k].paths[j] = [drawn |-> <<s, Chunk(c, k)[1] + j - 1>>, annotated |-> None]
    <3>1. held[k] = Simulated(s, Chunk(c, k)) BY <2>1
    <3> HIDE DEF path
    <3> QED BY <2>1, <3>1 DEF Simulated
  <2> QED BY <2>1, <2>2 DEF k, j
<1> QED BY <1>1, <1>2

-----------------------------------------------------------------------------
(* The invariant. *)

LEMMA InitIInv == Init => IInv
<1> SUFFICES ASSUME Init PROVE IInv OBVIOUS
<1>1. setup \in SetupChoices /\ DirectoryInv BY DEF Init, DirectoryInv
<1>2. FieldsOfCalls BY DEF Init, FieldsOfCalls
<1>3. ASSUME NEW c \in Calls PROVE CallTypes(c) BY DEF Init, CallTypes
<1>4. ASSUME NEW c \in Calls PROVE CallInv(c) BY DEF Init, CallInv
<1> QED BY <1>1, <1>2, <1>3, <1>4 DEF IInv

\* Checkpoints appear and stay, and each is what some call's setup simulates.
Grown == \A r \in Ranges : files[r] # None => files'[r] # None

LEMMA Written ==
  ASSUME IInv, setup' = setup, NEW c \in Calls, NEW q,
         files' = [files EXCEPT ![q] = Simulated(setup[c], q)]
  PROVE  DirectoryInv' /\ Grown
<1> USE DEF IInv, DirectoryInv
<1>1. \A r \in Ranges : Simulated(setup[c], r) \in Batches /\ Simulated(setup[c], r) # None
  BY NoneAssumption DEF Batches
<1>2. Batches' = Batches BY DEF Batches
<1>3. \A r \in Ranges : files'[r] = IF r = q THEN Simulated(setup[c], q) ELSE files[r]
  OBVIOUS
<1>4. files' \in [Ranges -> Batches \union {None}] BY <1>1, <1>3
<1> QED BY <1>1, <1>2, <1>3, <1>4 DEF Grown

LEMMA Unwritten ==
  ASSUME IInv, setup' = setup, files' = files
  PROVE  DirectoryInv' /\ Grown
<1>1. Batches' = Batches BY DEF Batches
<1> QED BY <1>1 DEF IInv, DirectoryInv, Grown

LEMMA DirectoryStep ==
  ASSUME IInv, ~Rally, [Next]_vars
  PROVE  setup' = setup /\ DirectoryInv' /\ Grown
<1>1. setup' = setup BY DEF Next, vars
<1>2. CASE UNCHANGED vars BY <1>1, <1>2, Unwritten DEF vars
<1>3. ASSUME NEW c \in Calls, Call(c) PROVE DirectoryInv' /\ Grown
  <2>1. CASE CutOut(c)
    <3>1. /\ from[c] \in Ranges /\ files[from[c]] # None /\ at[c] \in ChunkNumbers(c)
          /\ Covers(from[c], Here(c))
          /\ cache[c][from[c]] = Simulated(setup[c], from[c])
      BY <2>1 DEF CutOut, IInv, CallInv, CallTypes
    <3>2. Here(c) \in Ranges BY <3>1, ChunkInRanges DEF Here
    <3>3. Cut(cache[c][from[c]], from[c], Here(c)) = Simulated(setup[c], Here(c))
      BY <3>1, <3>2, CutIsSimulated
    <3> QED BY <1>1, <2>1, <3>3, Written DEF CutOut
  <2>2. CASE ~CutOut(c)
    <3>1. files' = files
      BY <1>3, <2>2 DEF Call, Glob, Look, Source, Take, Loads, Launch, NothingPending,
                        PollFailed, PollRunning, Collect, Merge
    <3> QED BY <1>1, <3>1, Unwritten
  <2> QED BY <2>1, <2>2
<1>4. ASSUME NEW s \in Slots, Worker(s) PROVE DirectoryInv' /\ Grown
  <2>1. CASE WorkerPublish(s)
    <3>1. s[1] \in Calls BY DEF Slots
    <3> QED BY <1>1, <2>1, <3>1, Written DEF WorkerPublish
  <2>2. CASE ~WorkerPublish(s)
    <3>1. files' = files
      BY <1>4, <2>2 DEF Worker, WorkerCheck, StartOther, WorkerExit, Exits
    <3> QED BY <1>1, <3>1, Unwritten
  <2> QED BY <2>1, <2>2
<1>5. CASE Disturb
  <2>1. files' = files BY <1>5 DEF Disturb, Interrupt, Kill, WorkerFail, FirstDies, Exits
  <2> QED BY <1>1, <2>1, Unwritten
<1> QED BY <1>1, <1>2, <1>3, <1>4, <1>5 DEF Next

\* What another process does leaves a call's knowledge true.
Same(c) ==
  /\ pc'[c] = pc[c] /\ at'[c] = at[c] /\ sources'[c] = sources[c] /\ cache'[c] = cache[c]
  /\ from'[c] = from[c] /\ batches'[c] = batches[c] /\ result'[c] = result[c]

LEMMA Frame ==
  ASSUME IInv, setup' = setup, Grown, NEW c \in Calls, Same(c)
  PROVE  CallTypes(c)' /\ CallInv(c)'
<1>1. Batches' = Batches BY DEF Batches
<1>2. CallTypes(c)' BY <1>1 DEF IInv, CallTypes, Same, Grown
<1>3. CallInv(c)' BY DEF IInv, CallInv, Same, Here
<1> QED BY <1>2, <1>3

\* A call that ends without returning, or is killed, keeps what it knew.
LEMMA EndStep ==
  ASSUME IInv, setup' = setup, Grown, NEW c \in Calls,
         NEW outcome \in {"failed", "interrupted", "killed"}, Goto(c, outcome),
         UNCHANGED <<at, sources, cache, from, batches, result>>
  PROVE  FieldsOfCalls' /\ \A d \in Calls : CallTypes(d)' /\ CallInv(d)'
<1>1. Batches' = Batches BY DEF Batches
<1>2. FieldsOfCalls' BY <1>1 DEF IInv, FieldsOfCalls, Goto
<1>3. CallTypes(c)' BY <1>1 DEF IInv, CallTypes, Grown
<1>4. CallInv(c)' BY DEF IInv, FieldsOfCalls, CallInv, Goto
<1>5. ASSUME NEW d \in Calls \ {c} PROVE CallTypes(d)' /\ CallInv(d)'
  BY Frame DEF IInv, FieldsOfCalls, Goto, Same
<1> QED BY <1>2, <1>3, <1>4, <1>5

\* The batch that Loads takes from the chunk file.
LEMMA LoadStep ==
  ASSUME IInv, setup' = setup, files' = files, Grown, NEW c \in Calls, NEW next,
         (pc[c] = "take" /\ next = "look") \/ (pc[c] = "collect" /\ next = "collect"),
         at[c] \in ChunkNumbers(c), files[Here(c)] # None, Loads(c, next),
         UNCHANGED <<sources, cache, from, result>>
  PROVE  FieldsOfCalls' /\ \A d \in Calls : CallTypes(d)' /\ CallInv(d)'
<1>1. Batches' = Batches BY DEF Batches
<1>2. Here(c) \in Ranges BY ChunkInRanges DEF Here
<1>3. CASE files[Here(c)].setup # setup[c]
  <2>1. Goto(c, "failed") /\ UNCHANGED <<at, batches>> BY <1>3 DEF Loads, Ends
  <2> QED BY <2>1, EndStep
<1>4. CASE files[Here(c)].setup = setup[c]
  <2>1. files[Here(c)] = Simulated(setup[c], Chunk(c, at[c])) /\ files[Here(c)] \in Batches
    BY <1>2, <1>4, SetupOfBatch DEF IInv, DirectoryInv, Here
  <2>2. /\ batches' = [batches EXCEPT ![c][at[c]] = Simulated(setup[c], Chunk(c, at[c]))]
        /\ at' = [at EXCEPT ![c] = @ + 1] /\ Goto(c, next)
    BY <1>4, <2>1 DEF Loads
  <2>3. /\ batches'[c] = [batches[c] EXCEPT ![at[c]] = Simulated(setup[c], Chunk(c, at[c]))]
        /\ at'[c] = at[c] + 1 /\ pc'[c] = next
    BY <2>2 DEF IInv, FieldsOfCalls, Goto
  <2>4. FieldsOfCalls' BY <1>1, <2>2 DEF IInv, FieldsOfCalls, Goto
  <2>5. CallTypes(c)' BY <1>1, <2>1, <2>3 DEF IInv, CallTypes, Grown
  <2>6. files[Here(c)] # None /\ files[Here(c)] = Simulated(setup[c], Chunk(c, at[c]))
    BY <2>1
  <2>7. CallInv(c)'
    <3>1. CallTypes(c) /\ CallInv(c) BY DEF IInv
    <3>2. \A k \in ChunkNumbers(c) : batches'[c][k] =
            IF k = at[c] THEN Simulated(setup[c], Chunk(c, at[c])) ELSE batches[c][k]
      BY <2>3, <3>1 DEF CallTypes
    <3>3. \A k \in ChunkNumbers(c) :
            batches'[c][k] # None => batches'[c][k] = Simulated(setup[c], Chunk(c, k))
      BY <3>1, <3>2 DEF CallInv
    <3>4. pc[c] = "collect" =>
            \A k \in ChunkNumbers(c) : k < at[c] + 1 => batches'[c][k] # None
      BY <2>6, <3>1, <3>2 DEF CallInv, CallTypes, ChunkNumbers
    <3>5. pc'[c] = "look" \/ (pc[c] = "collect" /\ pc'[c] = "collect") BY <2>3
    <3> QED BY <2>3, <3>1, <3>3, <3>4, <3>5 DEF CallInv
  <2>8. ASSUME NEW d \in Calls \ {c} PROVE CallTypes(d)' /\ CallInv(d)'
    BY <2>2, Frame DEF IInv, FieldsOfCalls, Goto, Same
  <2> QED BY <2>4, <2>5, <2>7, <2>8
<1> QED BY <1>3, <1>4

\* Every other step of a call.
LEMMA CallStep ==
  ASSUME IInv, ~Rally, setup' = setup, Grown, NEW c \in Calls, Call(c)
  PROVE  FieldsOfCalls' /\ \A d \in Calls : CallTypes(d)' /\ CallInv(d)'
<1> DEFINE Kept == FieldsOfCalls' /\ \A d \in Calls : CallTypes(d)' /\ CallInv(d)'
<1> SUFFICES Kept OBVIOUS
<1>1. Batches' = Batches BY DEF Batches
<1>2. CallTypes(c) /\ CallInv(c) /\ FieldsOfCalls BY DEF IInv
<1>3. ASSUME FieldsOfCalls', CallTypes(c)', CallInv(c)',
             \A d \in Calls \ {c} : Same(d)
      PROVE  Kept
  BY <1>3, Frame
<1>4. CASE Glob(c)
  <2> USE DEF Glob, Goto, FieldsOfCalls
  <2>1. FieldsOfCalls' BY <1>2, <1>4
  <2>2. CallTypes(c)' BY <1>1, <1>2, <1>4 DEF CallTypes, Grown
  <2>3. CallInv(c)' BY <1>2, <1>4 DEF CallInv
  <2>4. \A d \in Calls \ {c} : Same(d) BY <1>2, <1>4 DEF Same
  <2> QED BY <1>3, <2>1, <2>2, <2>3, <2>4
<1>5. CASE Look(c)
  <2> USE DEF Look, Goto, FieldsOfCalls
  <2>1. FieldsOfCalls' BY <1>2, <1>5
  <2>2. CallTypes(c)' BY <1>1, <1>2, <1>5 DEF CallTypes, Grown
  <2>3. CallInv(c)' BY <1>2, <1>5 DEF CallInv, Here
  <2>4. \A d \in Calls \ {c} : Same(d) BY <1>2, <1>5 DEF Same
  <2> QED BY <1>3, <2>1, <2>2, <2>3, <2>4
<1>6. CASE Source(c)
  <2>1. CASE cache[c][from[c]] = None /\ files[from[c]].setup # setup[c]
    BY <1>6, <2>1, EndStep DEF Source, Ends
  <2>2. CASE ~(cache[c][from[c]] = None /\ files[from[c]].setup # setup[c])
    <3> DEFINE q == from[c]
    <3>1. q \in Ranges /\ files[q] # None BY <1>2, <1>6 DEF Source, CallInv, CallTypes
    <3>2. cache[c][q] = None => files[q] = Simulated(setup[c], q)
      BY <2>2, <3>1, SetupOfBatch DEF IInv, DirectoryInv
    <3>3. files[q] \in Batches BY <3>1 DEF IInv, DirectoryInv
    <3>4. /\ pc' = [pc EXCEPT ![c] = "cut"]
          /\ cache' = [cache EXCEPT ![c] = [cache[c] EXCEPT ![q] =
                         IF cache[c][q] = None THEN files[q] ELSE cache[c][q]]]
          /\ UNCHANGED <<files, at, sources, from, batches, watched, result>>
      BY <1>2, <1>6, <2>2 DEF Source, Goto, FieldsOfCalls
    <3>5. FieldsOfCalls' BY <1>2, <3>4 DEF FieldsOfCalls
    <3>6. /\ pc'[c] = "cut"
          /\ cache'[c] = [cache[c] EXCEPT ![q] =
                            IF cache[c][q] = None THEN files[q] ELSE cache[c][q]]
      BY <1>2, <3>4 DEF FieldsOfCalls
    <3>7. CallTypes(c)'
      <4>1. cache'[c] \in [Ranges -> Batches \union {None}]
        BY <1>2, <3>3, <3>6 DEF CallTypes
      <4>2. /\ at'[c] = at[c] /\ sources'[c] = sources[c] /\ batches'[c] = batches[c]
            /\ files' = files
        BY <3>4
      <4> QED BY <1>1, <1>2, <4>1, <4>2 DEF CallTypes
    <3>8. CallInv(c)'
      <4>1. \A r \in Ranges : cache'[c][r] =
              IF r = q /\ cache[c][q] = None THEN files[q] ELSE cache[c][r]
        BY <1>2, <3>6 DEF CallTypes
      <4> QED BY <1>2, <1>6, <3>1, <3>2, <3>4, <3>6, <4>1 DEF CallInv, Source, Here
    <3>9. \A d \in Calls \ {c} : Same(d) BY <1>2, <3>4 DEF FieldsOfCalls, Same
    <3> QED BY <1>3, <3>5, <3>7, <3>8, <3>9
  <2> QED BY <2>1, <2>2
<1>7. CASE CutOut(c)
  <2> USE DEF CutOut, Goto, FieldsOfCalls
  <2>1. FieldsOfCalls' BY <1>2, <1>7
  <2>2. CallTypes(c)' BY <1>1, <1>2, <1>7 DEF CallTypes, Grown
  <2>3. CallInv(c)' BY <1>2, <1>7 DEF CallInv
  <2>4. \A d \in Calls \ {c} : Same(d) BY <1>2, <1>7 DEF Same
  <2> QED BY <1>3, <2>1, <2>2, <2>3, <2>4
<1>8. CASE Take(c)
  <2>1. CASE files[Here(c)] # None
    <3>1. /\ at[c] \in ChunkNumbers(c) /\ pc[c] = "take" /\ Loads(c, "look")
          /\ UNCHANGED <<files, sources, cache, from, result>>
      BY <1>2, <1>8, <2>1 DEF Take, CallInv
    <3> QED BY <2>1, <3>1, LoadStep
  <2>2. CASE files[Here(c)] = None
    <3> USE DEF Take, Goto, FieldsOfCalls
    <3>1. FieldsOfCalls' BY <1>2, <1>8, <2>2
    <3>2. CallTypes(c)' BY <1>1, <1>2, <1>8, <2>2 DEF CallTypes, Grown
    <3>3. CallInv(c)' BY <1>2, <1>8, <2>2 DEF CallInv
    <3>4. \A d \in Calls \ {c} : Same(d) BY <1>2, <1>8, <2>2 DEF Same
    <3> QED BY <1>3, <3>1, <3>2, <3>3, <3>4
  <2> QED BY <2>1, <2>2
<1>9. CASE Launch(c)
  <2> USE DEF Launch, Goto, FieldsOfCalls
  <2>1. FieldsOfCalls' BY <1>2, <1>9
  <2>2. CallTypes(c)' BY <1>1, <1>2, <1>9 DEF CallTypes, Grown
  <2>3. CallInv(c)' BY <1>2, <1>9 DEF CallInv
  <2>4. \A d \in Calls \ {c} : Same(d) BY <1>2, <1>9 DEF Same
  <2> QED BY <1>3, <2>1, <2>2, <2>3, <2>4
<1>10. CASE NothingPending(c)
  <2> USE DEF NothingPending, Goto, FieldsOfCalls
  <2>1. FieldsOfCalls' BY <1>2, <1>10
  <2>2. CallTypes(c)' BY <1>1, <1>2, <1>10 DEF CallTypes, Grown
  <2>3. CallInv(c)' BY <1>2, <1>10 DEF CallInv, ChunkNumbers
  <2>4. \A d \in Calls \ {c} : Same(d) BY <1>2, <1>10 DEF Same
  <2> QED BY <1>3, <2>1, <2>2, <2>3, <2>4
<1>11. CASE PollFailed(c)
  <2>1. CASE \E w \in watched[c] : code[<<c, w>>] = "failed"
    <3>1. Goto(c, "failed") /\ UNCHANGED <<at, sources, cache, from, batches, result>>
      BY <1>11, <2>1 DEF PollFailed, Ends
    <3> QED BY <3>1, EndStep
  <2>2. CASE ~\E w \in watched[c] : code[<<c, w>>] = "failed"
    <3> USE DEF PollFailed, Goto, FieldsOfCalls
    <3>1. FieldsOfCalls' BY <1>2, <1>11, <2>2
    <3>2. CallTypes(c)' BY <1>1, <1>2, <1>11, <2>2 DEF CallTypes, Grown
    <3>3. CallInv(c)' BY <1>2, <1>11, <2>2 DEF CallInv
    <3>4. \A d \in Calls \ {c} : Same(d) BY <1>2, <1>11, <2>2 DEF Same
    <3> QED BY <1>3, <3>1, <3>2, <3>3, <3>4
  <2> QED BY <2>1, <2>2
<1>12. CASE PollRunning(c)
  <2> USE DEF PollRunning, Goto, FieldsOfCalls
  <2>1. FieldsOfCalls' BY <1>2, <1>12
  <2>2. CallTypes(c)' BY <1>1, <1>2, <1>12 DEF CallTypes, Grown
  <2>3. CallInv(c)'
    <3>1. pc'[c] = "poll" \/ (pc'[c] = "collect" /\ at'[c] = 1) BY <1>2, <1>12
    <3>2. \A k \in ChunkNumbers(c) : ~(k < 1) BY DEF ChunkNumbers
    <3>3. /\ cache'[c] = cache[c] /\ batches'[c] = batches[c] /\ result'[c] = result[c]
      BY <1>12
    <3> QED BY <1>2, <3>1, <3>2, <3>3 DEF CallInv
  <2>4. \A d \in Calls \ {c} : Same(d) BY <1>2, <1>12 DEF Same
  <2> QED BY <1>3, <2>1, <2>2, <2>3, <2>4
<1>13. CASE Collect(c)
  <2>1. CASE batches[c][at[c]] # None
    <3> USE DEF Collect, FieldsOfCalls
    <3>1. FieldsOfCalls' BY <1>2, <1>13, <2>1
    <3>2. CallTypes(c)' BY <1>1, <1>2, <1>13, <2>1 DEF CallTypes, Grown
    <3>3. CallInv(c)'
      <4>1. \A k \in ChunkNumbers(c) : k < at[c] + 1 => batches[c][k] # None
        BY <1>2, <1>13, <2>1 DEF CallInv, CallTypes, ChunkNumbers
      <4> QED BY <1>2, <1>13, <2>1, <4>1 DEF CallInv
    <3>4. \A d \in Calls \ {c} : Same(d) BY <1>2, <1>13, <2>1 DEF Same
    <3> QED BY <1>3, <3>1, <3>2, <3>3, <3>4
  <2>2. CASE batches[c][at[c]] = None /\ files[Here(c)] = None
    BY <1>13, <2>2, EndStep DEF Collect, Ends
  <2>3. CASE batches[c][at[c]] = None /\ files[Here(c)] # None
    BY <1>13, <2>3, LoadStep DEF Collect
  <2> QED BY <2>1, <2>2, <2>3
<1>14. CASE Merge(c)
  <2>1. ChunkCount(c) \in Int BY ParallelAssumption DEF ChunkCount
  <2>2. \A k \in ChunkNumbers(c) : batches[c][k] = Simulated(setup[c], Chunk(c, k))
    BY <1>2, <1>14, <2>1 DEF Merge, CallInv, CallTypes, ChunkNumbers
  <2>3. result' = [result EXCEPT ![c] = Simulated(setup[c], <<0, PathsOf[c]>>).paths]
    BY <1>14, <2>2, MergedIsSerial DEF Merge
  <2>4. /\ pc' = [pc EXCEPT ![c] = "returned"]
        /\ UNCHANGED <<files, at, sources, cache, from, batches>>
    BY <1>14 DEF Merge, Goto
  <2> USE DEF FieldsOfCalls
  <2>5. FieldsOfCalls' BY <1>2, <2>3, <2>4
  <2>6. CallTypes(c)' BY <1>1, <1>2, <2>4 DEF CallTypes, Grown
  <2>7. CallInv(c)' BY <1>2, <2>3, <2>4 DEF CallInv
  <2>8. \A d \in Calls \ {c} : Same(d) BY <1>2, <2>3, <2>4 DEF Same
  <2> QED BY <1>3, <2>5, <2>6, <2>7, <2>8
<1> QED
  BY <1>4, <1>5, <1>6, <1>7, <1>8, <1>9, <1>10, <1>11, <1>12, <1>13, <1>14 DEF Call

LEMMA IInvStep == ASSUME ~Rally PROVE IInv /\ [Next]_vars => IInv'
<1> SUFFICES ASSUME IInv, [Next]_vars PROVE IInv' OBVIOUS
<1> DEFINE Knowing == FieldsOfCalls' /\ \A d \in Calls : CallTypes(d)' /\ CallInv(d)'
<1>1. setup' = setup /\ DirectoryInv' /\ Grown BY DirectoryStep
<1>2. ASSUME UNCHANGED calling PROVE Knowing
  <2>1. FieldsOfCalls' BY <1>2 DEF IInv, FieldsOfCalls, calling
  <2>2. ASSUME NEW d \in Calls PROVE CallTypes(d)' /\ CallInv(d)'
    BY <1>1, <1>2, Frame DEF Same, calling
  <2> QED BY <2>1, <2>2
<1>3. Knowing
  <2>1. ASSUME NEW c \in Calls, Call(c) PROVE Knowing BY <1>1, <2>1, CallStep
  <2>2. ASSUME NEW s \in Slots, Worker(s) PROVE UNCHANGED calling
    BY <2>2 DEF Worker, WorkerCheck, WorkerPublish, StartOther, WorkerExit, Exits
  <2>3. ASSUME NEW c \in Calls, Interrupt(c) \/ Kill(c) PROVE Knowing
    <3>1. /\ Goto(c, "interrupted") \/ Goto(c, "killed")
          /\ UNCHANGED <<at, sources, cache, from, batches, result>>
      BY <2>3 DEF Interrupt, Kill, Ends
    <3> QED BY <1>1, <3>1, EndStep
  <2>4. ASSUME NEW s \in Slots, WorkerFail(s) \/ FirstDies(s) PROVE UNCHANGED calling
    BY <2>4 DEF WorkerFail, FirstDies, Exits
  <2>5. CASE UNCHANGED vars BY <1>2, <2>5 DEF vars
  <2> QED BY <1>2, <2>1, <2>2, <2>3, <2>4, <2>5 DEF Next, Disturb
<1> QED BY <1>1, <1>3 DEF IInv

LEMMA IInvAlways == ASSUME ~Rally PROVE Spec => []IInv
  BY InitIInv, IInvStep, PTL DEF Spec

-----------------------------------------------------------------------------
\* Whatever the calls find, cut, redo, race for or are killed over, one that
\* returns has the paths that one process would have simulated.
THEOREM ResultsAlwaysSerial == ASSUME ~Rally PROVE Spec => []ResultIsSerial
<1>1. IInv => ResultIsSerial BY DEF IInv, CallInv, ResultIsSerial
<1> QED BY <1>1, IInvAlways, PTL

\* Among calls for one match a checkpoint never changes once it is there.
THEOREM CheckpointsAlwaysFinal == ASSUME ~Rally PROVE Spec => CheckpointsFinal
<1> DEFINE Final ==
      (\A c, d \in Calls : setup[c] = setup[d]) =>
        \A r \in Ranges : files[r] # None => files'[r] = files[r]
<1>1. IInv /\ [Next]_vars => [Final]_vars
  <2> SUFFICES ASSUME IInv, [Next]_vars, \A c, d \in Calls : setup[c] = setup[d],
                      NEW r \in Ranges, files[r] # None
               PROVE  files'[r] = files[r]
    OBVIOUS
  <2>1. setup' = setup /\ DirectoryInv' /\ Grown BY DirectoryStep
  <2>2. PICK c \in Calls : files[r] = Simulated(setup[c], r) BY DEF IInv, DirectoryInv
  <2>3. PICK d \in Calls : files'[r] = Simulated(setup[d], r)
    BY <2>1 DEF DirectoryInv, Grown
  <2> QED BY <2>2, <2>3
<1> QED BY <1>1, IInvAlways, PTL DEF Spec, CheckpointsFinal

-----------------------------------------------------------------------------
(* What the workers of a call still have to do. *)

LEMMA PlaceInRange ==
  ASSUME NEW S, IsFiniteSet(S), NEW k \in S, k \in Int
  PROVE  Place(k, S) \in 1..Cardinality(S)
<1> DEFINE T == {j \in S : j >= k}
<1>1. T \in SUBSET S /\ k \in T OBVIOUS
<1>2. IsFiniteSet(T) /\ Cardinality(T) <= Cardinality(S) BY <1>1, FS_Subset
<1>3. Cardinality(T) \in Nat /\ Cardinality(S) \in Nat BY <1>2, FS_CardinalityType
<1>4. Cardinality(T) # 0
  <2> HIDE DEF T
  <2>1. T # {} BY <1>1
  <2> QED BY <1>2, <2>1, FS_EmptySet
<1> QED BY <1>2, <1>3, <1>4 DEF Place

LEMMA PlacesDiffer ==
  ASSUME NEW S \in SUBSET Int, IsFiniteSet(S), NEW j \in S, NEW k \in S, j < k
  PROVE  Place(j, S) # Place(k, S)
<1> DEFINE T == {i \in S : i >= j}
           U == {i \in S : i >= k}
<1>1. T \in SUBSET S /\ U \in SUBSET T /\ j \in T /\ j \notin U
  <2>1. j \in Int /\ k \in Int /\ \A i \in S : i \in Int OBVIOUS
  <2>2. ~(j >= k) /\ j >= j BY <2>1
  <2>3. \A i \in S : i >= k => i >= j BY <2>1
  <2> QED BY <2>2, <2>3
<1>2. IsFiniteSet(T) BY <1>1, FS_Subset
<1>3. Cardinality(T) = Cardinality(U) => T = U BY <1>1, <1>2, FS_Subset
<1>4. T # U BY <1>1
<1> QED BY <1>3, <1>4 DEF Place

\* Every pending chunk is dealt to one of the workers that are started.
LEMMA DealtCovers ==
  ASSUME NEW c \in Calls, NEW k \in Pending(c)
  PROVE  \E w \in 1..WorkerCount(c) :
           /\ w \in 1..WorkersOf[c]
           /\ \E n \in 1..Cardinality(Share(c, w)) : Dealt(c, w)[n] = Chunk(c, k)
<1> DEFINE P == Pending(c)
           size == Cardinality(P)
           W == WorkerCount(c)
           w == ((Place(k, P) - 1) % W) + 1
<1>1. ChunkCount(c) \in Int BY ParallelAssumption DEF ChunkCount
<1>2. IsFiniteSet(1..ChunkCount(c)) BY <1>1, FS_Interval
<1>3. P \in SUBSET (1..ChunkCount(c)) BY DEF Pending, ChunkNumbers
<1>4. IsFiniteSet(P) /\ size \in Nat BY <1>2, <1>3, FS_Subset, FS_CardinalityType
<1>5. k \in P /\ k \in Int /\ P \in SUBSET Int BY <1>3
<1>6. Place(k, P) \in 1..size BY <1>4, <1>5, PlaceInRange
<1>7. WorkersOf[c] \in Nat \ {0} BY ParallelAssumption
<1>8. W \in 1..WorkersOf[c] /\ W <= size
  <2> HIDE DEF size
  <2>1. W = Smaller(WorkersOf[c], size) BY DEF WorkerCount, size
  <2> QED BY <1>4, <1>6, <1>7, <2>1 DEF Smaller
<1> HIDE DEF W
<1>9. w \in 1..W /\ w - 1 = (Place(k, P) - 1) % W BY <1>6, <1>7, <1>8
<1>10. k \in Share(c, w) BY <1>5, <1>9 DEF Share, W
<1> HIDE DEF w
<1>11. Share(c, w) \in SUBSET P BY DEF Share
<1>12. IsFiniteSet(Share(c, w)) BY <1>4, <1>11, FS_Subset
<1> HIDE DEF P
<1>13. Share(c, w) \in SUBSET Int BY <1>5, <1>11
<1> DEFINE n == Place(k, Share(c, w))
<1>14. n \in 1..Cardinality(Share(c, w)) BY <1>5, <1>10, <1>12, PlaceInRange
<1>15. \A j \in Share(c, w) : Place(j, Share(c, w)) = n => j = k
  <2> SUFFICES ASSUME NEW j \in Share(c, w), j # k PROVE Place(j, Share(c, w)) # n
    OBVIOUS
  <2>1. j < k \/ k < j BY <1>10, <1>13
  <2> QED BY <1>10, <1>12, <1>13, <2>1, PlacesDiffer
<1>16. (CHOOSE j \in Share(c, w) : Place(j, Share(c, w)) = n) = k BY <1>10, <1>15
<1> HIDE DEF n
<1>17. Dealt(c, w)[n] = Chunk(c, k) BY <1>14, <1>16 DEF Dealt
<1> QED BY <1>7, <1>8, <1>9, <1>14, <1>17 DEF W

\* A sequence of whatever is in it.
Listed(q) == q \in Seq({q[i] : i \in DOMAIN q})

LEMMA DealtIsListed ==
  ASSUME NEW c \in Calls, NEW w
  PROVE  /\ Listed(Dealt(c, w)) /\ DOMAIN Dealt(c, w) = 1..Len(Dealt(c, w))
         /\ Len(Dealt(c, w)) = Cardinality(Share(c, w))
<1> DEFINE n == Cardinality(Share(c, w))
           q == Dealt(c, w)
<1>1. ChunkCount(c) \in Int BY ParallelAssumption DEF ChunkCount
<1>2. IsFiniteSet(1..ChunkCount(c)) BY <1>1, FS_Interval
<1>3. Share(c, w) \in SUBSET (1..ChunkCount(c)) BY DEF Share, Pending, ChunkNumbers
<1>4. n \in Nat BY <1>2, <1>3, FS_Subset, FS_CardinalityType
<1>5. DOMAIN q = 1..n /\ q = [i \in 1..n |-> q[i]] BY DEF Dealt
<1> HIDE DEF n, q
<1>6. q \in Seq({q[i] : i \in DOMAIN q}) /\ Len(q) = n
  <2> DEFINE S == {q[i] : i \in DOMAIN q}
  <2>1. \A i \in 1..n : q[i] \in S BY <1>5
  <2> HIDE DEF S
  <2>2. q \in Seq(S) /\ Len(q) = n BY <1>4, <1>5, <2>1
  <2> QED BY <2>2 DEF S
<1> QED BY <1>5, <1>6 DEF Listed, n, q

LEMMA TailIsListed ==
  ASSUME NEW q, Listed(q), q # <<>>
  PROVE  /\ Listed(Tail(q)) /\ Len(Tail(q)) = Len(q) - 1 /\ Head(q) = q[1]
         /\ Len(q) \in Nat \ {0} /\ \A i \in 1..(Len(q) - 1) : Tail(q)[i] = q[i + 1]
<1> DEFINE S == {q[i] : i \in DOMAIN q}
           t == Tail(q)
<1>1. q \in Seq(S) BY DEF Listed
<1> HIDE DEF S
<1>2. /\ t \in Seq(S) /\ Len(t) = Len(q) - 1 /\ Head(q) = q[1] /\ Len(q) \in Nat \ {0}
      /\ \A i \in 1..(Len(q) - 1) : t[i] = q[i + 1]
  BY <1>1
<1> HIDE DEF t
<1>3. t \in Seq(S) BY <1>2
<1>4. Listed(t)
  <2> DEFINE U == {t[i] : i \in DOMAIN t}
  <2>1. DOMAIN t = 1..Len(t) /\ Len(t) \in Nat BY <1>3
  <2>2. t = [i \in 1..Len(t) |-> t[i]] BY <1>3
  <2>3. \A i \in 1..Len(t) : t[i] \in U BY <2>1
  <2> HIDE DEF U
  <2>4. t \in Seq(U) BY <2>1, <2>2, <2>3
  <2> QED BY <2>4 DEF Listed, U
<1> QED BY <1>2, <1>4 DEF t

Awaited(r, s) == \E n \in 1..Len(queue[s]) : queue[s][n] = r

FieldsOfWorkers ==
  /\ queue = [s \in Slots |-> queue[s]] /\ doing = [s \in Slots |-> doing[s]]
  /\ code = [s \in Slots |-> code[s]] /\ watched = [c \in Calls |-> watched[c]]

\* A worker whose call has seen it end well, or not started it, has nothing
\* left to do.
SlotInv(s) ==
  /\ Listed(queue[s])
  /\ code[s] \in {"none", "running", "ok", "failed"}
  /\ code[s] \in {"none", "ok"} => queue[s] = <<>>
  /\ doing[s] = "publish" => queue[s] # <<>>

\* What a call that has started its workers may count on.
WaitInv(c) ==
  /\ watched[c] \subseteq 1..WorkersOf[c]
  /\ \A w \in 1..WorkersOf[c] : code[<<c, w>>] = "running" =>
       /\ pc[c] \notin {"idle", "look", "source", "cut", "take", "collect"}
       /\ pc[c] \in {"poll", "sift"} => w \in watched[c]
  /\ pc[c] \in {"poll", "sift", "collect"} =>
       \A k \in ChunkNumbers(c) :
         \/ batches[c][k] # None \/ files[Chunk(c, k)] # None
         \/ \E w \in 1..WorkersOf[c] :
              code[<<c, w>>] = "failed" \/ Awaited(Chunk(c, k), <<c, w>>)

WorkInv ==
  /\ FieldsOfWorkers
  /\ \A s \in Slots : SlotInv(s)
  /\ \A c \in Calls : WaitInv(c)

LEMMA SlotOfCall ==
  /\ \A c \in Calls : \A w \in 1..WorkersOf[c] : <<c, w>> \in Slots
  /\ \A s \in Slots : s = <<s[1], s[2]>> /\ s[1] \in Calls /\ s[2] \in 1..WorkersOf[s[1]]
<1>1. \A s \in Slots : \E c \in Calls : \E w \in 1..WorkersOf[c] : s = <<c, w>>
  BY DEF Slots
<1>2. \A c \in Calls : \A w \in 1..WorkersOf[c] : <<c, w>> \in Slots BY DEF Slots
<1> QED BY <1>1, <1>2

LEMMA InitWorkInv == Init => WorkInv
<1> SUFFICES ASSUME Init PROVE WorkInv OBVIOUS
<1>1. FieldsOfWorkers BY DEF Init, FieldsOfWorkers
<1>2. Listed(<<>>)
  <2>1. <<>> \in Seq({<<>>[i] : i \in DOMAIN <<>>}) OBVIOUS
  <2> QED BY <2>1 DEF Listed
<1>3. \A s \in Slots : SlotInv(s) BY <1>2 DEF Init, SlotInv
<1>4. \A c \in Calls : WaitInv(c) BY SlotOfCall DEF Init, WaitInv
<1> QED BY <1>1, <1>3, <1>4 DEF WorkInv

\* What a step does to the workers of a call that is not starting them.
Steady(c) ==
  \A w \in 1..WorkersOf[c] :
    /\ code[<<c, w>>] = "failed" => code'[<<c, w>>] = "failed"
    /\ code'[<<c, w>>] = "running" => code[<<c, w>>] = "running"
    /\ \A r \in Ranges :
         Awaited(r, <<c, w>>) => Awaited(r, <<c, w>>)' \/ files'[r] # None

LEMMA WaitFrame ==
  ASSUME NEW c \in Calls, WaitInv(c), Grown, Steady(c), watched'[c] = watched[c],
         pc'[c] = pc[c] \/ (pc[c] = "poll" /\ pc'[c] = "sift"),
         \A k \in ChunkNumbers(c) : batches[c][k] # None => batches'[c][k] # None
  PROVE  WaitInv(c)'
<1>1. \A k \in ChunkNumbers(c) : Chunk(c, k) \in Ranges BY ChunkInRanges
<1>2. watched'[c] \subseteq 1..WorkersOf[c] BY DEF WaitInv
<1>3. \A w \in 1..WorkersOf[c] : code'[<<c, w>>] = "running" =>
        /\ pc'[c] \notin {"idle", "look", "source", "cut", "take", "collect"}
        /\ pc'[c] \in {"poll", "sift"} => w \in watched'[c]
  BY DEF WaitInv, Steady
<1>4. ASSUME pc'[c] \in {"poll", "sift", "collect"}, NEW k \in ChunkNumbers(c)
      PROVE  \/ batches'[c][k] # None \/ files'[Chunk(c, k)] # None
             \/ \E w \in 1..WorkersOf[c] :
                  code'[<<c, w>>] = "failed" \/ Awaited(Chunk(c, k), <<c, w>>)'
  <2>1. CASE batches[c][k] # None BY <2>1
  <2>2. CASE files[Chunk(c, k)] # None BY <1>1, <2>2 DEF Grown
  <2>3. ASSUME NEW w \in 1..WorkersOf[c], code[<<c, w>>] = "failed"
        PROVE  code'[<<c, w>>] = "failed"
    BY <2>3 DEF Steady
  <2>4. ASSUME NEW w \in 1..WorkersOf[c], Awaited(Chunk(c, k), <<c, w>>)
        PROVE  Awaited(Chunk(c, k), <<c, w>>)' \/ files'[Chunk(c, k)] # None
    BY <1>1, <2>4 DEF Steady
  <2> QED BY <1>4, <2>1, <2>2, <2>3, <2>4 DEF WaitInv
<1> QED BY <1>2, <1>3, <1>4 DEF WaitInv

\* A call that is over, or has not started its workers, awaits nothing.
LEMMA NoWait ==
  ASSUME NEW c \in Calls, WaitInv(c), watched'[c] = watched[c], Steady(c),
         \/ pc'[c] \in {"failed", "interrupted", "killed", "returned"}
         \/ /\ pc[c] \in {"idle", "look", "source", "cut", "take"}
            /\ pc'[c] \in {"look", "source", "cut", "take"}
  PROVE  WaitInv(c)'
BY DEF WaitInv, Steady

Worked ==
  /\ FieldsOfWorkers'
  /\ \A s \in Slots : SlotInv(s)'
  /\ \A c \in Calls : Launch(c) \/ Steady(c)

\* Steps that leave the queues alone, and end processes at most.
LEMMA Ending ==
  ASSUME WorkInv, UNCHANGED queue, FieldsOfWorkers',
         \A s \in Slots : /\ \/ code'[s] \in {code[s], "failed"}
                             \/ code[s] = "running" /\ code'[s] = "ok" /\ queue[s] = <<>>
                          /\ doing'[s] \in {doing[s], "stopped"}
  PROVE  Worked
<1>1. \A s \in Slots : SlotInv(s)' BY DEF WorkInv, SlotInv
<1>2. ASSUME NEW c \in Calls PROVE Steady(c)
  BY SlotOfCall DEF Steady, Awaited
<1> QED BY <1>1, <1>2 DEF Worked

LEMMA TerminateStep ==
  ASSUME WorkInv, UNCHANGED <<queue, watched>>, NEW c \in Calls, Terminate(c)
  PROVE  Worked
<1>1. FieldsOfWorkers' BY DEF WorkInv, FieldsOfWorkers, Terminate
<1>2. \A s \in Slots : /\ code'[s] \in {code[s], "failed"}
                       /\ doing'[s] \in {doing[s], "stopped"}
  BY DEF Terminate
<1> QED BY <1>1, <1>2, Ending

LEMMA StillStep ==
  ASSUME WorkInv, UNCHANGED <<queue, doing, code>>, watched' = [c \in Calls |-> watched'[c]]
  PROVE  Worked
<1>1. FieldsOfWorkers' BY DEF WorkInv, FieldsOfWorkers
<1>2. \A s \in Slots : /\ code'[s] \in {code[s], "failed"}
                       /\ doing'[s] \in {doing[s], "stopped"}
  OBVIOUS
<1> QED BY <1>1, <1>2, Ending

LEMMA DropStep ==
  ASSUME WorkInv, NEW s \in Slots, queue[s] # <<>>, UNCHANGED <<watched, code>>,
         queue' = [queue EXCEPT ![s] = Tail(@)],
         NextRange(s) \in Ranges => files'[NextRange(s)] # None,
         doing' = [doing EXCEPT ![s] = "check"]
  PROVE  Worked
<1> DEFINE q == queue[s]
<1>1. /\ Listed(Tail(q)) /\ Len(Tail(q)) = Len(q) - 1 /\ Head(q) = q[1] /\ Len(q) \in Nat \ {0}
      /\ \A i \in 1..(Len(q) - 1) : Tail(q)[i] = q[i + 1]
  BY TailIsListed DEF WorkInv, SlotInv
<1>2. queue'[s] = Tail(q) /\ \A t \in Slots \ {s} : queue'[t] = queue[t]
  BY DEF WorkInv, FieldsOfWorkers
<1>3. doing'[s] = "check" /\ \A t \in Slots \ {s} : doing'[t] = doing[t]
  BY DEF WorkInv, FieldsOfWorkers
<1>4. FieldsOfWorkers' BY DEF WorkInv, FieldsOfWorkers
<1>5. SlotInv(s)'
  <2>1. code[s] \notin {"none", "ok"} /\ code'[s] = code[s] BY DEF WorkInv, SlotInv
  <2> HIDE DEF q
  <2> QED BY <1>1, <1>2, <1>3, <2>1 DEF WorkInv, SlotInv
<1>6. \A t \in Slots \ {s} : SlotInv(t)' BY <1>2, <1>3 DEF WorkInv, SlotInv
<1>7. ASSUME NEW r \in Ranges, Awaited(r, s) PROVE Awaited(r, s)' \/ files'[r] # None
  <2>1. PICK n \in 1..Len(q) : q[n] = r BY <1>7 DEF Awaited
  <2>2. CASE n = 1 BY <1>1, <2>1, <2>2 DEF NextRange
  <2>3. CASE n # 1
    <3> DEFINE i == n - 1
    <3>1. i \in 1..(Len(q) - 1) /\ i + 1 = n BY <1>1, <2>3
    <3>2. Tail(q)[i] = r BY <1>1, <2>1, <3>1
    <3>3. i \in 1..Len(queue'[s]) /\ queue'[s][i] = r BY <1>1, <1>2, <3>1, <3>2
    <3> QED BY <3>3 DEF Awaited
  <2> QED BY <2>2, <2>3
<1>8. \A t \in Slots \ {s} : \A r : Awaited(r, t) => Awaited(r, t)' BY <1>2 DEF Awaited
<1>9. \A c \in Calls : Steady(c) BY <1>7, <1>8, SlotOfCall DEF Steady
<1> QED BY <1>4, <1>5, <1>6, <1>9 DEF Worked

LEMMA WorkerStep ==
  ASSUME IInv, WorkInv, Grown, NEW s \in Slots, Worker(s) \/ WorkerFail(s) \/ FirstDies(s)
  PROVE  Worked
<1>1. watched' = watched /\ FieldsOfWorkers /\ SlotInv(s)
  BY DEF WorkInv, Worker, WorkerFail, FirstDies, WorkerCheck, WorkerPublish, StartOther,
         WorkerExit, Exits, calling
<1>2. CASE WorkerCheck(s)
  <2>1. CASE files[NextRange(s)] # None
    <3>1. doing' = [doing EXCEPT ![s] = "check"]
      BY <1>1, <1>2, <2>1 DEF WorkerCheck, FieldsOfWorkers
    <3>2. NextRange(s) \in Ranges => files'[NextRange(s)] # None BY <2>1 DEF Grown
    <3> QED BY <1>1, <1>2, <2>1, <3>1, <3>2, DropStep DEF WorkerCheck, Drop
  <2>2. CASE files[NextRange(s)] = None
    <3>1. /\ UNCHANGED <<queue, code, watched>> /\ queue[s] # <<>>
          /\ doing' = [doing EXCEPT ![s] = "publish"]
      BY <1>1, <1>2, <2>2 DEF WorkerCheck
    <3>2. FieldsOfWorkers' BY <1>1, <3>1 DEF FieldsOfWorkers
    <3>3. \A t \in Slots : SlotInv(t)' BY <3>1 DEF WorkInv, FieldsOfWorkers, SlotInv
    <3>4. \A c \in Calls : Steady(c) BY <3>1 DEF Steady, Awaited
    <3> QED BY <3>2, <3>3, <3>4 DEF Worked
  <2> QED BY <2>1, <2>2
<1>3. CASE WorkerPublish(s)
  <2>1. queue[s] # <<>> BY <1>1, <1>3 DEF WorkerPublish, SlotInv
  <2>2. NextRange(s) \in Ranges => files'[NextRange(s)] # None
    BY <1>3, SlotOfCall, NoneAssumption DEF WorkerPublish, IInv, DirectoryInv
  <2> QED BY <1>1, <1>3, <2>1, <2>2, DropStep DEF WorkerPublish, Drop
<1>4. CASE StartOther(s)
  BY <1>1, <1>4, StillStep DEF StartOther, FieldsOfWorkers
<1>5. CASE WorkerExit(s) \/ WorkerFail(s) \/ FirstDies(s)
  <2>1. UNCHANGED queue
    BY <1>5 DEF WorkerExit, WorkerFail, FirstDies, Exits
  <2>2. FieldsOfWorkers'
    BY <1>1, <1>5 DEF WorkerExit, WorkerFail, FirstDies, Exits, FieldsOfWorkers
  <2>3. ASSUME NEW t \in Slots
        PROVE  /\ \/ code'[t] \in {code[t], "failed"}
                  \/ code[t] = "running" /\ code'[t] = "ok" /\ queue[t] = <<>>
               /\ doing'[t] \in {doing[t], "stopped"}
    BY <1>1, <1>5 DEF WorkerExit, WorkerFail, FirstDies, Exits, FieldsOfWorkers
  <2> QED BY <2>1, <2>2, <2>3, Ending
<1> QED BY <1>2, <1>3, <1>4, <1>5 DEF Worker

LEMMA LaunchStep ==
  ASSUME WorkInv, NEW c \in Calls, Launch(c)
  PROVE  Worked
<1> DEFINE started == {c} \X (1..WorkerCount(c))
<1>1. /\ watched' = [watched EXCEPT ![c] = 1..WorkerCount(c)]
      /\ queue' = [s \in Slots |-> IF s \in started THEN Dealt(c, s[2]) ELSE queue[s]]
      /\ doing' = [s \in Slots |-> IF s \in started THEN "check" ELSE doing[s]]
      /\ code' = [s \in Slots |-> IF s \in started THEN "running" ELSE code[s]]
  BY DEF Launch
<1>2. FieldsOfWorkers' BY <1>1 DEF WorkInv, FieldsOfWorkers
<1>3. ASSUME NEW s \in Slots PROVE SlotInv(s)'
  <2>1. CASE s \in started BY <1>1, <2>1, DealtIsListed DEF SlotInv
  <2>2. CASE s \notin started BY <1>1, <2>2 DEF WorkInv, SlotInv
  <2> QED BY <2>1, <2>2
<1>4. ASSUME NEW d \in Calls, d # c PROVE Steady(d)
  <2>1. \A w \in 1..WorkersOf[d] : <<d, w>> \in Slots /\ <<d, w>> \notin started
    BY <1>4, SlotOfCall
  <2> QED BY <1>1, <2>1 DEF Steady, Awaited
<1> QED BY <1>2, <1>3, <1>4 DEF Worked

\* A call does nothing to any workers, ends its own or starts them.
LEMMA CallWork ==
  ASSUME IInv, WorkInv, NEW c \in Calls, Call(c) \/ Interrupt(c) \/ Kill(c)
  PROVE  Worked
<1>1. CASE Launch(c) BY <1>1, LaunchStep
<1>2. ASSUME UNCHANGED <<queue, doing, code>>, watched' = [d \in Calls |-> watched'[d]]
      PROVE  Worked
  BY <1>2, StillStep
<1>3. ASSUME UNCHANGED <<queue, watched>>, Terminate(c) PROVE Worked
  BY <1>3, TerminateStep
<1>4. watched = [d \in Calls |-> watched[d]] BY DEF WorkInv, FieldsOfWorkers
<1>5. CASE Glob(c) \/ Look(c) \/ CutOut(c) \/ NothingPending(c) \/ PollRunning(c) \/ Merge(c)
  <2>1. UNCHANGED <<queue, doing, code>>
    BY <1>5 DEF Glob, Look, CutOut, NothingPending, PollRunning, Merge, working
  <2>2. watched' = [d \in Calls |-> watched'[d]]
    BY <1>4, <1>5 DEF Glob, Look, CutOut, NothingPending, PollRunning, Merge
  <2> QED BY <1>2, <2>1, <2>2
<1>6. CASE Source(c) \/ Take(c) \/ PollFailed(c) \/ Collect(c) \/ Interrupt(c) \/ Kill(c)
  <2>1. watched' = watched
    BY <1>6 DEF Source, Take, PollFailed, Collect, Interrupt, Kill
  <2>2. UNCHANGED <<queue, doing, code>> \/ (UNCHANGED queue /\ Terminate(c))
    BY <1>6 DEF Source, Take, PollFailed, Collect, Interrupt, Kill, Loads, Ends, working
  <2> QED BY <1>2, <1>3, <1>4, <2>1, <2>2
<1> QED BY <1>1, <1>5, <1>6 DEF Call

LEMMA StartedWorkers ==
  ASSUME NEW c \in Calls PROVE 1..WorkerCount(c) \subseteq 1..WorkersOf[c]
<1> DEFINE size == Cardinality(Pending(c))
<1>1. ChunkCount(c) \in Int BY ParallelAssumption DEF ChunkCount
<1>2. IsFiniteSet(1..ChunkCount(c)) BY <1>1, FS_Interval
<1>3. Pending(c) \in SUBSET (1..ChunkCount(c)) BY DEF Pending, ChunkNumbers
<1>4. size \in Nat BY <1>2, <1>3, FS_Subset, FS_CardinalityType
<1>5. WorkersOf[c] \in Nat BY ParallelAssumption
<1> HIDE DEF size
<1>6. WorkerCount(c) = Smaller(WorkersOf[c], size) BY DEF WorkerCount, size
<1> QED BY <1>4, <1>5, <1>6 DEF Smaller

LEMMA LaunchWait ==
  ASSUME IInv, WorkInv, NEW c \in Calls, Launch(c)
  PROVE  WaitInv(c)'
<1> DEFINE started == {c} \X (1..WorkerCount(c))
<1>1. /\ watched'[c] = 1..WorkerCount(c) /\ batches' = batches
      /\ pc[c] = "look" /\ pc'[c] = "poll"
  BY DEF Launch, Goto, WorkInv, FieldsOfWorkers, IInv, FieldsOfCalls
<1>2. /\ queue' = [s \in Slots |-> IF s \in started THEN Dealt(c, s[2]) ELSE queue[s]]
      /\ code' = [s \in Slots |-> IF s \in started THEN "running" ELSE code[s]]
  BY DEF Launch
<1>3. watched'[c] \subseteq 1..WorkersOf[c] BY <1>1, StartedWorkers
<1>4. ASSUME NEW w \in 1..WorkersOf[c], code'[<<c, w>>] = "running" PROVE w \in watched'[c]
  <2>1. <<c, w>> \in Slots /\ code[<<c, w>>] # "running"
    BY <1>1, SlotOfCall DEF WorkInv, WaitInv
  <2> QED BY <1>1, <1>2, <1>4, <2>1
<1>5. ASSUME NEW k \in ChunkNumbers(c), batches'[c][k] = None
      PROVE  \E w \in 1..WorkersOf[c] : Awaited(Chunk(c, k), <<c, w>>)'
  <2>1. k \in Pending(c) BY <1>1, <1>5 DEF Pending
  <2>2. PICK w \in 1..WorkerCount(c) :
          /\ w \in 1..WorkersOf[c]
          /\ \E n \in 1..Cardinality(Share(c, w)) : Dealt(c, w)[n] = Chunk(c, k)
    BY <2>1, DealtCovers
  <2>3. <<c, w>> \in Slots BY <2>2, SlotOfCall
  <2>4. queue'[<<c, w>>] = Dealt(c, w) BY <1>2, <2>3
  <2>5. Len(Dealt(c, w)) = Cardinality(Share(c, w)) BY DealtIsListed
  <2>6. Awaited(Chunk(c, k), <<c, w>>)' BY <2>2, <2>4, <2>5 DEF Awaited
  <2> QED BY <2>2, <2>6
<1> QED BY <1>1, <1>3, <1>4, <1>5 DEF WaitInv

LEMMA CallWait ==
  ASSUME IInv, WorkInv, Grown, Worked, NEW c \in Calls, Call(c) \/ Interrupt(c) \/ Kill(c)
  PROVE  WaitInv(c)'
<1>1. /\ WaitInv(c) /\ FieldsOfCalls /\ FieldsOfWorkers /\ CallTypes(c)
  BY DEF WorkInv, IInv
<1>2. CASE Launch(c) BY <1>2, LaunchWait
<1>3. CASE ~Launch(c)
  <2>1. Steady(c) BY <1>3 DEF Worked
  <2>2. CASE Glob(c) \/ Look(c) \/ Source(c) \/ CutOut(c) \/ Take(c) \/ Merge(c)
             \/ Interrupt(c) \/ Kill(c)
    <3>1. watched'[c] = watched[c]
      BY <2>2 DEF Glob, Look, Source, CutOut, Take, Merge, Interrupt, Kill
    <3>2. \/ pc'[c] \in {"failed", "interrupted", "killed", "returned"}
          \/ /\ pc[c] \in {"idle", "look", "source", "cut", "take"}
             /\ pc'[c] \in {"look", "source", "cut", "take"}
      BY <1>1, <2>2 DEF Glob, Look, Source, CutOut, Take, Merge, Interrupt, Kill, Loads, Ends,
                        Goto, FieldsOfCalls
    <3> QED BY <1>1, <2>1, <3>1, <3>2, NoWait
  <2>3. CASE NothingPending(c)
    <3>1. /\ pc[c] = "look" /\ pc'[c] = "collect" /\ batches' = batches
          /\ watched' = watched /\ code' = code
      BY <1>1, <2>3 DEF NothingPending, Goto, FieldsOfCalls, working
    <3>2. \A k \in ChunkNumbers(c) : batches[c][k] # None
      BY <2>3 DEF NothingPending, Pending
    <3> QED BY <1>1, <3>1, <3>2 DEF WaitInv
  <2>4. CASE PollFailed(c)
    <3>1. watched'[c] = watched[c] /\ batches' = batches BY <2>4 DEF PollFailed
    <3>2. pc'[c] = "failed" \/ (pc[c] = "poll" /\ pc'[c] = "sift")
      BY <1>1, <2>4 DEF PollFailed, Ends, Goto, FieldsOfCalls
    <3> QED BY <1>1, <2>1, <3>1, <3>2, NoWait, WaitFrame
  <2>5. CASE PollRunning(c)
    <3> DEFINE running == {w \in watched[c] : code[<<c, w>>] = "running"}
    <3>1. /\ pc[c] = "sift" /\ watched'[c] = running
          /\ UNCHANGED <<batches, files, queue, code>>
          /\ \/ pc'[c] = "poll"
             \/ pc'[c] = "collect" /\ running = {}
      BY <1>1, <2>5 DEF PollRunning, Goto, FieldsOfCalls, FieldsOfWorkers, working
    <3>2. \A w \in 1..WorkersOf[c] : code[<<c, w>>] = "running" => w \in running
      BY <1>1, <3>1 DEF WaitInv
    <3>3. watched'[c] \subseteq 1..WorkersOf[c] BY <1>1, <3>1 DEF WaitInv
    <3>4. \A k \in ChunkNumbers(c) :
            \/ batches[c][k] # None \/ files[Chunk(c, k)] # None
            \/ \E w \in 1..WorkersOf[c] :
                 code[<<c, w>>] = "failed" \/ Awaited(Chunk(c, k), <<c, w>>)
      BY <1>1, <3>1 DEF WaitInv
    <3>5. \A w : \A r : Awaited(r, <<c, w>>)' = Awaited(r, <<c, w>>) BY <3>1 DEF Awaited
    <3> HIDE DEF running
    <3> QED BY <3>1, <3>2, <3>3, <3>4, <3>5 DEF WaitInv
  <2>6. CASE Collect(c)
    <3>1. watched'[c] = watched[c] BY <2>6 DEF Collect
    <3>2. CASE pc'[c] = "failed" BY <1>1, <2>1, <3>1, <3>2, NoWait
    <3>3. CASE pc'[c] # "failed"
      <4>1. CASE batches[c][at[c]] # None
        <5>1. pc' = pc /\ batches' = batches BY <2>6, <4>1 DEF Collect
        <5> QED BY <1>1, <2>1, <3>1, <5>1, WaitFrame
      <4>2. CASE batches[c][at[c]] = None
        <5>1. /\ files[Here(c)] # None /\ pc[c] = "collect" /\ pc'[c] = "collect"
              /\ batches' = [batches EXCEPT ![c][at[c]] = files[Here(c)]]
          BY <1>1, <2>6, <3>3, <4>2 DEF Collect, Loads, Ends, Goto, FieldsOfCalls
        <5>2. batches'[c] = [batches[c] EXCEPT ![at[c]] = files[Here(c)]]
          BY <1>1, <5>1 DEF FieldsOfCalls
        <5>3. \A k \in ChunkNumbers(c) : batches[c][k] # None => batches'[c][k] # None
          BY <1>1, <5>1, <5>2 DEF CallTypes
        <5> QED BY <1>1, <2>1, <3>1, <5>1, <5>3, WaitFrame
      <4> QED BY <4>1, <4>2
    <3> QED BY <3>2, <3>3
  <2> QED BY <1>3, <2>2, <2>3, <2>4, <2>5, <2>6 DEF Call
<1> QED BY <1>2, <1>3

\* What another does leaves the call waiting.
LEMMA OthersWait ==
  ASSUME IInv, WorkInv, Grown, Worked, NEW c \in Calls, pc'[c] = pc[c],
         watched'[c] = watched[c], batches'[c] = batches[c]
  PROVE  WaitInv(c)'
<1>1. ~Launch(c) BY DEF Launch, Goto, IInv, FieldsOfCalls
<1> QED BY <1>1, WaitFrame DEF Worked, WorkInv

LEMMA WorkInvStep ==
  ASSUME ~Rally PROVE IInv /\ WorkInv /\ [Next]_vars => WorkInv'
<1> SUFFICES ASSUME IInv, WorkInv, [Next]_vars PROVE WorkInv' OBVIOUS
<1>1. Grown BY DirectoryStep
<1>2. ASSUME NEW c \in Calls, Call(c) \/ Interrupt(c) \/ Kill(c) PROVE WorkInv'
  <2>1. Worked BY <1>2, CallWork
  <2>2. WaitInv(c)' BY <1>1, <1>2, <2>1, CallWait
  <2>3. ASSUME NEW d \in Calls, d # c
        PROVE  pc'[d] = pc[d] /\ watched'[d] = watched[d] /\ batches'[d] = batches[d]
    <3>1. FieldsOfCalls /\ FieldsOfWorkers BY DEF IInv, WorkInv
    <3> QED BY <1>2, <2>3, <3>1
         DEF Call, Glob, Look, Source, CutOut, Take, Launch, NothingPending, PollFailed,
             PollRunning, Collect, Merge, Interrupt, Kill, Loads, Ends, Goto, FieldsOfCalls,
             FieldsOfWorkers
  <2>4. \A d \in Calls : d # c => WaitInv(d)' BY <1>1, <2>1, <2>3, OthersWait
  <2> QED BY <2>1, <2>2, <2>4 DEF Worked, WorkInv
<1>3. ASSUME NEW s \in Slots, Worker(s) \/ WorkerFail(s) \/ FirstDies(s) PROVE WorkInv'
  <2>1. Worked BY <1>1, <1>3, WorkerStep
  <2>2. UNCHANGED calling
    BY <1>3 DEF Worker, WorkerCheck, WorkerPublish, StartOther, WorkerExit, WorkerFail,
                FirstDies, Exits
  <2>3. \A d \in Calls : WaitInv(d)' BY <1>1, <2>1, <2>2, OthersWait DEF calling
  <2> QED BY <2>1, <2>3 DEF Worked, WorkInv
<1>4. CASE UNCHANGED vars
  <2>1. UNCHANGED <<queue, doing, code, watched>> /\ UNCHANGED calling
    BY <1>4 DEF vars, calling, working
  <2>2. watched' = [d \in Calls |-> watched'[d]]
    BY <2>1 DEF WorkInv, FieldsOfWorkers
  <2>3. Worked BY <2>1, <2>2, StillStep
  <2>4. \A d \in Calls : WaitInv(d)' BY <1>1, <2>1, <2>3, OthersWait DEF calling
  <2> QED BY <2>3, <2>4 DEF Worked, WorkInv
<1> QED BY <1>2, <1>3, <1>4 DEF Next, Disturb

\* No call fails over what another call, alive or dead, left or does in the
\* directory of one match.
THEOREM FailuresHaveReasons == ASSUME ~Rally PROVE Spec => FailsForReason
<1> DEFINE Reason(c) ==
      \/ \E w \in 1..WorkersOf[c] : code[<<c, w>>] = "failed"
      \/ \E r \in Ranges : files[r] # None /\ files[r].setup # setup[c]
    Reasoned == \A c \in Calls : pc[c] # "failed" /\ pc'[c] = "failed" => Reason(c)
<1>1. IInv /\ WorkInv /\ [Next]_vars => [Reasoned]_vars
  <2> SUFFICES ASSUME IInv, WorkInv, [Next]_vars, NEW c \in Calls,
                      pc[c] # "failed", pc'[c] = "failed"
               PROVE  Reason(c)
    OBVIOUS
  <2>1. FieldsOfCalls /\ CallTypes(c) /\ CallInv(c) /\ WaitInv(c) BY DEF IInv, WorkInv
  <2>2. Source(c) \/ Take(c) \/ PollFailed(c) \/ Collect(c)
    <3>1. PICK d \in Calls : Call(d) \/ Interrupt(d) \/ Kill(d)
      BY DEF Next, Disturb, vars, calling, Worker, WorkerCheck, WorkerPublish, StartOther,
             WorkerExit, WorkerFail, FirstDies, Exits
    <3>2. d = c
      BY <2>1, <3>1
         DEF Call, Glob, Look, Source, CutOut, Take, Launch, NothingPending, PollFailed,
             PollRunning, Collect, Merge, Interrupt, Kill, Loads, Ends, Goto, FieldsOfCalls
    <3> QED BY <2>1, <3>1, <3>2
         DEF Call, Glob, Look, CutOut, Launch, NothingPending, PollRunning, Merge, Interrupt,
             Kill, Ends, Goto, FieldsOfCalls
  <2>3. CASE Source(c)
    <3>1. from[c] \in Ranges /\ files[from[c]] # None
      BY <2>1, <2>3 DEF Source, CallInv, CallTypes
    <3>2. files[from[c]].setup # setup[c] BY <2>1, <2>3 DEF Source, Goto, FieldsOfCalls
    <3> QED BY <3>1, <3>2
  <2>4. ASSUME at[c] \in ChunkNumbers(c), files[Here(c)] # None, NEW next, next # "failed",
               Loads(c, next)
        PROVE  Reason(c)
    <3>1. Here(c) \in Ranges BY <2>4, ChunkInRanges DEF Here
    <3>2. files[Here(c)].setup # setup[c] BY <2>1, <2>4 DEF Loads, Goto, FieldsOfCalls
    <3> QED BY <2>4, <3>1, <3>2
  <2>5. CASE Take(c)
    <3>1. at[c] \in ChunkNumbers(c) /\ files[Here(c)] # None /\ Loads(c, "look")
      BY <2>1, <2>5 DEF Take, CallInv, Goto, FieldsOfCalls
    <3> QED BY <2>4, <3>1
  <2>6. CASE PollFailed(c)
    <3>1. \E w \in watched[c] : code[<<c, w>>] = "failed"
      BY <2>1, <2>6 DEF PollFailed, Goto, FieldsOfCalls
    <3> QED BY <2>1, <3>1 DEF WaitInv
  <2>7. CASE Collect(c)
    <3>1. /\ at[c] \in ChunkNumbers(c) /\ batches[c][at[c]] = None /\ pc[c] = "collect"
      BY <2>7 DEF Collect
    <3>2. CASE files[Here(c)] # None
      <4>1. Loads(c, "collect") BY <2>7, <3>1, <3>2 DEF Collect
      <4> QED BY <2>4, <3>1, <3>2, <4>1
    <3>3. CASE files[Here(c)] = None
      <4>1. PICK w \in 1..WorkersOf[c] :
              code[<<c, w>>] = "failed" \/ Awaited(Chunk(c, at[c]), <<c, w>>)
        BY <2>1, <3>1, <3>3 DEF WaitInv, Here
      <4>2. <<c, w>> \in Slots /\ SlotInv(<<c, w>>) BY SlotOfCall DEF WorkInv
      <4>3. code[<<c, w>>] # "running" BY <2>1, <3>1 DEF WaitInv
      <4>4. queue[<<c, w>>] = <<>> => ~Awaited(Chunk(c, at[c]), <<c, w>>) BY DEF Awaited
      <4>5. code[<<c, w>>] = "failed" BY <4>1, <4>2, <4>3, <4>4 DEF SlotInv
      <4> QED BY <4>5
    <3> QED BY <3>2, <3>3
  <2> QED BY <2>2, <2>3, <2>5, <2>6, <2>7
<1>2. Spec => []WorkInv
  BY InitWorkInv, InitIInv, IInvStep, WorkInvStep, PTL DEF Spec
<1> QED BY <1>1, <1>2, IInvAlways, PTL DEF Spec, FailsForReason
=============================================================================
