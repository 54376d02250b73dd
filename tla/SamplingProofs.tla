--------------------------- MODULE SamplingProofs ---------------------------
(***************************************************************************)
(* Theorems about SeedTree and MatchSampling, for any components and any   *)
(* distributions.                                                          *)
(***************************************************************************)
EXTENDS MatchSampling, SequenceTheorems, FiniteSetTheorems, TLAPS

LEMMA KeyNumbers ==
  ASSUME NEW root \in SeedNode, NEW start \in Nat, NEW n \in Nat,
         NEW i \in Nat \ {0}, NEW j \in Nat
  PROVE  LET key == StageSeed(PathSeed(root, start, n), <<i, j>>).key
             l == Len(root.key)
         IN  /\ Len(key) = IF j = 0 THEN l + 2 ELSE l + 3
             /\ key[l + 1] = root.spawned + (start + n)
             /\ key[l + 2] = i - 1
             /\ j # 0 => key[l + 3] = j - 1
<1> DEFINE k == root.key
           m == root.spawned + (start + n)
           l == Len(k)
           a == Append(k, m)
           b == Append(a, i - 1)
           d == Append(b, j - 1)
<1>1. k \in Seq(Nat) /\ m \in Nat /\ l \in Nat
  BY DEF SeedNode
<1>2. a \in Seq(Nat) /\ Len(a) = l + 1 /\ a[l + 1] = m
  BY <1>1, AppendProperties
<1> USE DEF l
<1> HIDE DEF a, m, k
<1>3. b \in Seq(Nat) /\ Len(b) = l + 2 /\ b[l + 1] = a[l + 1] /\ b[l + 2] = i - 1
  <2>1. i - 1 \in Nat OBVIOUS
  <2>2. b \in Seq(Nat) /\ Len(b) = Len(a) + 1 /\ b[Len(a) + 1] = i - 1
        /\ \A x \in 1..Len(a) : b[x] = a[x]
    BY <1>2, <2>1, AppendProperties
  <2> QED BY <1>1, <1>2, <2>2
<1> HIDE DEF b
<1>4. j # 0 => /\ Len(d) = l + 3 /\ d[l + 1] = b[l + 1] /\ d[l + 2] = b[l + 2]
               /\ d[l + 3] = j - 1
  <2> SUFFICES ASSUME j # 0 PROVE /\ Len(d) = l + 3 /\ d[l + 1] = b[l + 1]
                                  /\ d[l + 2] = b[l + 2] /\ d[l + 3] = j - 1
    OBVIOUS
  <2>1. j - 1 \in Nat OBVIOUS
  <2>2. Len(d) = Len(b) + 1 /\ d[Len(b) + 1] = j - 1 /\ \A x \in 1..Len(b) : d[x] = b[x]
    BY <1>3, <2>1, AppendProperties
  <2> QED BY <1>1, <1>3, <2>2
<1>5. PathSeed(root, start, n) = [key |-> a, spawned |-> 0]
  BY DEF PathSeed, Child, a, m, k
<1>6. StageSeed(PathSeed(root, start, n), <<i, j>>).key = IF j = 0 THEN b ELSE d
  BY <1>5 DEF StageSeed, Child, b
<1> QED BY <1>1, <1>2, <1>3, <1>4, <1>6 DEF k, m

\* No two streams of one path are the same, and no stream of a path is one of
\* another path of the seed, whatever the seed had spawned before.
THEOREM StreamsNeverShared ==
  ASSUME NEW root \in SeedNode, NEW start \in Nat, NEW strength,
         NEW p \in Nat, NEW q \in Nat,
         NEW x \in Streams(strength), NEW y \in Streams(strength),
         StageSeed(PathSeed(root, start, p), x).key
           = StageSeed(PathSeed(root, start, q), y).key
  PROVE  p = q /\ x = y
<1>1. Streams(strength) \subseteq (Nat \ {0}) \X Nat
  BY DEF Streams
<1>2. PICK i \in Nat \ {0}, j \in Nat : x = <<i, j>>
  BY <1>1
<1>3. PICK m \in Nat \ {0}, n \in Nat : y = <<m, n>>
  BY <1>1
<1> DEFINE key == StageSeed(PathSeed(root, start, p), <<i, j>>).key
           l == Len(root.key)
<1>4. l \in Nat /\ root.spawned \in Nat
  BY DEF SeedNode
<1>5. /\ Len(key) = IF j = 0 THEN l + 2 ELSE l + 3
      /\ key[l + 1] = root.spawned + (start + p)
      /\ key[l + 2] = i - 1
      /\ j # 0 => key[l + 3] = j - 1
  BY KeyNumbers
<1> DEFINE other == StageSeed(PathSeed(root, start, q), <<m, n>>).key
<1>6. /\ Len(other) = IF n = 0 THEN l + 2 ELSE l + 3
      /\ other[l + 1] = root.spawned + (start + q)
      /\ other[l + 2] = m - 1
      /\ n # 0 => other[l + 3] = n - 1
  BY KeyNumbers
<1>10. key = other
  BY <1>2, <1>3
<1> HIDE DEF key, other, l
<1>7. p = q
  BY <1>4, <1>5, <1>6, <1>10
<1>8. i = m
  BY <1>5, <1>6, <1>10
<1>9. j = n
  BY <1>4, <1>5, <1>6, <1>10
<1> QED BY <1>2, <1>3, <1>7, <1>8, <1>9

-----------------------------------------------------------------------------
LEMMA AtMostOne ==
  ASSUME NEW x, NEW S \in SUBSET {x}
  PROVE  Cardinality(S) <= 1
<1>1. CASE S = {}
  BY <1>1, FS_EmptySet
<1>2. CASE S = {x}
  <2>1. Cardinality({x}) = 1 BY FS_Singleton
  <2> QED BY <1>2, <2>1
<1> QED BY <1>1, <1>2

\* What a component adds for an effect comes from one source.
LEMMA TermHasOneSource ==
  ASSUME matchup \in Matchups, NEW c, NEW e \in Effects(c), NEW server \in Sides
  PROVE  LET term == Term(c, e, server)
         IN  /\ term.theta + term.adjusted + term.fresh = Coefficient(e, server)
             /\ Cardinality({s \in DOMAIN term : term[s] # 0}) <= 1
             /\ Changes(c, e) => term.theta = 0 /\ term.fresh = 0
             /\ ~ Changes(c, e) /\ Seen(c, e) => term.adjusted = 0
<1> DEFINE n == Coefficient(e, server)
           term == Term(c, e, server)
<1>1. n \in Int
  BY DEF Coefficient
<1>2. Changes(c, e) => e \in Affected(c)
  <2>1. ~ Changes(c, Event)
    BY SamplingAssumption DEF Changes, Event, HardRoles
  <2> QED BY <2>1 DEF Effects
<1>3. /\ term \in {Source("theta", n), Source("adjusted", n), Source("fresh", n)}
      /\ Changes(c, e) => term = Source("adjusted", n)
      /\ ~ Changes(c, e) /\ Seen(c, e) => term = Source("theta", n)
  <2> DEFINE p == Projected(c, e, server)
             d == Delta(c, e, server)
             Plain(s) == [theta |-> IF s = "theta" THEN n ELSE 0,
                          adjusted |-> IF s = "adjusted" THEN n ELSE 0,
                          fresh |-> IF s = "fresh" THEN n ELSE 0]
  <2>1. /\ \A s : Source(s, n) = Plain(s)
        /\ DOMAIN p = {"theta", "adjusted", "fresh"}
        /\ term = [s \in DOMAIN p |-> p[s] + d[s]]
    BY DEF Term, Projected, Source
  <2>2. CASE Seen(c, e) /\ Changes(c, e)
    <3>1. p = Plain("theta")
      BY <2>1, <2>2 DEF Projected, Presets
    <3>2. d = [theta |-> -n, adjusted |-> n, fresh |-> 0]
      BY <2>2 DEF Delta
    <3> QED BY <1>1, <2>1, <2>2, <3>1, <3>2
  <2>3. CASE Seen(c, e) /\ ~ Changes(c, e)
    <3>1. p = Plain("theta")
      BY <2>1, <2>3 DEF Projected, Presets
    <3>2. d = [theta |-> 0, adjusted |-> 0, fresh |-> 0]
      BY <2>3 DEF Delta
    <3> QED BY <1>1, <2>1, <2>3, <3>1, <3>2
  <2>4. CASE ~ Seen(c, e) /\ e \in Presets(c)
    <3>1. p = Plain("adjusted") /\ d = [theta |-> 0, adjusted |-> 0, fresh |-> 0]
      BY <2>1, <2>4 DEF Projected, Delta
    <3> QED BY <1>1, <2>1, <2>4, <3>1
  <2>5. CASE ~ Seen(c, e) /\ e \notin Presets(c)
    <3>1. ~ Changes(c, e)
      BY <1>2, <2>5 DEF Presets, ChangesDraw
    <3>2. p = Plain("fresh") /\ d = [theta |-> 0, adjusted |-> 0, fresh |-> 0]
      BY <2>1, <2>5 DEF Projected, Delta
    <3> QED BY <1>1, <2>1, <2>5, <3>1, <3>2
  <2> QED BY <2>2, <2>3, <2>4, <2>5
<1>4. \A s \in {"theta", "adjusted", "fresh"} :
        Source(s, n) = [theta |-> IF s = "theta" THEN n ELSE 0,
                        adjusted |-> IF s = "adjusted" THEN n ELSE 0,
                        fresh |-> IF s = "fresh" THEN n ELSE 0]
  BY DEF Source
<1>5. PICK s \in {"theta", "adjusted", "fresh"} : term = Source(s, n)
  BY <1>3
<1>6. term.theta + term.adjusted + term.fresh = n
  BY <1>1, <1>4, <1>5
<1>7. {r \in DOMAIN term : term[r] # 0} \in SUBSET {s}
  BY <1>4, <1>5
<1>8. Changes(c, e) => term.theta = 0 /\ term.fresh = 0
  BY <1>3, <1>4
<1>9. ~ Changes(c, e) /\ Seen(c, e) => term.adjusted = 0
  BY <1>3, <1>4
<1> HIDE DEF term, n
<1>10. Cardinality({r \in DOMAIN term : term[r] # 0}) <= 1
  BY <1>7, AtMostOne
<1> QED BY <1>6, <1>8, <1>9, <1>10 DEF term, n

-----------------------------------------------------------------------------
\* Sequences without repetitions.
IsSequence(s) == \E S : s \in Seq(S)
Distinct(s) == \A i, j \in DOMAIN s : s[i] = s[j] => i = j
Apart(s, t) == \A i \in DOMAIN s, j \in DOMAIN t : s[i] # t[j]

LEMMA ConcatDistinct ==
  ASSUME NEW s, NEW t, IsSequence(s), IsSequence(t), Distinct(s), Distinct(t), Apart(s, t)
  PROVE  /\ IsSequence(s \o t) /\ Distinct(s \o t)
         /\ \A k \in DOMAIN (s \o t) : \/ \E i \in DOMAIN s : (s \o t)[k] = s[i]
                                       \/ \E j \in DOMAIN t : (s \o t)[k] = t[j]
<1>1. PICK S, T : s \in Seq(S) /\ t \in Seq(T)
  BY DEF IsSequence
<1> DEFINE U == S \cup T
<1>2. s \in Seq(U) /\ t \in Seq(U)
  BY <1>1
<1>3. /\ s \o t \in Seq(U) /\ Len(s \o t) = Len(s) + Len(t)
      /\ \A i \in 1..(Len(s) + Len(t)) :
           (s \o t)[i] = IF i <= Len(s) THEN s[i] ELSE t[i - Len(s)]
  BY <1>2, ConcatProperties
<1>4. /\ DOMAIN s = 1..Len(s) /\ DOMAIN t = 1..Len(t) /\ Len(s) \in Nat /\ Len(t) \in Nat
      /\ DOMAIN (s \o t) = 1..(Len(s) + Len(t))
  BY <1>2, <1>3
<1> DEFINE c == s \o t
<1> HIDE DEF c, U
<1>5. ASSUME NEW k \in DOMAIN c
      PROVE  \/ k \in DOMAIN s /\ c[k] = s[k]
             \/ k - Len(s) \in DOMAIN t /\ c[k] = t[k - Len(s)]
  BY <1>3, <1>4 DEF c
<1>6. Distinct(c)
  <2> SUFFICES ASSUME NEW i \in DOMAIN c, NEW j \in DOMAIN c, c[i] = c[j]
               PROVE  i = j
    BY DEF Distinct
  <2>1. i \in Int /\ j \in Int
    BY <1>4 DEF c
  <2>2. CASE i \in DOMAIN s /\ c[i] = s[i] /\ j \in DOMAIN s /\ c[j] = s[j]
    BY <2>2 DEF Distinct
  <2>3. CASE i \in DOMAIN s /\ c[i] = s[i] /\ j - Len(s) \in DOMAIN t /\ c[j] = t[j - Len(s)]
    BY <2>3 DEF Apart
  <2>4. CASE i - Len(s) \in DOMAIN t /\ c[i] = t[i - Len(s)] /\ j \in DOMAIN s /\ c[j] = s[j]
    BY <2>4 DEF Apart
  <2>5. CASE /\ i - Len(s) \in DOMAIN t /\ c[i] = t[i - Len(s)]
             /\ j - Len(s) \in DOMAIN t /\ c[j] = t[j - Len(s)]
    <3>1. i - Len(s) = j - Len(s)
      BY <2>5 DEF Distinct
    <3> QED BY <1>4, <2>1, <3>1
  <2> QED BY <1>5, <2>2, <2>3, <2>4, <2>5
<1>7. IsSequence(c)
  BY <1>3 DEF IsSequence, c
<1> QED BY <1>5, <1>6, <1>7 DEF c

LEMMA ShortSequences ==
  /\ IsSequence(<<>>) /\ Distinct(<<>>)
  /\ \A x : IsSequence(<<x>>) /\ Distinct(<<x>>)
  /\ \A t : Apart(<<>>, t) /\ Apart(t, <<>>)
<1>1. IsSequence(<<>>) /\ DOMAIN <<>> = {}
  <2>1. <<>> \in Seq({}) OBVIOUS
  <2> QED BY <2>1 DEF IsSequence
<1>2. ASSUME NEW x PROVE IsSequence(<<x>>) /\ DOMAIN <<x>> = {1}
  <2>1. <<x>> \in Seq({x}) OBVIOUS
  <2>2. IsSequence(<<x>>) BY <2>1 DEF IsSequence
  <2>3. DOMAIN <<x>> = 1..1 OBVIOUS
  <2> QED BY <2>2, <2>3
<1> QED BY <1>1, <1>2 DEF Distinct, Apart

-----------------------------------------------------------------------------
(***************************************************************************)
(* The inductive invariant: a component has its terms when it is done, and *)
(* what a stream has given is of the components and steps done.            *)
(***************************************************************************)
TermsInv ==
  /\ IsSequence(terms) /\ Len(terms) <= Len(Components)
  /\ stage <= Len(Components) => Len(terms) = stage - 1
  /\ \A i \in DOMAIN terms :
       terms[i] = [x \in Effects(Components[i]) \X Sides |-> Term(Components[i], x[1], x[2])]

TakenInv ==
  /\ taken = [s \in Streams(matchup.strength) |-> taken[s]]
  /\ \A s \in Streams(matchup.strength) : IsSequence(taken[s]) /\ Distinct(taken[s])
  /\ \A k \in DOMAIN taken[<<1, 0>>] : \E i \in DOMAIN Components :
       i < stage /\ taken[<<1, 0>>][k][1] = Components[i]
  /\ Len(Components) + 1 >= stage => taken[<<2, 0>>] = <<>>
  /\ Len(Components) + 2 >= stage => taken[<<3, 0>>] = <<>>
  /\ Len(Components) + 3 >= stage /\ matchup.strength => taken[<<7, 0>>] = <<>>
  /\ Len(Components) + 4 >= stage => taken[<<5, 1>>] = <<>>

SamplingInv ==
  /\ matchup \in Matchups /\ stage \in Nat \ {0}
  /\ TermsInv /\ TakenInv

LEMMA StreamsThere ==
  ASSUME NEW strength
  PROVE  /\ {<<1, 0>>, <<2, 0>>, <<3, 0>>, <<5, 1>>} \subseteq Streams(strength)
         /\ strength => <<7, 0>> \in Streams(strength)
BY DEF Streams

LEMMA InvInit == SamplingInit => SamplingInv
<1> SUFFICES ASSUME SamplingInit PROVE SamplingInv OBVIOUS
<1>1. IsSequence(<<>>) /\ Distinct(<<>>) /\ DOMAIN <<>> = {} /\ Len(<<>>) = 0
  BY ShortSequences
<1>2. Len(Components) \in Nat
  BY SamplingAssumption
<1> QED BY <1>1, <1>2, StreamsThere DEF SamplingInit, SamplingInv, TermsInv, TakenInv

\* A stream that gives something new.
LEMMA TakeKeeps ==
  ASSUME SamplingInv, NEW stream \in Streams(matchup.strength), NEW what,
         IsSequence(what), Distinct(what), Apart(taken[stream], what), Take(stream, what)
  PROVE  /\ taken' = [s \in Streams(matchup.strength) |-> taken'[s]]
         /\ \A s \in Streams(matchup.strength) : IsSequence(taken'[s]) /\ Distinct(taken'[s])
         /\ taken'[stream] = taken[stream] \o what
         /\ \A s \in Streams(matchup.strength) \ {stream} : taken'[s] = taken[s]
<1>1. IsSequence(taken[stream] \o what) /\ Distinct(taken[stream] \o what)
  BY ConcatDistinct DEF SamplingInv, TakenInv
<1> QED BY <1>1 DEF Take, SamplingInv, TakenInv

LEMMA TermUnchanged ==
  ASSUME matchup' = matchup, NEW c, NEW e, NEW server
  PROVE  Term(c, e, server)' = Term(c, e, server)
BY DEF Term, Projected, Delta, Seen, Changes, Presets, ChangesDraw

LEMMA ComponentKeeps == SamplingInv /\ SampleComponent => SamplingInv'
<1> SUFFICES ASSUME SamplingInv, SampleComponent PROVE SamplingInv' OBVIOUS
<1> USE DEF SamplingInv
<1> DEFINE c == Components[stage]
           vector == <<c, "vector", Presets(c)>>
           fresh == <<c, "fresh", Fresh(c)>>
           rest == IF Fresh(c) = {} THEN <<>> ELSE <<fresh>>
           what == <<vector>> \o rest
           added == [x \in Effects(c) \X Sides |-> Term(c, x[1], x[2])]
<1>1. /\ stage <= Len(Components) /\ Take(<<1, 0>>, what) /\ terms' = Append(terms, added)
      /\ stage' = stage + 1 /\ matchup' = matchup
  BY DEF SampleComponent
<1>2. Len(Components) \in Nat /\ DOMAIN Components = 1..Len(Components)
  BY SamplingAssumption
<1>3. stage \in DOMAIN Components
  BY <1>1, <1>2
<1>4. /\ IsSequence(<<vector>>) /\ Distinct(<<vector>>) /\ IsSequence(rest) /\ Distinct(rest)
      /\ DOMAIN <<vector>> = {1} /\ \A k \in DOMAIN rest : rest[k] = fresh
  <2>1. DOMAIN <<vector>> = 1..1 /\ DOMAIN <<fresh>> = 1..1 /\ DOMAIN <<>> = {}
    OBVIOUS
  <2>2. \A k \in 1..1 : <<fresh>>[k] = fresh OBVIOUS
  <2> HIDE DEF vector, fresh
  <2> QED BY <2>1, <2>2, ShortSequences
<1>5. Apart(<<vector>>, rest)
  <2>1. vector # fresh OBVIOUS
  <2>2. \A k \in DOMAIN <<vector>> : <<vector>>[k] = vector
    BY <1>4
  <2> HIDE DEF vector, fresh, rest
  <2> QED BY <1>4, <2>1, <2>2 DEF Apart
<1> HIDE DEF rest
<1>6. /\ IsSequence(what) /\ Distinct(what)
      /\ \A k \in DOMAIN what : what[k] \in {vector, fresh}
  <2>1. \A k \in DOMAIN <<vector>> : <<vector>>[k] = vector
    BY <1>4
  <2> HIDE DEF vector, fresh
  <2> QED BY <1>4, <1>5, <2>1, ConcatDistinct
<1> HIDE DEF what
<1>7. \A k \in DOMAIN what : what[k][1] = c
  BY <1>6
<1>8. Apart(taken[<<1, 0>>], what)
  <2> SUFFICES ASSUME NEW k \in DOMAIN taken[<<1, 0>>], NEW j \in DOMAIN what
               PROVE  taken[<<1, 0>>][k] # what[j]
    BY DEF Apart
  <2>1. PICK i \in DOMAIN Components : i < stage /\ taken[<<1, 0>>][k][1] = Components[i]
    BY DEF TakenInv
  <2>2. Components[i] # c
    BY <1>2, <1>3, <2>1, SamplingAssumption
  <2>3. what[j][1] = c
    BY <1>7
  <2> HIDE DEF c
  <2> QED BY <2>1, <2>2, <2>3
<1>9. /\ taken' = [s \in Streams(matchup.strength) |-> taken'[s]]
      /\ \A s \in Streams(matchup.strength) : IsSequence(taken'[s]) /\ Distinct(taken'[s])
      /\ taken'[<<1, 0>>] = taken[<<1, 0>>] \o what
      /\ \A s \in Streams(matchup.strength) \ {<<1, 0>>} : taken'[s] = taken[s]
  BY <1>1, <1>6, <1>8, StreamsThere, TakeKeeps
<1>10. ASSUME NEW k \in DOMAIN taken'[<<1, 0>>]
       PROVE  \E i \in DOMAIN Components : i < stage' /\ taken'[<<1, 0>>][k][1] = Components[i]
  <2>1. \/ \E i \in DOMAIN taken[<<1, 0>>] : taken'[<<1, 0>>][k] = taken[<<1, 0>>][i]
        \/ \E j \in DOMAIN what : taken'[<<1, 0>>][k] = what[j]
    <3>1. IsSequence(taken[<<1, 0>>]) /\ Distinct(taken[<<1, 0>>])
      BY StreamsThere DEF TakenInv
    <3> QED BY <1>6, <1>8, <1>9, <3>1, ConcatDistinct
  <2>2. CASE \E i \in DOMAIN taken[<<1, 0>>] : taken'[<<1, 0>>][k] = taken[<<1, 0>>][i]
    <3>1. PICK i \in DOMAIN taken[<<1, 0>>] : taken'[<<1, 0>>][k] = taken[<<1, 0>>][i]
      BY <2>2
    <3>2. PICK m \in DOMAIN Components :
            m < stage /\ taken[<<1, 0>>][i][1] = Components[m]
      BY DEF TakenInv
    <3> QED BY <1>1, <1>2, <3>1, <3>2
  <2>3. CASE \E j \in DOMAIN what : taken'[<<1, 0>>][k] = what[j]
    BY <1>1, <1>3, <1>7, <2>3
  <2> QED BY <2>1, <2>2, <2>3
<1>11. TakenInv'
  <2>1. {<<2, 0>>, <<3, 0>>, <<5, 1>>} \subseteq Streams(matchup.strength) \ {<<1, 0>>}
    BY StreamsThere
  <2>2. matchup.strength => <<7, 0>> \in Streams(matchup.strength) \ {<<1, 0>>}
    <3>1. <<7, 0>> # <<1, 0>> OBVIOUS
    <3> QED BY <3>1, StreamsThere
  <2>3. /\ taken'[<<2, 0>>] = taken[<<2, 0>>] /\ taken'[<<3, 0>>] = taken[<<3, 0>>]
        /\ taken'[<<5, 1>>] = taken[<<5, 1>>]
        /\ matchup.strength => taken'[<<7, 0>>] = taken[<<7, 0>>]
    BY <1>9, <2>1, <2>2
  <2>4. /\ stage <= Len(Components) /\ stage' = stage + 1 /\ matchup' = matchup
        /\ stage \in Nat
    BY <1>1
  <2>5. /\ taken[<<2, 0>>] = <<>> /\ taken[<<3, 0>>] = <<>> /\ taken[<<5, 1>>] = <<>>
        /\ matchup.strength => taken[<<7, 0>>] = <<>>
    BY <1>2, <2>4 DEF TakenInv
  <2> HIDE DEF SamplingInv
  <2> QED BY <1>9, <1>10, <2>3, <2>4, <2>5 DEF TakenInv
<1>12. TermsInv'
  <2>1. PICK S : terms \in Seq(S)
    BY DEF TermsInv, IsSequence
  <2> DEFINE U == S \cup {added}
  <2> HIDE DEF added
  <2>2. terms \in Seq(U) /\ added \in U
    BY <2>1
  <2>3. /\ terms' \in Seq(U) /\ Len(terms') = Len(terms) + 1
        /\ \A i \in 1..Len(terms) : terms'[i] = terms[i]
        /\ terms'[Len(terms) + 1] = added
    BY <1>1, <2>2, AppendProperties
  <2>4. Len(terms) = stage - 1
    BY <1>1 DEF TermsInv
  <2>5. DOMAIN terms' = 1..stage /\ DOMAIN terms = 1..(stage - 1) /\ Len(terms') = stage
    BY <2>2, <2>3, <2>4
  <2>6. ASSUME NEW i \in DOMAIN terms'
        PROVE  terms'[i] =
                 [x \in Effects(Components[i]) \X Sides |-> Term(Components[i], x[1], x[2])']
    <3> DEFINE before == [x \in Effects(Components[i]) \X Sides |-> Term(Components[i], x[1], x[2])]
               after == [x \in Effects(Components[i]) \X Sides |-> Term(Components[i], x[1], x[2])']
    <3>1. before = after
      BY <1>1, TermUnchanged
    <3>2. CASE i = stage
      BY <2>3, <2>4, <3>1, <3>2 DEF added
    <3>3. CASE i \in 1..(stage - 1)
      <4>1. terms'[i] = terms[i]
        BY <2>3, <2>4, <3>3
      <4>2. terms[i] = before
        BY <2>5, <3>3 DEF TermsInv
      <4> QED BY <3>1, <4>1, <4>2
    <3> QED BY <2>5, <3>2, <3>3
  <2>7. IsSequence(terms')
    BY <2>3 DEF IsSequence
  <2>8. stage' = stage + 1 /\ stage <= Len(Components)
    BY <1>1
  <2>9. Len(terms') <= Len(Components) /\ (stage' <= Len(Components) => Len(terms') = stage' - 1)
    BY <1>2, <2>5, <2>8
  <2>10. \A i \in DOMAIN terms' : terms'[i] =
           [x \in Effects(Components[i]) \X Sides |-> Term(Components[i], x[1], x[2])']
    BY <2>6
  <2> HIDE DEF SamplingInv, U
  <2> QED BY <2>7, <2>9, <2>10, Zenon DEF TermsInv
<1> QED BY <1>1, <1>11, <1>12

LEMMA TermsKept ==
  ASSUME TermsInv, matchup' = matchup, terms' = terms, ~ (stage' <= Len(Components))
  PROVE  TermsInv'
<1>1. ASSUME NEW i \in DOMAIN terms
      PROVE  terms'[i] =
               [x \in Effects(Components[i]) \X Sides |-> Term(Components[i], x[1], x[2])']
  <2>1. [x \in Effects(Components[i]) \X Sides |-> Term(Components[i], x[1], x[2])] =
        [x \in Effects(Components[i]) \X Sides |-> Term(Components[i], x[1], x[2])']
    BY TermUnchanged
  <2> QED BY <2>1 DEF TermsInv
<1>2. IsSequence(terms') /\ Len(terms') <= Len(Components)
  BY DEF TermsInv
<1>3. \A i \in DOMAIN terms' : terms'[i] =
        [x \in Effects(Components[i]) \X Sides |-> Term(Components[i], x[1], x[2])']
  BY <1>1
<1> QED BY <1>2, <1>3, Zenon DEF TermsInv

LEMMA FormKeeps ==
  ASSUME SamplingInv, NEW n \in {1, 2}, NEW stream,
         stream = (IF n = 1 THEN <<2, 0>> ELSE <<3, 0>>), SampleForm(n, stream)
  PROVE  SamplingInv'
<1> USE DEF SamplingInv
<1> DEFINE what == [i \in DOMAIN Components |-> <<Components[i], "form", {}>>]
<1>1. /\ stage = Len(Components) + n /\ Take(stream, what) /\ stage' = stage + 1
      /\ matchup' = matchup /\ terms' = terms
  BY DEF SampleForm, Later
<1>2. Len(Components) \in Nat /\ DOMAIN Components = 1..Len(Components)
  BY SamplingAssumption
<1>3. IsSequence(what) /\ Distinct(what)
  <2>1. what \in Seq({<<Components[i], "form", {}>> : i \in DOMAIN Components})
    BY <1>2
  <2>2. Distinct(what)
    BY SamplingAssumption DEF Distinct
  <2> QED BY <2>1, <2>2 DEF IsSequence
<1> HIDE DEF what
<1>4. stream \in Streams(matchup.strength) /\ taken[stream] = <<>>
  BY <1>1, <1>2, StreamsThere DEF TakenInv
<1>5. /\ taken' = [s \in Streams(matchup.strength) |-> taken'[s]]
      /\ \A s \in Streams(matchup.strength) : IsSequence(taken'[s]) /\ Distinct(taken'[s])
      /\ \A s \in Streams(matchup.strength) \ {stream} : taken'[s] = taken[s]
  BY <1>1, <1>3, <1>4, ShortSequences, TakeKeeps
<1>6. /\ taken'[<<1, 0>>] = taken[<<1, 0>>] /\ taken'[<<5, 1>>] = taken[<<5, 1>>]
      /\ n = 1 => taken'[<<3, 0>>] = taken[<<3, 0>>]
      /\ matchup.strength => taken'[<<7, 0>>] = taken[<<7, 0>>]
  <2>1. /\ stream # <<1, 0>> /\ stream # <<5, 1>> /\ stream # <<7, 0>>
        /\ n = 1 => stream # <<3, 0>>
    OBVIOUS
  <2> QED BY <1>5, <2>1, StreamsThere
<1>7. /\ taken[<<5, 1>>] = <<>> /\ (n = 1 => taken[<<3, 0>>] = <<>>)
      /\ matchup.strength => taken[<<7, 0>>] = <<>>
      /\ \A k \in DOMAIN taken[<<1, 0>>] : \E i \in DOMAIN Components :
           i < stage' /\ taken[<<1, 0>>][k][1] = Components[i]
  <2>1. /\ taken[<<5, 1>>] = <<>> /\ (n = 1 => taken[<<3, 0>>] = <<>>)
        /\ matchup.strength => taken[<<7, 0>>] = <<>>
    BY <1>1, <1>2 DEF TakenInv
  <2>2. ASSUME NEW k \in DOMAIN taken[<<1, 0>>]
        PROVE  \E i \in DOMAIN Components :
                 i < stage' /\ taken[<<1, 0>>][k][1] = Components[i]
    <3>1. PICK i \in DOMAIN Components : i < stage /\ taken[<<1, 0>>][k][1] = Components[i]
      BY DEF TakenInv
    <3> QED BY <1>1, <1>2, <3>1
  <2> QED BY <2>1, <2>2
<1>8. TakenInv'
  <2>1. stage' = Len(Components) + n + 1
    BY <1>1, <1>2
  <2> HIDE DEF SamplingInv
  <2> QED BY <1>1, <1>2, <1>5, <1>6, <1>7, <2>1 DEF TakenInv
<1>9. TermsInv'
  <2>1. ~ (stage' <= Len(Components))
    BY <1>1, <1>2
  <2> QED BY <1>1, <2>1, TermsKept
<1> QED BY <1>1, <1>2, <1>8, <1>9

LEMMA StrengthKeeps == SamplingInv /\ SampleStrength => SamplingInv'
<1> SUFFICES ASSUME SamplingInv, SampleStrength PROVE SamplingInv' OBVIOUS
<1> USE DEF SamplingInv
<1> DEFINE draw == <<"strength", "form", {}>>
<1>1. /\ stage = Len(Components) + 3 /\ stage' = stage + 1 /\ matchup' = matchup
      /\ terms' = terms
      /\ matchup.strength => Take(<<7, 0>>, <<draw>>)
      /\ ~ matchup.strength => taken' = taken
  BY DEF SampleStrength, Later
<1> HIDE DEF draw
<1>2. Len(Components) \in Nat
  BY SamplingAssumption
<1>3. /\ taken' = [s \in Streams(matchup.strength) |-> taken'[s]]
      /\ \A s \in Streams(matchup.strength) : IsSequence(taken'[s]) /\ Distinct(taken'[s])
      /\ \A s \in Streams(matchup.strength) \ {<<7, 0>>} : taken'[s] = taken[s]
  <2>1. CASE matchup.strength
    <3>1. <<7, 0>> \in Streams(matchup.strength) /\ taken[<<7, 0>>] = <<>>
      <4>1. Len(Components) + 3 >= stage
        BY <1>1, <1>2
      <4>2. taken[<<7, 0>>] = <<>>
        BY <2>1, <4>1 DEF TakenInv
      <4>3. <<7, 0>> \in Streams(matchup.strength)
        BY <2>1, StreamsThere, Zenon
      <4> QED BY <4>2, <4>3
    <3>2. IsSequence(<<draw>>) /\ Distinct(<<draw>>) /\ Apart(<<>>, <<draw>>)
      BY ShortSequences
    <3> QED BY <1>1, <2>1, <3>1, <3>2, TakeKeeps
  <2>2. CASE ~ matchup.strength
    BY <1>1, <2>2 DEF TakenInv
  <2> QED BY <2>1, <2>2
<1>4. taken'[<<1, 0>>] = taken[<<1, 0>>] /\ taken'[<<5, 1>>] = taken[<<5, 1>>]
  <2>1. <<1, 0>> # <<7, 0>> /\ <<5, 1>> # <<7, 0>>
    OBVIOUS
  <2> QED BY <1>3, <2>1, StreamsThere
<1>5. taken[<<5, 1>>] = <<>>
  BY <1>1, <1>2 DEF TakenInv
<1>6. ASSUME NEW k \in DOMAIN taken[<<1, 0>>]
      PROVE  \E i \in DOMAIN Components :
               i < stage' /\ taken[<<1, 0>>][k][1] = Components[i]
  <2>1. PICK i \in DOMAIN Components : i < stage /\ taken[<<1, 0>>][k][1] = Components[i]
    BY DEF TakenInv
  <2> QED BY <1>1, <1>2, <2>1, SamplingAssumption
<1>7. TakenInv'
  <2>1. stage' = Len(Components) + 4
    BY <1>1, <1>2
  <2> HIDE DEF SamplingInv
  <2> QED BY <1>1, <1>2, <1>3, <1>4, <1>5, <1>6, <2>1 DEF TakenInv
<1>8. TermsInv'
  BY <1>1, <1>2, TermsKept
<1> QED BY <1>1, <1>2, <1>7, <1>8

LEMMA RetirementKeeps == SamplingInv /\ SampleRetirement => SamplingInv'
<1> SUFFICES ASSUME SamplingInv, SampleRetirement PROVE SamplingInv' OBVIOUS
<1> USE DEF SamplingInv
<1> DEFINE scenario(p) == IF matchup.scenarios[p] > 1 THEN <<<<p, "scenario", {}>>>> ELSE <<>>
           incidence(p) == IF matchup.scenarios[p] > 0 THEN <<<<p, "incidence", {}>>>> ELSE <<>>
           what == scenario("a") \o scenario("b") \o incidence("a") \o incidence("b")
<1>1. /\ stage = Len(Components) + 4 /\ stage' = stage + 1 /\ matchup' = matchup
      /\ terms' = terms /\ Take(<<5, 1>>, what)
  BY DEF SampleRetirement, Later
<1>2. Len(Components) \in Nat
  BY SamplingAssumption
<1>3. ASSUME NEW p \in Sides
      PROVE  /\ IsSequence(scenario(p)) /\ Distinct(scenario(p))
             /\ \A k \in DOMAIN scenario(p) : scenario(p)[k] = <<p, "scenario", {}>>
             /\ IsSequence(incidence(p)) /\ Distinct(incidence(p))
             /\ \A k \in DOMAIN incidence(p) : incidence(p)[k] = <<p, "incidence", {}>>
  <2>1. ASSUME NEW x
        PROVE  /\ IsSequence(<<x>>) /\ Distinct(<<x>>) /\ \A k \in DOMAIN <<x>> : <<x>>[k] = x
               /\ IsSequence(<<>>) /\ Distinct(<<>>) /\ DOMAIN <<>> = {}
    BY ShortSequences
  <2> QED BY <2>1
<1> HIDE DEF scenario, incidence
<1> DEFINE s == scenario("a") \o scenario("b")
           t == s \o incidence("a")
<1>4. "a" \in Sides /\ "b" \in Sides
  BY DEF Sides
<1>5. /\ IsSequence(s) /\ Distinct(s)
      /\ \A k \in DOMAIN s : s[k] \in {<<"a", "scenario", {}>>, <<"b", "scenario", {}>>}
  <2>1. Apart(scenario("a"), scenario("b"))
    BY <1>3, <1>4 DEF Apart
  <2> QED BY <1>3, <1>4, <2>1, ConcatDistinct
<1> HIDE DEF s
<1>6. /\ IsSequence(t) /\ Distinct(t)
      /\ \A k \in DOMAIN t : t[k] \in {<<"a", "scenario", {}>>, <<"b", "scenario", {}>>,
                                       <<"a", "incidence", {}>>}
  <2>1. Apart(s, incidence("a"))
    BY <1>3, <1>4, <1>5 DEF Apart
  <2> QED BY <1>3, <1>4, <1>5, <2>1, ConcatDistinct
<1>7. what = t \o incidence("b")
  BY DEF s
<1> HIDE DEF t, what
<1>8. IsSequence(what) /\ Distinct(what)
  <2>1. Apart(t, incidence("b"))
    BY <1>3, <1>4, <1>6 DEF Apart
  <2> QED BY <1>3, <1>4, <1>6, <1>7, <2>1, ConcatDistinct
<1>9. <<5, 1>> \in Streams(matchup.strength) /\ taken[<<5, 1>>] = <<>>
  BY <1>1, <1>2, StreamsThere DEF TakenInv
<1>10. /\ taken' = [x \in Streams(matchup.strength) |-> taken'[x]]
       /\ \A x \in Streams(matchup.strength) : IsSequence(taken'[x]) /\ Distinct(taken'[x])
       /\ \A x \in Streams(matchup.strength) \ {<<5, 1>>} : taken'[x] = taken[x]
  BY <1>1, <1>8, <1>9, ShortSequences, TakeKeeps
<1>11. taken'[<<1, 0>>] = taken[<<1, 0>>]
  <2>1. <<1, 0>> # <<5, 1>>
    OBVIOUS
  <2> QED BY <1>10, <2>1, StreamsThere
<1>12. ASSUME NEW k \in DOMAIN taken[<<1, 0>>]
       PROVE  \E i \in DOMAIN Components :
                i < stage' /\ taken[<<1, 0>>][k][1] = Components[i]
  <2>1. PICK i \in DOMAIN Components : i < stage /\ taken[<<1, 0>>][k][1] = Components[i]
    BY DEF TakenInv
  <2> QED BY <1>1, <1>2, <2>1, SamplingAssumption
<1>13. TakenInv'
  <2>1. stage' = Len(Components) + 5
    BY <1>1, <1>2
  <2> HIDE DEF SamplingInv
  <2> QED BY <1>1, <1>2, <1>10, <1>11, <1>12, <2>1 DEF TakenInv
<1>14. TermsInv'
  BY <1>1, <1>2, TermsKept
<1> QED BY <1>1, <1>2, <1>13, <1>14

LEMMA InvStep == SamplingInv /\ [SamplingNext]_samplingVars => SamplingInv'
<1> SUFFICES ASSUME SamplingInv, [SamplingNext]_samplingVars PROVE SamplingInv' OBVIOUS
<1>1. CASE SampleComponent
  BY <1>1, ComponentKeeps
<1>2. CASE SampleForm(1, <<2, 0>>)
  BY <1>2, FormKeeps
<1>3. CASE SampleForm(2, <<3, 0>>)
  BY <1>3, FormKeeps
<1>4. CASE SampleStrength
  BY <1>4, StrengthKeeps
<1>5. CASE SampleRetirement
  BY <1>5, RetirementKeeps
<1>6. CASE UNCHANGED samplingVars
  <2>1. matchup' = matchup /\ stage' = stage /\ taken' = taken /\ terms' = terms
    BY <1>6 DEF samplingVars
  <2>2. TermsInv'
    <3>1. ASSUME NEW i \in DOMAIN terms
          PROVE  terms'[i] =
            [x \in Effects(Components[i]) \X Sides |-> Term(Components[i], x[1], x[2])']
      <4>1. [x \in Effects(Components[i]) \X Sides |-> Term(Components[i], x[1], x[2])] =
            [x \in Effects(Components[i]) \X Sides |-> Term(Components[i], x[1], x[2])']
        BY <2>1, TermUnchanged
      <4> QED BY <2>1, <4>1 DEF TermsInv, SamplingInv
    <3>2. \A i \in DOMAIN terms' : terms'[i] =
            [x \in Effects(Components[i]) \X Sides |-> Term(Components[i], x[1], x[2])']
      BY <2>1, <3>1
    <3>3. IsSequence(terms') /\ Len(terms') <= Len(Components)
          /\ (stage' <= Len(Components) => Len(terms') = stage' - 1)
      BY <2>1 DEF TermsInv, SamplingInv
    <3> QED BY <3>2, <3>3, Zenon DEF TermsInv
  <2> QED BY <2>1, <2>2 DEF SamplingInv, TakenInv
<1> QED BY <1>1, <1>2, <1>3, <1>4, <1>5, <1>6 DEF SamplingNext

LEMMA InvGivesEffects == SamplingInv => EffectsEnterOnce
<1> SUFFICES ASSUME SamplingInv PROVE EffectsEnterOnce OBVIOUS
<1>1. ASSUME NEW i \in DOMAIN terms, NEW e \in Effects(Components[i]), NEW server \in Sides
      PROVE  LET term == terms[i][<<e, server>>]
                 c == Components[i]
             IN  /\ term.theta + term.adjusted + term.fresh = Coefficient(e, server)
                 /\ Cardinality({s \in DOMAIN term : term[s] # 0}) <= 1
                 /\ Changes(c, e) => term.theta = 0 /\ term.fresh = 0
                 /\ ~ Changes(c, e) /\ Seen(c, e) => term.adjusted = 0
  <2>1. terms[i] = [x \in Effects(Components[i]) \X Sides |-> Term(Components[i], x[1], x[2])]
    BY DEF SamplingInv, TermsInv
  <2>2. terms[i][<<e, server>>] = Term(Components[i], e, server)
    BY <2>1
  <2>3. matchup \in Matchups
    BY DEF SamplingInv
  <2> QED BY <2>2, <2>3, TermHasOneSource
<1>2. ASSUME NEW stream \in DOMAIN taken, NEW i \in DOMAIN taken[stream],
             NEW j \in DOMAIN taken[stream], taken[stream][i] = taken[stream][j]
      PROVE  i = j
  BY <1>2 DEF SamplingInv, TakenInv, Distinct
<1> QED BY <1>1, <1>2 DEF EffectsEnterOnce

\* For any components and any distribution of a match, every effect enters the
\* parameters of a path once and from one source, and no draw is used twice.
THEOREM EffectsAlwaysEnterOnce == SamplingSpec => []EffectsEnterOnce
<1>1. SamplingSpec => []SamplingInv
  BY InvInit, InvStep, PTL DEF SamplingSpec
<1> QED BY <1>1, InvGivesEffects, PTL
=============================================================================
