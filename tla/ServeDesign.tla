----------------------------- MODULE ServeDesign -----------------------------
(***************************************************************************)
(* The parameters of one fitted serve component, as _build_design lays     *)
(* them out, and the two ways in which the package reads them: row by row  *)
(* while it fits (_eta), and for one future match when it predicts         *)
(* (_linear_terms_at_parameters).                                          *)
(*                                                                         *)
(* A block of n levels has n - 1 free parameters, since its last level is  *)
(* the reference; the effect of a level is its parameter (0 for the        *)
(* reference) less the mean of all n.  A linear predictor is kept as the   *)
(* whole-number coefficients of its parameters: those of a block are       *)
(* multiplied by n.                                                        *)
(***************************************************************************)
EXTENDS Integers, Sequences, FiniteSets, FiniteSetsExt, SequencesExt

CONSTANTS Rank,             \* the alphabet: of players, surfaces and events
          OpponentComponents,
          EventComponents,  \* config.context.event_year_effect_components
          IndoorHard        \* config.context.include_indoor_hard

NotKnown == "not known"

ASSUME DesignAssumption ==
  /\ \A x \in DOMAIN Rank : Rank[x] \in Nat
  /\ \A x, y \in DOMAIN Rank : Rank[x] = Rank[y] => x = y
  /\ IndoorHard \in BOOLEAN
\* What has a place each, in the order of their places.
InOrder(things, place) ==
  CHOOSE s \in [1..Cardinality(things) -> things] :
    \A k, l \in DOMAIN s : k < l => place[s[k]] < place[s[l]]
Sorted(names) == InOrder(names, Rank)

-----------------------------------------------------------------------------
\* What the rows of a block are told apart by, and which rows are in it.
LevelOf(role, row) ==
  CASE role \in {"server_global", "server_surface"} -> row.player
    [] role \in {"returner_global", "returner_surface"} -> row.opponent
    [] role = "event_year" -> row.event
InBlock(block, row) ==
  /\ block.surface # NotKnown => row.surface = block.surface
  /\ LevelOf(block.role, row) \in Range(block.levels)
GroupOf(role) ==
  IF role \in {"server_surface", "returner_surface"} THEN "surface" ELSE role

BlockOver(rows, role, surface) ==
  LET on == {r \in rows : surface # NotKnown => r.surface = surface}
  IN  [role |-> role, surface |-> surface, group |-> GroupOf(role),
       levels |-> Sorted({LevelOf(role, r) : r \in on} \ {NotKnown})]

BlocksOf(rows, c) ==
  LET surfaces == Sorted({r.surface : r \in rows})
      Sided(server, returner, surface) ==
        <<BlockOver(rows, server, surface)>>
          \o (IF c \in OpponentComponents
              THEN <<BlockOver(rows, returner, surface)>> ELSE <<>>)
      events == BlockOver(rows, "event_year", NotKnown)
  IN  Sided("server_global", "returner_global", NotKnown)
        \o FlattenSeq([i \in DOMAIN surfaces |->
                         Sided("server_surface", "returner_surface", surfaces[i])])
        \o (IF c \in EventComponents /\ events.levels # <<>> THEN <<events>> ELSE <<>>)

FixedNames(rows) ==
  LET surfaces == Sorted({r.surface : r \in rows} \ {"Hard"})
  IN  <<<<"intercept">>>>
        \o [i \in DOMAIN surfaces |-> <<"surface_fixed", surfaces[i]>>]
        \o (IF IndoorHard THEN <<<<"indoor_hard">>>> ELSE <<>>)

FreeNames(block) ==
  [k \in 1..(Len(block.levels) - 1) |-> <<"z", block.role, block.surface, block.levels[k]>>]

\* dict.fromkeys: each group once, where it first occurs.
GroupsOf(blocks) ==
  LET groups == {b.group : b \in Range(blocks)}
  IN  InOrder(groups, [g \in groups |-> Min({i \in DOMAIN blocks : blocks[i].group = g})])

\* The parameter vector, and the indices under which everything finds its own.
Design(rows, c) ==
  LET blocks == BlocksOf(rows, c)
      fixed == FixedNames(rows)
      groups == GroupsOf(blocks)
      Names(n) == fixed \o FlattenSeq([i \in 1..n |-> FreeNames(blocks[i])])
      all == Names(Len(blocks))
  IN  [component |-> c,
       names |-> all \o [i \in DOMAIN groups |-> <<"log_scale", groups[i]>>]
                     \o <<<<"log_kappa">>>>,
       fixed |-> DOMAIN fixed,
       blocks |-> [i \in DOMAIN blocks |->
          [role |-> blocks[i].role, surface |-> blocks[i].surface,
           group |-> blocks[i].group, levels |-> blocks[i].levels,
           free |-> [k \in 1..(Len(blocks[i].levels) - 1) |-> Len(Names(i - 1)) + k],
           scale |-> Len(all) + CHOOSE j \in DOMAIN groups : groups[j] = blocks[i].group]]]

\* fit_is_coherent and the validators of the blocks: what is checked again
\* whenever a fit is read or predicts.
Coherent(d) ==
  LET kappa == {i \in DOMAIN d.names : d.names[i] = <<"log_kappa">>}
      free == UNION {Range(b.free) : b \in Range(d.blocks)}
      scales == {b.scale : b \in Range(d.blocks)}
      Count(role) == Cardinality({i \in DOMAIN d.blocks : d.blocks[i].role = role})
  IN  /\ IsInjective(d.names)
      /\ \A b \in Range(d.blocks) :
           /\ b.levels # <<>> /\ Len(b.free) = Len(b.levels) - 1
           /\ \A k, l \in DOMAIN b.levels : k < l => Rank[b.levels[k]] < Rank[b.levels[l]]
           /\ d.names[b.scale] = <<"log_scale", b.group>>
           /\ \A i \in Range(b.free) : SubSeq(d.names[i], 1, 3) = <<"z", b.role, b.surface>>
      /\ \A x, y \in DOMAIN d.blocks :
           x # y => Range(d.blocks[x].free) \cap Range(d.blocks[y].free) = {}
      /\ d.fixed \cap free = {} /\ d.fixed \cap scales = {} /\ free \cap scales = {}
      /\ d.fixed \cup free \cup scales \cup kappa = DOMAIN d.names
      /\ Count("server_global") = 1
      /\ Count("returner_global") = IF d.component \in OpponentComponents THEN 1 ELSE 0

-----------------------------------------------------------------------------
Sign(role) == IF role \in {"returner_global", "returner_surface"} THEN -1 ELSE 1

\* The free parameter of a level: none for the reference or a stranger.
FreeOf(block, level) ==
  {block.free[k] : k \in {l \in DOMAIN block.free : block.levels[l] = level}}

\* While fitting: the parameter of the row's level, less the mean where the
\* row is in the block at all.
RowEffect(block, row) ==
  LET level == LevelOf(block.role, row)
      active == InBlock(block, row)
  IN  [i \in Range(block.free) |->
         Sign(block.role) * ((IF active /\ i \in FreeOf(block, level)
                              THEN Len(block.levels) ELSE 0)
                             - (IF active THEN 1 ELSE 0))]
RowFixed(row) ==
  {<<"intercept">>, <<"surface_fixed", row.surface>>}
    \cup (IF row.surface = "Hard" /\ row.indoor = "in" THEN {<<"indoor_hard">>} ELSE {})
RowTerms(d, row) ==
  [fixed |-> {i \in d.fixed : d.names[i] \in RowFixed(row)},
   blocks |-> [b \in DOMAIN d.blocks |-> RowEffect(d.blocks[b], row)]]

\* Fault: the reference is the first level.
FirstIsReference(block, level) ==
  LET seen == level \in Range(block.levels)
  IN  [i \in Range(block.free) |->
         IF ~ seen THEN 0
         ELSE (IF level # Head(block.levels) /\ i \in FreeOf(block, level)
               THEN Len(block.levels) ELSE 0) - 1]
\* While predicting: nothing of a level the fit has not seen.
LevelEffect(block, level) ==
  LET seen == level \in Range(block.levels)
  IN  [i \in Range(block.free) |->
         IF ~ seen THEN 0
         ELSE (IF i \in FreeOf(block, level) THEN Len(block.levels) ELSE 0) - 1]

\* The effects a match needs; an effect the fit has no estimate of is asked
\* for by name, to be drawn once for the match.
EffectsOf(d, match) ==
  {<<"server_global", NotKnown>>, <<"server_surface", match.surface>>}
    \cup (IF d.component \in OpponentComponents
          THEN {<<"returner_global", NotKnown>>, <<"returner_surface", match.surface>>}
          ELSE {})
    \cup (IF match.event # NotKnown /\ \E b \in Range(d.blocks) : b.role = "event_year"
          THEN {<<"event_year", NotKnown>>} ELSE {})
BlockNamed(d, effect) ==
  {b \in DOMAIN d.blocks : <<d.blocks[b].role, d.blocks[b].surface>> = effect}
Estimated(d, effect, match) ==
  \E b \in BlockNamed(d, effect) : LevelOf(effect[1], match) \in Range(d.blocks[b].levels)

\* A fit that knows of indoor courts says nothing of a match on a hard one
\* that may or may not be.
PredictionRefused(match) == IndoorHard /\ match.surface = "Hard" /\ match.indoor = NotKnown
MatchFixed(d, match) ==
  LET surface == <<"surface_fixed", match.surface>>
  IN  {<<"intercept">>} \cup (IF surface \in Range(d.names) THEN {surface} ELSE {})
        \cup (IF IndoorHard /\ match.surface = "Hard" /\ match.indoor = "in"
              THEN {<<"indoor_hard">>} ELSE {})
MatchTerms(d, match) ==
  [fixed |-> {i \in d.fixed : d.names[i] \in MatchFixed(d, match)},
   blocks |-> [b \in DOMAIN d.blocks |->
     LET block == d.blocks[b]
         used == <<block.role, block.surface>> \in EffectsOf(d, match)
     IN  [i \in Range(block.free) |->
            IF used THEN Sign(block.role) * LevelEffect(block, LevelOf(block.role, match))[i]
            ELSE 0]]]
UnseenEffects(d, match) ==
  {<<effect, LevelOf(effect[1], match), Sign(effect[1])>> :
     effect \in {e \in EffectsOf(d, match) : ~ Estimated(d, e, match)}}
=============================================================================
