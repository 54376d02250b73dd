--------------------------- MODULE MatchSampling ----------------------------
(***************************************************************************)
(* The random draws of one path before its first point: the parameters of  *)
(* the five serve components with the C6 adjustment for players who were   *)
(* away, the form of the two players, strength, and retirement.            *)
(*                                                                         *)
(* What is kept of a draw is where its value comes from: the stored        *)
(* posterior of the component ("theta"), the adjusted Gaussian that        *)
(* replaces it ("adjusted") or a draw of its own for an effect the fit has *)
(* not seen ("fresh").  Every stream counts what was taken from it.        *)
(***************************************************************************)
EXTENDS SeedTree, Integers, FiniteSets

CONSTANTS Components,   \* F, A, Q1, D, Q2 in the order of _COMPONENT_ORDER
          WithReturner, \* those the returner has effects in: A, Q1, Q2
          Matchups      \* what the estimated distributions may say

ASSUME SamplingAssumption ==
  /\ Components \in Seq({Components[i] : i \in DOMAIN Components})
  /\ \A i, j \in DOMAIN Components : Components[i] = Components[j] => i = j
  /\ \A m \in Matchups : m.shrunk \cup m.inflated \subseteq {"a", "b"}

VARIABLES matchup,   \* the distribution of this path
          stage,     \* how far the path is
          taken,     \* what each stream has given, in order
          terms      \* per component, effect and server: the sources it adds

samplingVars == <<matchup, stage, taken, terms>>

Sides == {"a", "b"}
Opponent(side) == IF side = "a" THEN "b" ELSE "a"
ServerRoles == {"server", "server hard"}
ReturnerRoles == {"returner", "returner hard"}
HardRoles == {"server hard", "returner hard"}

\* The effects of a component: the coordinates of each player that C6 may
\* touch (_AFFECTED_ROLES), and the one of the event, which both servers add.
Affected(component) ==
  Sides \X (IF component \in WithReturner THEN ServerRoles \cup ReturnerRoles
                                          ELSE ServerRoles)
Event == <<"both", "event">>
Effects(component) == Affected(component) \cup {Event}
Seen(component, effect) == <<component, effect>> \notin matchup.unseen

\* _C6EffectPlan.changes_draw: a variance is inflated, or the mean of a hard
\* deviation that is not zero is shrunk.
Changes(component, effect) ==
  \/ effect[1] \in matchup.inflated
  \/ /\ effect[2] \in HardRoles
     /\ effect[1] \in matchup.shrunk
     /\ Seen(component, effect)
ChangesDraw(component) == \E e \in Affected(component) : Changes(component, e)

\* _plan_direction_coefficient, and the signs of the linear predictor
Coefficient(effect, server) ==
  CASE effect = Event -> 1
    [] effect[2] \in ServerRoles /\ effect[1] = server -> 1
    [] effect[2] \in ReturnerRoles /\ effect[1] = Opponent(server) -> -1
    [] OTHER -> 0

\* _sample_c6_component_posterior draws the unseen effects of the players of
\* a changed component with the rest, and _shared_unseen_effects those that
\* are left, once for both servers.
\* Fault: the values drawn with the rest are forgotten.
NoPresets(component) == {}
Presets(component) ==
  IF ChangesDraw(component)
  THEN {e \in Affected(component) : ~ Seen(component, e)} ELSE {}
Fresh(component) ==
  {e \in Effects(component) : ~ Seen(component, e)} \ Presets(component)

Source(s, n) == [theta |-> IF s = "theta" THEN n ELSE 0,
                 adjusted |-> IF s = "adjusted" THEN n ELSE 0,
                 fresh |-> IF s = "fresh" THEN n ELSE 0]
\* The term of the projection at the sampled parameters
Projected(component, effect, server) ==
  Source(CASE Seen(component, effect) -> "theta"
           [] effect \in Presets(component) -> "adjusted"
           [] OTHER -> "fresh", Coefficient(effect, server))
\* _c6_projection_adjustment: the adjusted value of a seen effect in the
\* place of its value in theta.
Delta(component, effect, server) ==
  LET n == IF Changes(component, effect) /\ Seen(component, effect)
           THEN Coefficient(effect, server) ELSE 0
  IN  [theta |-> -n, adjusted |-> n, fresh |-> 0]
Term(component, effect, server) ==
  LET p == Projected(component, effect, server)
      d == Delta(component, effect, server)
  IN  [s \in DOMAIN p |-> p[s] + d[s]]

-----------------------------------------------------------------------------
SamplingInit ==
  /\ matchup \in Matchups
  /\ stage = 1
  /\ taken = [s \in Streams(matchup.strength) |-> <<>>]
  /\ terms = <<>>

Take(stream, what) == taken' = [taken EXCEPT ![stream] = @ \o what]

\* One component in sample_matchup_parameters: the whole vector, then the
\* effects still missing.
SampleComponent ==
  /\ stage <= Len(Components)
  /\ LET c == Components[stage]
     IN  /\ Take(<<1, 0>>, <<<<c, "vector", Presets(c)>>>> \o
                           (IF Fresh(c) = {} THEN <<>>
                            ELSE <<<<c, "fresh", Fresh(c)>>>>))
         /\ terms' = Append(terms,
              [x \in Effects(c) \X Sides |-> Term(c, x[1], x[2])])
  /\ stage' = stage + 1
  /\ UNCHANGED matchup

Later(n) == stage = Len(Components) + n
\* sample_serve_performance of each player: one beta per component
SampleForm(n, stream) ==
  /\ Later(n)
  /\ Take(stream, [i \in DOMAIN Components |-> <<Components[i], "form", {}>>])
  /\ stage' = stage + 1
  /\ UNCHANGED <<matchup, terms>>

\* integrate_serve_performance, where the snapshot has strength
SampleStrength ==
  /\ Later(3)
  /\ IF matchup.strength THEN Take(<<7, 0>>, <<<<"strength", "form", {}>>>>)
                         ELSE UNCHANGED taken
  /\ stage' = stage + 1
  /\ UNCHANGED <<matchup, terms>>

\* Both scenarios before either incidence; one scenario needs no draw.
\* matchup.scenarios is how many the mixture of each player has, and 0 where
\* the snapshot has no retirement model.
SampleRetirement ==
  /\ Later(4)
  /\ LET scenario(p) == IF matchup.scenarios[p] > 1
                        THEN <<<<p, "scenario", {}>>>> ELSE <<>>
         incidence(p) == IF matchup.scenarios[p] > 0
                         THEN <<<<p, "incidence", {}>>>> ELSE <<>>
     IN  Take(<<5, 1>>, scenario("a") \o scenario("b")
                        \o incidence("a") \o incidence("b"))
  /\ stage' = stage + 1
  /\ UNCHANGED <<matchup, terms>>

SamplingNext ==
  \/ SampleComponent
  \/ SampleForm(1, <<2, 0>>) \/ SampleForm(2, <<3, 0>>)
  \/ SampleStrength \/ SampleRetirement
SamplingSpec == SamplingInit /\ [][SamplingNext]_samplingVars

-----------------------------------------------------------------------------
\* Every effect enters a serving direction once, with its sign and from one
\* source: the adjusted Gaussian for all that C6 changes, theta for what else
\* the fit has seen.  Nothing is drawn twice from a stream.
EffectsEnterOnce ==
  /\ \A i \in DOMAIN terms : \A e \in Effects(Components[i]), server \in Sides :
       LET term == terms[i][<<e, server>>]
           c == Components[i]
       IN  /\ term.theta + term.adjusted + term.fresh = Coefficient(e, server)
           /\ Cardinality({s \in DOMAIN term : term[s] # 0}) <= 1
           /\ Changes(c, e) => term.theta = 0 /\ term.fresh = 0
           /\ ~ Changes(c, e) /\ Seen(c, e) => term.adjusted = 0
  /\ \A stream \in DOMAIN taken : \A i, j \in DOMAIN taken[stream] :
       taken[stream][i] = taken[stream][j] => i = j
=============================================================================
