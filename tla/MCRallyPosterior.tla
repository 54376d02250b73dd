-------------------------- MODULE MCRallyPosterior --------------------------
(* Two updaters and three matches: m1 is in the static fit, m2 was available *)
(* after m3 but comes before it, and a later capture may have other contents *)
(* for m1 and m2, which another run may or may not accept as equivalent.     *)
EXTENDS RallyPosterior, SequencesExt, TLC

MCFirstSeen == [m \in {"m1"} |-> "old"]
MCFirstCutoff == 2
MCCutoffs == 2..9

MCCandidates ==
  [match : {"m1"}, source : {"old"}, available : {1}] \cup
  [match : {"m1"}, source : {"new"}, available : {6}] \cup
  [match : {"m2"}, source : {"old"}, available : {5}] \cup
  [match : {"m2"}, source : {"new"}, available : {6}] \cup
  [match : {"m3"}, source : {"old"}, available : {3}]
Held(match) == {<<>>} \cup {<<c>> : c \in {c \in MCCandidates : c.match = match}}
MCCaptures ==
  [candidates : {f \o g \o h : f \in Held("m1"), g \in Held("m2"), h \in Held("m3")},
   equivalent : {{}, {<<"m1", "old">>, <<"m2", "old">>}}]
MCCaptureChoices == [Updaters -> MCCaptures]
UpdaterSymmetry == Permutations(Updaters)
=============================================================================
