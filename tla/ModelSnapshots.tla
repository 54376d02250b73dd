--------------------------- MODULE ModelSnapshots ---------------------------
(***************************************************************************)
(* Fitted models and the directories that keep them.  A fit is published   *)
(* under its content hash; a snapshot (snapshot.py) refers to fits by hash *)
(* and directory; and a series of commands, from the current build to the  *)
(* activation of v1.3, makes a directory with a snapshot of each tour from *)
(* the directory of the command before.  A command may stop at any point.  *)
(***************************************************************************)
EXTENDS Naturals, Sequences, FiniteSets

CONSTANTS Serve,        \* the serve components (F, A, Q1, D, Q2)
          TourOrder,    \* the tours in the order the commands go through them
          Fits,         \* [kind, tour, cutoff, run, converged]: all fits there may be
          LaterFits,    \* those not published yet at the start
          Exposed,      \* those whose directories others may remove or replace
          Configs,      \* hashes of framework configurations
          Missing,      \* no reference; nothing there; no command
          MaxBundles, MaxStopped   \* bounds of the model

\* The kinds of fits are apart, and their cutoffs are instants.
ASSUME FitKindAssumption ==
  /\ Serve # {} /\ Missing \notin Fits
  /\ Serve \cap {"retirement", "duration", "anchor", "integration"} = {}
  /\ \A x \in Fits : x.cutoff \in Nat

SnapshotTours == {TourOrder[i] : i \in 1..Len(TourOrder)}
\* Artifact roots: the shared one, those inside the directory of a duration
\* build, and the runtime copies inside the directory of v1.3.
Roots == {"shared", "duration build", "v1.3"}
OfKind(kind) == {x \in Fits : x.kind = kind}

VARIABLES held,       \* [<<root, name of directory>> -> the fit in it, or Missing]
          bundles,    \* the directories of snapshots there are
          command,    \* the command that runs, or Missing
          stopped     \* how many commands have been stopped
snapshotVars == <<held, bundles, command, stopped>>

-----------------------------------------------------------------------------
\* Artifacts.  A name is the hash of a fit, and so is an identity: both are
\* the fit itself here.  A directory loads if its contents hash to its name.
Place(root, fit) == <<root, fit>>
Reference(root, fit) == [id |-> fit, place |-> Place(root, fit)]
ASSUME ReferenceAssumption ==
  \A root \in Roots, x \in Fits : Reference(root, x) # Missing

LoadFit(place) == IF held[place] = place[2] THEN held[place] ELSE Missing
Verified(reference) == LoadFit(reference.place) = reference.id
Persisted(kind) ==
  {r \in {Reference("shared", x) : x \in OfKind(kind)} : Verified(r)}

\* write_fit_artifact and the other writers.  Only the last rename shows, and
\* a writer that finds the directory there has found its own fit, or what
\* somebody put in its place.
Written(places) ==
  [p \in DOMAIN held |->
     IF p \in places /\ held[p] = Missing THEN p[2] ELSE held[p]]

\* import-elo-v1-1, update_usopen_r64_elo and create-fixed-elo-integration-v1-1.
PublishAnchor(x) ==
  /\ x.kind = "anchor" /\ held[Place("shared", x)] = Missing
  /\ held' = Written({Place("shared", x)})
  /\ UNCHANGED <<bundles, command, stopped>>
PublishIntegration(x) ==
  /\ x.kind = "integration" /\ held[Place("shared", x)] = Missing
  /\ held' = Written({Place("shared", x)})
  /\ UNCHANGED <<bundles, command, stopped>>

\* Others remove a directory or put another fit into it.
Replace(place, contents) ==
  /\ held[place] \notin {Missing, contents}
  /\ held' = [held EXCEPT ![place] = contents]
  /\ UNCHANGED <<bundles, command, stopped>>

-----------------------------------------------------------------------------
\* Snapshots.
Live == {"v1.2", "v1.3"}
IdOf(reference) == IF reference = Missing THEN Missing ELSE reference.id

\* Fault: the identity is that of the frozen state alone.
IdentityWithoutAnchor(s) ==
  [schema |-> s.schema, framework |-> s.framework, tour |-> s.tour, cutoff |-> s.cutoff,
   run |-> s.run, serve |-> [c \in Serve |-> s.serve[c].id],
   retirement |-> IdOf(s.retirement), duration |-> IdOf(s.duration), base |-> s.base,
   config |-> s.config, anchor |-> Missing, integration |-> IdOf(s.integration)]

\* snapshot_id: of what is referred to, never of where it is.
SnapshotId(s) ==
  [schema |-> s.schema, framework |-> s.framework, tour |-> s.tour, cutoff |-> s.cutoff,
   run |-> s.run, serve |-> [c \in Serve |-> s.serve[c].id],
   retirement |-> IdOf(s.retirement), duration |-> IdOf(s.duration), base |-> s.base,
   config |-> s.config, anchor |-> IdOf(s.anchor), integration |-> IdOf(s.integration)]

\* bundle_is_complete_and_ordered.  (The duration artifact is compared with
\* the snapshot in schema v3 only.)
FitsIn(s, reference) == reference.id.tour = s.tour /\ reference.id.cutoff = s.cutoff
WellFormed(s) ==
  /\ s.retirement = Missing <=> s.schema = 1
  /\ s.duration = Missing <=> s.schema \in {1, 2}
  /\ s.schema >= 2 => FitsIn(s, s.retirement)
  /\ s.schema = 3 => FitsIn(s, s.duration)
  /\ \A part \in {"base", "config", "anchor", "integration"} :
       s[part] = Missing <=> s.schema < 4
  /\ s.schema = 4 =>
       /\ s.framework # "v1.0"
       /\ s.anchor.id.tour = s.tour /\ s.integration.id.tour = s.tour
       /\ s.anchor.id.kind = "anchor" /\ s.integration.id.kind = "integration"
       /\ s.integration.id.cutoff <= s.cutoff
       /\ s.framework \in Live \/ s.anchor.id.cutoff <= s.cutoff

\* validate_serve_fit_bundle: five fits of one run.
FitsOfOneRun(fits) ==
  /\ \A c \in Serve : fits[c].kind = c
  /\ \A c, e \in Serve : /\ fits[c].tour = fits[e].tour /\ fits[c].run = fits[e].run
                         /\ fits[c].cutoff = fits[e].cutoff

\* create_model_snapshot: every artifact is loaded again and compared.
CreateModelSnapshot(serve, retirement, duration) ==
  LET one == serve[CHOOSE c \in Serve : TRUE].id
  IN  [schema |-> IF duration # Missing THEN 3 ELSE IF retirement # Missing THEN 2 ELSE 1,
       framework |-> "v1.0", tour |-> one.tour, cutoff |-> one.cutoff, run |-> one.run,
       serve |-> serve, retirement |-> retirement, duration |-> duration, base |-> Missing,
       config |-> Missing, anchor |-> Missing, integration |-> Missing]
CanCreate(serve, retirement, duration) ==
  LET s == CreateModelSnapshot(serve, retirement, duration)
  IN  /\ \A c \in Serve : Verified(serve[c])
      /\ FitsOfOneRun([c \in Serve |-> serve[c].id])
      /\ retirement # Missing => Verified(retirement) /\ FitsIn(s, retirement)
      /\ duration # Missing =>
           /\ retirement # Missing /\ Verified(duration) /\ FitsIn(s, duration)
           /\ duration.id.converged
      /\ WellFormed(s)

\* create_v1_1_snapshot, create_v1_2_snapshot and create_v1_3_snapshot, and
\* revise_v1_2_strength_anchor, which keeps the base it finds.
StrengthAdded(s, anchor, integration, config) ==
  [s EXCEPT !.schema = 4, !.framework = "v1.1", !.base = SnapshotId(s), !.config = config,
            !.anchor = anchor, !.integration = integration]
CanAddStrength(s, anchor, integration) ==
  /\ s.schema = 3 /\ s.framework = "v1.0"
  /\ Verified(anchor) /\ Verified(integration)
  /\ anchor.id.tour = s.tour /\ integration.id.tour = s.tour
  /\ anchor.id.cutoff = s.cutoff /\ integration.id.cutoff <= s.cutoff

Before(framework) == [new \in Live |-> IF new = "v1.2" THEN "v1.1" ELSE "v1.2"][framework]
Inherit(s, framework, config) ==
  [s EXCEPT !.framework = framework, !.base = SnapshotId(s), !.config = config]

\* Fault: any snapshot that has its strength artifacts will do.
InheritsAnything(s, framework) == s.schema = 4
CanInherit(s, framework) == s.framework = Before(framework)

Revise(s, anchor) == [s EXCEPT !.anchor = anchor]
CanRevise(s, anchor) ==
  /\ s.framework \in Live /\ anchor.id.tour = s.tour
  /\ anchor.id.cutoff > s.anchor.id.cutoff

\* load_snapshot_fits and its companions: what a reader of s gets, if it does.
References(s) ==
  {s.serve[c] : c \in Serve} \cup
  ({s.retirement, s.duration, s.anchor, s.integration} \ {Missing})
Loads(s) ==
  /\ \A r \in References(s) : Verified(r)
  /\ FitsOfOneRun([c \in Serve |-> LoadFit(s.serve[c].place)])
  /\ s.duration # Missing => LoadFit(s.duration.place).converged
Model(s) == {LoadFit(r.place) : r \in References(s)}

-----------------------------------------------------------------------------
\* The commands.
NoSnapshots == [t \in SnapshotTours |-> Missing]
NextTour(made) ==
  TourOrder[CHOOSE i \in 1..Len(TourOrder) :
              /\ made[TourOrder[i]] = Missing
              /\ \A j \in 1..(i - 1) : made[TourOrder[j]] # Missing]

SnapshotInit ==
  /\ held = [p \in Roots \X Fits |->
               IF /\ p[1] = "shared" /\ p[2] \notin LaterFits
                  /\ p[2].kind \in {"duration", "anchor", "integration"}
               THEN p[2] ELSE Missing]
  /\ bundles = {} /\ command = Missing /\ stopped = 0

\* The activations of v1.2 and v1.3 copy the whole source directory and then
\* write over its snapshots; the others start with an empty directory.
Bundle(stage, found, made, reported) ==
  [stage |-> stage, found |-> found, made |-> made, reported |-> reported]
Begin(stage, found) ==
  /\ command = Missing /\ Cardinality(bundles) < MaxBundles
  /\ command' = Bundle(stage, found, NoSnapshots, FALSE)
  /\ UNCHANGED <<held, bundles, stopped>>

\* What the directory holds: the snapshots made so far, and behind them, in an
\* activation, those that were copied.
SnapshotsIn(b) ==
  [t \in SnapshotTours |-> IF b.made[t] = Missing /\ b.stage \in Live
                           THEN b.found[t] ELSE b.made[t]]

Make(t, snapshot) == command' = [command EXCEPT !.made[t] = snapshot]
Turn(stage, t) ==
  /\ command # Missing /\ command.stage = stage
  /\ \E u \in SnapshotTours : command.made[u] = Missing
  /\ NextTour(command.made) = t

\* build_current_usopen_snapshot: the fits of a tour are written as they are
\* made, beside those of other runs, and its snapshot after them.
FitsOfBuild(t) == {x \in Fits : x.kind \in Serve \cup {"retirement"} /\ x.tour = t}
WriteFits(t) ==
  /\ Turn("current", t)
  /\ \E x \in FitsOfBuild(t) : held[Place("shared", x)] = Missing
  /\ held' = Written({Place("shared", x) : x \in FitsOfBuild(t)})
  /\ UNCHANGED <<bundles, command, stopped>>
BuildCurrent(t) ==
  /\ Turn("current", t)
  /\ \E serve \in [Serve -> UNION {Persisted(c) : c \in Serve}],
        r \in Persisted("retirement") :
       /\ CanCreate(serve, r, Missing) /\ CreateModelSnapshot(serve, r, Missing).tour = t
       /\ Make(t, CreateModelSnapshot(serve, r, Missing))
  /\ UNCHANGED <<held, bundles, stopped>>

\* build_duration_models: the duration fit is made in the staging directory
\* and referred to where it will be after the last rename.
UpgradeSnapshot(t) ==
  /\ Turn("duration", t)
  /\ LET s == command.found[t] IN
     /\ s # Missing /\ s.schema = 2
     /\ \E d \in Persisted("duration") :
          /\ CanCreate(s.serve, s.retirement, d)
          /\ Make(t, [CreateModelSnapshot(s.serve, s.retirement, d) EXCEPT
                        !.duration.place = Place("duration build", d.id)])
  /\ UNCHANGED <<held, bundles, stopped>>

\* create-snapshot-v1-1, once for each tour.
AddStrength(t) ==
  /\ Turn("v1.1", t) /\ command.found[t] # Missing
  /\ \E a \in Persisted("anchor"), i \in Persisted("integration"), c \in Configs :
       /\ CanAddStrength(command.found[t], a, i)
       /\ WellFormed(StrengthAdded(command.found[t], a, i, c))
       /\ Make(t, StrengthAdded(command.found[t], a, i, c))
  /\ UNCHANGED <<held, bundles, stopped>>

\* activate_v1_2.
ActivateV12(t) ==
  /\ Turn("v1.2", t) /\ command.found[t] # Missing
  /\ CanInherit(command.found[t], "v1.2")
  /\ \E c \in Configs : /\ WellFormed(Inherit(command.found[t], "v1.2", c))
                        /\ Make(t, Inherit(command.found[t], "v1.2", c))
  /\ UNCHANGED <<held, bundles, stopped>>

\* activate_v1_2_r64: the later anchor of each tour was loaded before.
AdvanceAnchor(t) ==
  /\ Turn("r64", t) /\ command.found[t] # Missing
  /\ \E a \in Persisted("anchor") :
       /\ CanRevise(command.found[t], a) /\ WellFormed(Revise(command.found[t], a))
       /\ Make(t, Revise(command.found[t], a))
  /\ UNCHANGED <<held, bundles, stopped>>

\* activate_v1_3: the retained integration artifact of the same identity is
\* copied into the new directory, and the snapshot refers to the copy.
ActivateV13(t) ==
  /\ Turn("v1.3", t) /\ command.found[t] # Missing
  /\ LET s == command.found[t] IN
     /\ s.integration # Missing
     /\ Verified(Reference("shared", s.integration.id))
     /\ LET rebound == [s EXCEPT !.integration.place = Place("v1.3", s.integration.id)]
        IN  /\ CanInherit(rebound, "v1.3")
            /\ \E c \in Configs : /\ WellFormed(Inherit(rebound, "v1.3", c))
                                  /\ Make(t, Inherit(rebound, "v1.3", c))
     /\ held' = Written({Place("v1.3", s.integration.id)})
  /\ UNCHANGED <<bundles, stopped>>

\* The last step writes the report or, in the duration build, renames the
\* staging directory, with its fits, into place.  The v1.1 command has none.
FinishCommand ==
  /\ command # Missing /\ \A t \in SnapshotTours : command.made[t] # Missing
  /\ bundles' = bundles \cup {[command EXCEPT !.reported = command.stage # "v1.1"]}
  /\ held' = IF command.stage = "duration"
             THEN Written({command.made[t].duration.place : t \in SnapshotTours}) ELSE held
  /\ command' = Missing /\ UNCHANGED stopped

\* A crash, or an input the command refuses: what was written stays.  Before
\* an activation has made a snapshot it may still have been copying.
Copied(tours) ==
  [command EXCEPT !.found = [t \in SnapshotTours |-> IF t \in tours THEN @[t] ELSE Missing]]
Left ==
  IF command.stage = "duration" THEN {}
  ELSE IF command.stage \in Live /\ command.made = NoSnapshots
  THEN {Copied(tours) : tours \in SUBSET SnapshotTours}
  ELSE {command}
StopCommand ==
  /\ command # Missing /\ stopped < MaxStopped
  /\ stopped' = stopped + 1 /\ command' = Missing
  /\ \/ Left = {} /\ bundles' = bundles
     \/ \E b \in Left : bundles' = bundles \cup {b}
  /\ UNCHANGED held

CommandStages == {"duration", "v1.1", "v1.2", "r64", "v1.3"}
SnapshotNext ==
  \/ \E x \in LaterFits : PublishAnchor(x) \/ PublishIntegration(x)
  \/ \E x \in Exposed, contents \in (LaterFits \cap OfKind("anchor")) \cup {Missing} :
       Replace(Place("shared", x), contents)
  \/ Begin("current", NoSnapshots)
  \/ \E stage \in CommandStages, b \in bundles : Begin(stage, SnapshotsIn(b))
  \/ \E t \in SnapshotTours :
       \/ WriteFits(t) \/ BuildCurrent(t) \/ UpgradeSnapshot(t) \/ AddStrength(t)
       \/ ActivateV12(t) \/ AdvanceAnchor(t) \/ ActivateV13(t)
  \/ FinishCommand \/ StopCommand
SnapshotSpec == SnapshotInit /\ [][SnapshotNext]_snapshotVars

-----------------------------------------------------------------------------
(***************************************************************************)
(* Properties.                                                             *)
(***************************************************************************)
KeptSnapshots ==
  (UNION {{SnapshotsIn(b)[t] : t \in SnapshotTours} : b \in bundles}) \ {Missing}

\* A snapshot that loads gives one model, of one tour and one cutoff, with no
\* outcome after it but those the live anchor may know; and two snapshots with
\* one identity give the same, wherever their artifacts are and whatever has
\* become of the directories in the meantime.
SnapshotsNameTheirModel ==
  LET loaded == {s \in KeptSnapshots : Loads(s)}
      models == {<<SnapshotId(s), Model(s)>> : s \in loaded}
  IN  /\ \A s \in loaded : \A x \in Model(s) :
           /\ x.tour = s.tour
           /\ CASE x.kind = "integration" -> x.cutoff <= s.cutoff
                [] x.kind = "anchor" /\ s.framework \in Live -> x.cutoff >= s.cutoff
                [] OTHER -> x.cutoff = s.cutoff
      /\ \A p, q \in models : p[1] = q[1] => p = q

\* A directory with a report has a snapshot of each tour, and each has come
\* through every framework before its own with the same frozen fits.  The
\* commands before it may have stopped with one tour done and the other, in an
\* activation, left as it was copied.
Frozen(id) == [tour |-> id.tour, cutoff |-> id.cutoff, run |-> id.run, serve |-> id.serve,
               retirement |-> id.retirement, duration |-> id.duration]
BaseOf(id) == IF id = Missing THEN Missing ELSE id.base
Line(s) == [n \in 0..3 |-> CASE n = 0 -> SnapshotId(s) [] n = 1 -> s.base
                              [] n = 2 -> BaseOf(s.base) [] n = 3 -> BaseOf(BaseOf(s.base))]
ComeTheWholeWay(s) ==
  LET line == Line(s)
      past == {n \in 0..3 : n > 0 => line[n] # Missing}
  IN  /\ {line[n].framework : n \in past} =
           IF s.framework = "v1.2" THEN {"v1.0", "v1.1", "v1.2"}
                                   ELSE {"v1.0", "v1.1", "v1.2", "v1.3"}
      /\ \A n \in past : n > 0 /\ line[n].anchor # Missing =>
           line[n].anchor.cutoff <= line[n - 1].anchor.cutoff
      /\ \A n \in past : Frozen(line[n]) = Frozen(line[0])
ReportedBundlesAgree ==
  \A b \in bundles : b.reported =>
    /\ \A t \in SnapshotTours : b.made[t].tour = t
    /\ b.stage \in Live => \A t \in SnapshotTours : b.made[t].framework = b.stage
    /\ b.stage \in Live \cup {"r64"} => \A t \in SnapshotTours : ComeTheWholeWay(b.made[t])
=============================================================================
