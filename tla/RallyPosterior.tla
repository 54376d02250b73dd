--------------------------- MODULE RallyPosterior ---------------------------
(***************************************************************************)
(* The sequential rally-termination posterior of one tour: artifacts that  *)
(* are written once and chained by their parent, the pointer to the active *)
(* one, and runs of scripts/update_rally_posterior.py that add the matches *)
(* of a capture one child at a time.  Forecasts walk back from the active  *)
(* artifact to the one they may use.                                       *)
(*                                                                         *)
(* An artifact's id covers its content and the time it was written, so two *)
(* are never the same: here it is its number, and 0 is the static fit.     *)
(***************************************************************************)
EXTENDS Naturals, Sequences, FiniteSets, FiniteSetsExt

CONSTANTS Updaters, Candidates,
          CaptureChoices,  \* what the capture of each updater may hold
          FirstSeen,       \* the sources of the matches of the static fit
          FirstCutoff,     \* the data cutoff of the static fit
          Cutoffs          \* information cutoffs of the forecasts

ASSUME RallyAssumption ==
  /\ FirstCutoff \in Nat /\ Cutoffs \subseteq Nat
  /\ \A c \in Candidates : c.available \in Nat
  /\ \A choice \in CaptureChoices : \A u \in Updaters :
       choice[u].candidates \in Seq(Candidates)

VARIABLES captures,   \* candidates of each updater, in the order of its sort
          artifacts,  \* what every directory of rally-posterior/<tour> is for
          bytes,      \* and what is in it
          pointer,    \* the artifact rally_termination_<tour>_current.json names
          progress,         \* where each updater is
          at,         \* the number of its candidate
          current,    \* the artifact it holds as active
          child       \* the one it is writing

rallyVars == <<captures, artifacts, bytes, pointer, progress, at, current, child>>

RallyInit ==
  /\ captures \in CaptureChoices
  /\ artifacts = <<[parent |-> 0, seen |-> FirstSeen, applied |-> {},
                    cutoff |-> FirstCutoff]>>
  /\ bytes = <<"whole">>
  /\ pointer = 1
  /\ progress = [u \in Updaters |-> "start"]
  /\ at = [u \in Updaters |-> 1]
  /\ current = [u \in Updaters |-> 0]
  /\ child = [u \in Updaters |-> 0]

Candidate(u) == captures[u].candidates[at[u]]
Active(u) == artifacts[current[u]]
RunTo(u, step) == progress' = [progress EXCEPT ![u] = step]
NextCandidate(u) == at' = [at EXCEPT ![u] = @ + 1] /\ RunTo(u, "next")

-----------------------------------------------------------------------------
\* load_active_posterior reads the pointer once, before the first candidate.
LoadActive(u) ==
  /\ progress[u] = "start"
  /\ IF bytes[pointer] = "whole"
     THEN current' = [current EXCEPT ![u] = pointer] /\ RunTo(u, "next")
     ELSE RunTo(u, "failed") /\ UNCHANGED current
  /\ UNCHANGED <<captures, artifacts, bytes, pointer, at, child>>

AtCandidate(u) == progress[u] = "next" /\ at[u] <= Len(captures[u].candidates)
AlreadySeen(u) == Candidate(u).match \in DOMAIN Active(u).seen
SameSource(u) ==
  LET c == Candidate(u)
      source == Active(u).seen[c.match]
  IN  source = c.source \/ <<c.match, source>> \in captures[u].equivalent

\* An identical source, or one whose modelled counts are: nothing to do.
SkipSeen(u) ==
  /\ AtCandidate(u) /\ AlreadySeen(u) /\ SameSource(u)
  /\ NextCandidate(u)
  /\ UNCHANGED <<captures, artifacts, bytes, pointer, current, child>>

RefuseChanged(u) ==
  /\ AtCandidate(u) /\ AlreadySeen(u) /\ ~ SameSource(u)
  /\ RunTo(u, "failed")
  /\ UNCHANGED <<captures, artifacts, bytes, pointer, at, current, child>>

\* The candidates come by round and match id, not by time: the cutoff of a
\* child is after the availability of its match and after its parent.
\* Fault: it is after the availability only.
AfterAvailable(available, cutoff) == available + 1
ChildCutoff(available, cutoff) == Max({available + 1, cutoff + 1})

\* update_posterior, and target.mkdir in _write_artifact
MakeChild(u) ==
  /\ AtCandidate(u) /\ ~ AlreadySeen(u)
  /\ LET c == Candidate(u)
         a == Active(u)
     IN  artifacts' = Append(artifacts,
           [parent |-> current[u],
            seen |-> [m \in DOMAIN a.seen \cup {c.match} |->
                        IF m = c.match THEN c.source ELSE a.seen[m]],
            applied |-> a.applied \cup {c},
            cutoff |-> ChildCutoff(c.available, a.cutoff)])
  /\ bytes' = Append(bytes, "directory")
  /\ child' = [child EXCEPT ![u] = Len(artifacts) + 1]
  /\ RunTo(u, "state")
  /\ UNCHANGED <<captures, pointer, at, current>>

\* Fault: the manifest is left for later.
StateOnly(u) ==
  /\ progress[u] = "state"
  /\ bytes' = [bytes EXCEPT ![child[u]] = "state"]
  /\ RunTo(u, "activate")
  /\ UNCHANGED <<captures, artifacts, pointer, at, current, child>>

MoveState(u) ==
  /\ progress[u] = "state"
  /\ bytes' = [bytes EXCEPT ![child[u]] = "state"]
  /\ RunTo(u, "manifest")
  /\ UNCHANGED <<captures, artifacts, pointer, at, current, child>>

\* The manifest is written, and read again with the state.
WriteManifest(u) ==
  /\ progress[u] = "manifest"
  /\ bytes' = [bytes EXCEPT ![child[u]] = "whole"]
  /\ RunTo(u, "activate")
  /\ UNCHANGED <<captures, artifacts, pointer, at, current, child>>

\* activate_posterior replaces the pointer, whatever it names by now.
Activate(u) ==
  /\ progress[u] = "activate"
  /\ pointer' = child[u]
  /\ current' = [current EXCEPT ![u] = child[u]]
  /\ NextCandidate(u)
  /\ UNCHANGED <<captures, artifacts, bytes, child>>

FinishUpdate(u) ==
  /\ progress[u] = "next" /\ at[u] > Len(captures[u].candidates)
  /\ RunTo(u, "done")
  /\ UNCHANGED <<captures, artifacts, bytes, pointer, at, current, child>>

\* The optimizer or a file operation fails, or the process is killed: what
\* has been written stays.
Stop(u) ==
  /\ progress[u] \in {"start", "next", "state", "manifest", "activate"}
  /\ RunTo(u, "stopped")
  /\ UNCHANGED <<captures, artifacts, bytes, pointer, at, current, child>>

Update(u) ==
  \/ LoadActive(u) \/ SkipSeen(u) \/ RefuseChanged(u)
  \/ MakeChild(u) \/ MoveState(u) \/ WriteManifest(u) \/ Activate(u)
  \/ FinishUpdate(u) \/ Stop(u)
RallyNext == \E u \in Updaters : Update(u)
RallySpec == RallyInit /\ [][RallyNext]_rallyVars

-----------------------------------------------------------------------------
\* prepare_production_match_parameters: from the active artifact back to the
\* first that ends before the cutoff.  Where there is none it is the static
\* fit, 0, which ends no earlier and is refused.
Parent(a) ==
  LET p == artifacts[a].parent
  IN  IF p # 0 /\ bytes[p] = "whole" THEN p ELSE 0
Prepared(cutoff) ==
  LET Back[a \in 0..Len(artifacts)] ==
        IF a = 0 \/ artifacts[a].cutoff < cutoff THEN a ELSE Back[Parent(a)]
  IN  Back[pointer]

-----------------------------------------------------------------------------
\* What the pointer names can be loaded, and so can all that a forecast of
\* the past may walk back to, wherever an updater was stopped.
ActiveReadable ==
  /\ bytes[pointer] = "whole"
  /\ \A a \in DOMAIN artifacts :
       bytes[a] = "whole" /\ artifacts[a].parent # 0 =>
         bytes[artifacts[a].parent] = "whole"

\* docs/RALLY_TERMINATION_V1.md: forecasts "traverse the parent chain to the
\* newest artifact strictly preceding their information cutoff".  None that
\* precedes it on the chain is newer, and no match in it came after.
ForecastsUseThePast ==
  LET Chain[a \in 0..Len(artifacts)] ==
        IF a = 0 THEN {} ELSE {a} \cup Chain[artifacts[a].parent]
  IN  \A cutoff \in Cutoffs :
        LET used == Prepared(cutoff)
        IN  /\ \A a \in Chain[pointer] : artifacts[a].cutoff < cutoff =>
                 used # 0 /\ artifacts[a].cutoff <= artifacts[used].cutoff
            /\ used # 0 => \A c \in artifacts[used].applied : c.available < cutoff
=============================================================================
