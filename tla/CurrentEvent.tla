---------------------------- MODULE CurrentEvent ----------------------------
(***************************************************************************)
(* The snapshot of a running event: build_current_usopen_snapshot.py takes *)
(* the official feeds while matches are still being played, keeps them in  *)
(* a directory named by its contents, and builds rows, fits and a report   *)
(* from one such capture at an information cutoff.                         *)
(***************************************************************************)
EXTENDS Naturals, Sequences, FiniteSets, FiniteSetsExt

CONSTANTS FeedDays,          \* tournament days with a feed of their own
          Listed,        \* [FeedDays -> the matches its feed lists]
          TourOf,        \* [match -> its tour]
          SidesOf,       \* [match -> <<official id, official id>>]
          NameOf,        \* [official id -> the normalised name]
          Historical,    \* [name -> the historical players of that name]
          OutcomesOf,    \* [match -> how it may end]
          TargetMatch,   \* the scheduled match of the demonstration lock
          TargetStart,
          AskedCutoffs,       \* the cutoffs an operator asks for
          NotYet,        \* not ended; nothing under way
          LastInstant, MaxCaptures, MaxBuilds   \* bounds of the model

EventMatches == DOMAIN TourOf
EventTours == {TourOf[m] : m \in EventMatches}
Untold == "nobody"

\* A match ends once: how (completed or given up), who won, what the day feed
\* lacks of it, and what the feed of the match holds: a row for every
\* component, not for every one, or not the one match it should.
Endings == [code : {"D", "E"}, winner : {1, 2}, entry : {"whole", "no time", "no side"},
             payload : {"full", "partial", "malformed"}]
ASSUME OutcomeAssumption == \A m \in EventMatches : OutcomesOf[m] \subseteq Endings

\* A feed lists matches of the event; cutoffs are instants.
ASSUME FeedAssumption ==
  /\ IsFiniteSet(FeedDays) /\ IsFiniteSet(EventMatches)
  /\ Listed \in [FeedDays -> SUBSET EventMatches] /\ AskedCutoffs \subseteq Nat

VARIABLES
  now,
  ended,      \* [match -> its outcome and time, or NotYet]
  taking,     \* the objects of the capture under way, or NotYet
  captured,   \* the directories that were published
  outputs,    \* [<<capture, cutoff>> -> what its directory holds]
  building    \* the <<capture, cutoff>> a build works on, or NotYet
eventVars == <<now, ended, taking, captured, outputs, building>>

NoObjects == [x \in {} |-> 0]
EventInit ==
  /\ now = 1
  /\ ended = [m \in EventMatches |-> NotYet]
  /\ taking = NotYet /\ captured = {}
  /\ outputs = NoObjects /\ building = NotYet

-----------------------------------------------------------------------------
\* The tournament goes on.
TimePasses ==
  /\ now < LastInstant /\ now' = now + 1
  /\ UNCHANGED <<ended, taking, captured, outputs, building>>
EndMatch(m) ==
  /\ ended[m] = NotYet /\ now < LastInstant
  /\ \E o \in OutcomesOf[m] : ended' = [ended EXCEPT ![m] = [how |-> o, at |-> now]]
  /\ now' = now + 1
  /\ UNCHANGED <<taking, captured, outputs, building>>

-----------------------------------------------------------------------------
\* acquire_official_capture.  The day feeds are fetched first, in any order;
\* the matches to fetch are those they call ended.
StartCapture ==
  /\ taking = NotYet /\ Cardinality(captured) < MaxCaptures
  /\ taking' = [began |-> now, days |-> NoObjects, matches |-> NoObjects]
  /\ UNCHANGED <<now, ended, captured, outputs, building>>

DayFeed(d) == {[match |-> m, how |-> ended[m].how, at |-> ended[m].at] :
                 m \in {k \in Listed[d] : ended[k] # NotYet}}
With(f, x, y) == [z \in DOMAIN f \cup {x} |-> IF z = x THEN y ELSE f[z]]

FetchDay(d) ==
  /\ taking # NotYet /\ d \notin DOMAIN taking.days
  /\ taking' = [taking EXCEPT !.days = With(@, d, [at |-> now, entries |-> DayFeed(d)])]
  /\ UNCHANGED <<now, ended, captured, outputs, building>>

Ended(capture) ==
  {e.match : e \in UNION {capture.days[d].entries : d \in DOMAIN capture.days}}

\* Fault: what the feeds of all scheduled matches hold is fetched at the start.
FetchAtStart(m) ==
  /\ taking # NotYet /\ taking.days = NoObjects /\ m \notin DOMAIN taking.matches
  /\ taking' = [taking EXCEPT !.matches =
                  [k \in EventMatches |-> [at |-> now, seen |-> ended[k]]]]
  /\ UNCHANGED <<now, ended, captured, outputs, building>>

FetchMatch(m) ==
  /\ taking # NotYet /\ DOMAIN taking.days = FeedDays
  /\ m \in Ended(taking) \ DOMAIN taking.matches
  /\ taking' = [taking EXCEPT !.matches = With(@, m, [at |-> now, seen |-> ended[m]])]
  /\ UNCHANGED <<now, ended, captured, outputs, building>>

\* The rename of the staging directory to the hash of its manifest, which has
\* every object's hash and time of retrieval.
PublishCapture ==
  /\ taking # NotYet /\ DOMAIN taking.days = FeedDays
  /\ Ended(taking) \subseteq DOMAIN taking.matches
  /\ captured' = captured \cup {taking} /\ taking' = NotYet
  /\ UNCHANGED <<now, ended, outputs, building>>

\* The process dies, or a feed cannot be read: nothing is published.
AbandonCapture ==
  /\ taking # NotYet /\ taking' = NotYet
  /\ UNCHANGED <<now, ended, captured, outputs, building>>

-----------------------------------------------------------------------------
\* build_official_player_crosswalk: the one historical player of that exact
\* name, or a new player if there is none; several are not told apart.
Canonical(id) ==
  LET candidates == Historical[NameOf[id]]
  IN  CASE Cardinality(candidates) = 1 -> CHOOSE p \in candidates : TRUE
        [] candidates = {} -> id
        [] OTHER -> Untold

\* normalize_completed_singles: the matches the day feeds call ended, once
\* for each feed that lists them, and why one is left out.
FeedEntries(capture) == UNION {{<<d, e>> : e \in capture.days[d].entries} : d \in FeedDays}
PlayersOf(m) == {Canonical(SidesOf[m][1]), Canonical(SidesOf[m][2])}
LeftOut(capture, cutoff, e) ==
  LET source == capture.matches[e.match]
  IN  IF e.how.entry = "no time" THEN "INVALID_COMPLETION_TIMESTAMP"
      ELSE IF e.match \notin DOMAIN capture.matches THEN "MISSING_MATCH_PAYLOAD"
      ELSE IF source.at >= cutoff \/ e.at >= cutoff THEN "AT_OR_AFTER_CUTOFF"
      ELSE IF e.how.entry = "no side" THEN "INVALID_SINGLES_IDENTITY"
      ELSE IF source.seen # NotYet /\ source.seen.how.payload = "malformed"
           THEN "INVALID_MATCH_PAYLOAD"
      ELSE IF Untold \in PlayersOf(e.match) \/ Cardinality(PlayersOf(e.match)) = 1
           THEN "UNRESOLVED_PLAYER_IDENTITY"
      ELSE "none"
Used(capture, cutoff) ==
  {s \in FeedEntries(capture) : LeftOut(capture, cutoff, s[2]) = "none"}
Included(capture, cutoff) == {s[2].match : s \in Used(capture, cutoff)}

\* The fits: no row twice, and the provenance names a payload for each row, so
\* each payload needs a usable row for each component.  (The feed of a match
\* that is still played would have one: its counts so far.)
FitsRefused(capture, cutoff) ==
  \/ \E s, t \in Used(capture, cutoff) : s # t /\ s[2].match = t[2].match
  \/ \E m \in Included(capture, cutoff) :
       LET seen == capture.matches[m].seen IN seen # NotYet /\ seen.how.payload = "partial"

\* _player_row, for the two players at once.  How the match ended is the word
\* of the day feed; the record of the match itself is kept beside it.
PlayerRow(capture, s) ==
  [match |-> s[2].match, retirement |-> s[2].how.code = "E",
   player |-> [i \in {1, 2} |-> Canonical(SidesOf[s[2].match][i])],
   raw |-> capture.matches[s[2].match].seen]

\* _termination_inputs: who won is the word of the match's own feed.
Termination(row) ==
  LET winner == IF row.raw = NotYet THEN 0 ELSE row.raw.how.winner
      side(i) == IF i \in {1, 2} THEN row.player[i] ELSE Untold
  IN  [match |-> row.match, retirement |-> row.retirement, winner |-> side(winner),
       retiree |-> IF row.retirement THEN side(3 - winner) ELSE Untold]

-----------------------------------------------------------------------------
\* build.  Refusals before the directory is made leave no trace.
LatestRetrieval(capture) ==
  Max({0} \cup {capture.days[d].at : d \in FeedDays}
          \cup {capture.matches[m].at : m \in DOMAIN capture.matches})
\* _combined_manifest takes the first and the last date of each tour's rows.
EachTourPlayed(capture, cutoff) ==
  \A t \in EventTours : \E m \in Included(capture, cutoff) : TourOf[m] = t
Output(stage, used, terminations, lock) ==
  [stage |-> stage, used |-> used, terminations |-> terminations, lock |-> lock]

StartBuild(capture, cutoff) ==
  /\ building = NotYet /\ Cardinality(DOMAIN outputs) < MaxBuilds
  /\ cutoff > LatestRetrieval(capture)
  /\ EachTourPlayed(capture, cutoff)
  /\ <<capture, cutoff>> \notin DOMAIN outputs
  /\ building' = <<capture, cutoff>>
  /\ outputs' = With(outputs, building',
                     Output("opened", Used(capture, cutoff), {}, "none"))
  /\ UNCHANGED <<now, ended, taking, captured>>

AtStage(stage) == building # NotYet /\ outputs[building].stage = stage
MoveOn(output) == outputs' = [outputs EXCEPT ![building] = output]

FitAndClassify ==
  /\ AtStage("opened")
  /\ LET used == outputs[building].used
     IN  IF FitsRefused(building[1], building[2])
         THEN building' = NotYet /\ UNCHANGED outputs
         ELSE /\ MoveOn(Output("fitted", used,
                               {Termination(PlayerRow(building[1], s)) : s \in used}, "none"))
              /\ UNCHANGED building
  /\ UNCHANGED <<now, ended, taking, captured>>

\* The demonstration lock: passed over when its match has begun, else created
\* or blocked for the reason that is expected; anything else ends the build.
AttemptLock ==
  /\ AtStage("fitted")
  /\ LET o == outputs[building] IN
     \E lock \in IF Untold \in PlayersOf(TargetMatch) THEN {"failed"}
                 ELSE IF TargetStart <= building[2] THEN {"skipped"}
                 ELSE {"created", "blocked", "failed"} :
       IF lock = "failed" THEN building' = NotYet /\ UNCHANGED outputs
       ELSE MoveOn(Output("locked", o.used, o.terminations, lock)) /\ UNCHANGED building
  /\ UNCHANGED <<now, ended, taking, captured>>

WriteReport ==
  /\ AtStage("locked")
  /\ MoveOn([outputs[building] EXCEPT !.stage = "reported"])
  /\ building' = NotYet
  /\ UNCHANGED <<now, ended, taking, captured>>

CrashBuild ==
  /\ building # NotYet /\ building' = NotYet
  /\ UNCHANGED <<now, ended, taking, captured, outputs>>

EventNext ==
  \/ TimePasses \/ StartCapture \/ PublishCapture \/ AbandonCapture
  \/ \E m \in EventMatches : EndMatch(m) \/ FetchMatch(m)
  \/ \E d \in FeedDays : FetchDay(d)
  \/ \E c \in captured : StartBuild(c, Max({now, LatestRetrieval(c) + 1}))
  \/ \E c \in captured, cutoff \in AskedCutoffs : StartBuild(c, cutoff)
  \/ FitAndClassify \/ AttemptLock \/ WriteReport \/ CrashBuild
EventSpec == EventInit /\ [][EventNext]_eventVars

-----------------------------------------------------------------------------
(***************************************************************************)
(* Properties.                                                             *)
(***************************************************************************)

\* A build that got as far as its report tells what happened on court before
\* its cutoff: every match it counts had ended, it is counted once, the one
\* termination kept of it names the true ending and winner, and every match
\* that ended before the capture began is counted or has a reason not to be.
\* The feeds are read while matches end, at different instants.
ReportsTellTheTruth ==
  \A run \in DOMAIN outputs : outputs[run].stage = "reported" =>
    LET o == outputs[run]
        matches == {s[2].match : s \in o.used}
    IN  /\ Cardinality(o.used) = Cardinality(matches)
        /\ {t.match : t \in o.terminations} = matches
        /\ \A t \in o.terminations :
             /\ ended[t.match] # NotYet /\ ended[t.match].at < run[2]
             /\ LET how == ended[t.match].how IN
                /\ t.retirement <=> how.code = "E"
                /\ t.winner = Canonical(SidesOf[t.match][how.winner])
                /\ t.retirement => t.retiree = Canonical(SidesOf[t.match][3 - how.winner])
        /\ \A d \in FeedDays : \A m \in Listed[d] :
             ended[m] # NotYet /\ ended[m].at < run[1].began =>
               \/ m \in matches
               \/ \E s \in FeedEntries(run[1]) :
                    s[2].match = m /\ LeftOut(run[1], run[2], s[2]) # "none"
=============================================================================
