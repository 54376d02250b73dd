--------------------------- MODULE HistoricalScore ---------------------------
(***************************************************************************)
(* The score of a historical match, as its source wrote it from the listed *)
(* winner's side, and what validate_score makes of it.  The score sheet is *)
(* written here set by set while the match it may be the score of is       *)
(* played along, so that what the validator reads off the finished text    *)
(* can be compared with what happened.                                     *)
(*                                                                         *)
(* A token is a pair of scores and its kind; "other" is a text that is     *)
(* neither a set nor a bracketed match tiebreak.                           *)
(***************************************************************************)
EXTENDS Naturals, Sequences, FiniteSets, FiniteSetsExt, SequencesExt, Functions

CONSTANTS Tokens,       \* what a source may write for a set
          Lengths,      \* best_of
          MaxMistakes   \* tokens on a sheet that no match could have

\* Numbers of any size, but finitely many texts; only a set has a note.  A
\* match is won by the majority of an odd number of sets.
ASSUME ScoreAssumption ==
  /\ \A n \in Lengths : n \in Nat /\ n % 2 = 1
  /\ IsFiniteSet(Tokens)
  /\ \A t \in Tokens : /\ t.kind \in {"regular", "match tiebreak", "other"}
                       /\ t.a \in Nat /\ t.b \in Nat /\ t.noted \in BOOLEAN
                       /\ t.noted => t.kind = "regular"

VARIABLES sheet,     \* the tokens so far
          ending,    \* the status token, "open" while sets are being written
          bestOf,
          setsWon,   \* the sets of the listed winner (1) and loser (2)
          underway,  \* the last set is not over
          mistakes   \* how many tokens did not follow from the play

scoreVars == <<sheet, ending, bestOf, setsWon, underway, mistakes>>

\* "broken off" is a retirement, a default or an abandoned match; "misplaced"
\* is a status token anywhere but alone at the end.
Endings == {"completed", "broken off", "walkover", "misplaced"}
High(t) == Max({t.a, t.b})
Low(t) == Min({t.a, t.b})
By(t, lead) == High(t) = Low(t) + lead
Listed(t) == IF t.a > t.b THEN 1 ELSE 2

-----------------------------------------------------------------------------
\* Fault: a long set may end by any margin.
AnyLongSetOver(t) ==
  \/ High(t) = 6 /\ Low(t) <= 4
  \/ High(t) >= 7 /\ Low(t) >= 5
\* The validator, on the whole text.
RegularSetOver(t) ==
  \/ High(t) = 6 /\ Low(t) <= 4
  \/ High(t) = 7 /\ Low(t) \in {5, 6}
  \/ High(t) >= 8 /\ Low(t) >= 6 /\ By(t, 2)
PlausibleRegularSet(t) ==
  /\ ~ RegularSetOver(t)
  /\ \/ High(t) <= 5
     \/ High(t) = 6 /\ Low(t) \in {5, 6}
     \/ High(t) > 6 /\ Low(t) >= 6 /\ High(t) <= Low(t) + 1

TiebreakTargets == {7, 10}
TiebreakOver(t, target) ==
  \/ High(t) = target /\ Low(t) + 2 <= target
  \/ High(t) > target /\ By(t, 2)
MatchTiebreakOver(t) == \E target \in TiebreakTargets : TiebreakOver(t, target)
PlausibleMatchTiebreak(t) ==
  /\ ~ MatchTiebreakOver(t)
  /\ \E target \in TiebreakTargets : High(t) < target \/ High(t) <= Low(t) + 1

SetOver(t) == IF t.kind = "regular" THEN RegularSetOver(t) ELSE MatchTiebreakOver(t)
Plausible(t) ==
  IF t.kind = "regular" THEN PlausibleRegularSet(t) /\ ~ t.noted
                        ELSE PlausibleMatchTiebreak(t)
\* Points in parentheses are those of the loser of a tiebreak.
NoteLegal(t) == t.noted => {t.a, t.b} = {6, 7}

\* Sets the listed winner (1) or loser (2) has after the first n tokens.
WonIn(tokens, who, n) ==
  Quantify(1..n, LAMBDA i : SetOver(tokens[i]) /\ Listed(tokens[i]) = who)
Needed == (bestOf \div 2) + 1
DecidedBefore(tokens, i) == \E who \in {1, 2} : WonIn(tokens, who, i - 1) = Needed

TokenCodes(tokens, status, i) ==
  LET t == tokens[i]
      partial == status # "completed" /\ i = Len(tokens) /\ Plausible(t)
  IN  {c \in {"illegal set", "tiebreak context", "after end"} :
         \/ /\ c = "illegal set"
            /\ \/ ~ SetOver(t) /\ ~ partial
               \/ t.kind = "regular" /\ ~ NoteLegal(t)
         \/ /\ c = "tiebreak context"
            /\ t.kind = "match tiebreak"
            /\ \/ i # Len(tokens)
               \/ \E who \in {1, 2} : WonIn(tokens, who, i - 1) # Needed - 1
         \/ /\ c = "after end"
            /\ DecidedBefore(tokens, i)}

EndCodes(tokens, status) ==
  LET n == Len(tokens)
      won == [who \in {1, 2} |-> WonIn(tokens, who, n)]
  IN  {c \in {"too many sets", "wrong winner", "incomplete", "status after end"} :
         \/ c = "too many sets" /\ n > bestOf
         \/ /\ c = "wrong winner" /\ status = "completed"
            /\ won[2] = Needed /\ won[1] < Needed
         \/ /\ c = "incomplete" /\ status = "completed"
            /\ ~ (won[2] = Needed /\ won[1] < Needed) /\ won[1] # Needed
         \/ /\ c = "status after end" /\ status # "completed"
            /\ Needed \in Range(won)}

ScoreCodes(tokens, status) ==
  IF status = "misplaced" THEN {"invalid status"}
  ELSE IF status = "walkover" THEN (IF tokens = <<>> THEN {} ELSE {"walkover with score"})
  ELSE IF tokens = <<>> THEN (IF status = "completed" THEN {"missing"} ELSE {})
  ELSE IF \E i \in DOMAIN tokens : tokens[i].kind = "other" THEN {"malformed"}
  ELSE EndCodes(tokens, status)
         \cup UNION {TokenCodes(tokens, status, i) : i \in DOMAIN tokens}
ScoreValid(tokens, status) == ScoreCodes(tokens, status) = {}
\* result.completed, which the rows of the match carry
ScoreCompleted(tokens, status) ==
  /\ status = "completed" /\ tokens # <<>>
  /\ \A i \in DOMAIN tokens : tokens[i].kind # "other" /\ SetOver(tokens[i])
  /\ \E who \in {1, 2} : WonIn(tokens, who, Len(tokens)) = Needed
  /\ \A i \in DOMAIN tokens : ~ DecidedBefore(tokens, i)
  /\ Len(tokens) <= bestOf

-----------------------------------------------------------------------------
\* The play the sheet may be the score of, game by game and point by point:
\* a set is played with a tiebreak at 6-6 or to a lead of two games, a match
\* tiebreak to a lead of two points from 7 or from 10.
Ways == {"tiebreak set", "advantage set", "seven", "ten"}
WaysOf(kind) ==
  CASE kind = "regular" -> {"tiebreak set", "advantage set"}
    [] kind = "match tiebreak" -> {"seven", "ten"}
    [] OTHER -> {}
EndsAt(way, x, y) ==
  LET high == Max({x, y})
      lead == high >= Min({x, y}) + 2
  IN  CASE way = "tiebreak set" -> high = 7 \/ (high = 6 /\ lead)
        [] way = "advantage set" -> high >= 6 /\ lead
        [] way = "seven" -> high >= 7 /\ lead
        [] way = "ten" -> high >= 10 /\ lead
Highest == Max({High(t) : t \in {u \in Tokens : u.kind # "other"}})
\* The scores after n games or points, in each way of playing.
After[n \in Nat] ==
  IF n = 0 THEN [way \in Ways |-> {<<0, 0>>}]
  ELSE [way \in Ways |->
          LET going == {s \in After[n - 1][way] : ~ EndsAt(way, s[1], s[2])}
          IN  {<<s[1] + 1, s[2]>> : s \in going} \cup {<<s[1], s[2] + 1>> : s \in going}]
Reached ==
  UNION {{<<way, s[1], s[2]>> : s \in After[n][way]} : way \in Ways, n \in 0..(2 * Highest)}
PlayedOut(t) ==
  \E way \in WaysOf(t.kind) : <<way, t.a, t.b>> \in Reached /\ EndsAt(way, t.a, t.b)
PlayedInPart(t) ==
  \E way \in WaysOf(t.kind) : <<way, t.a, t.b>> \in Reached /\ ~ EndsAt(way, t.a, t.b)

\* The sheet does not say how its sets were played: 7-6 ends a tiebreak set and
\* not an advantage set, 7-5 a match tiebreak to 7 and not one to 10.  Such a
\* set counts as won here, and only the last one may also be under way.
MatchOver == Needed \in Range(setsWon)
Follows(t) ==
  /\ ~ MatchOver /\ ~ underway
  /\ t.kind = "match tiebreak" => setsWon = <<Needed - 1, Needed - 1>>
  /\ \/ PlayedOut(t) /\ (t.noted => {t.a, t.b} = {6, 7})
     \/ PlayedInPart(t) /\ ~ t.noted

-----------------------------------------------------------------------------
ScoreInit ==
  /\ sheet = <<>> /\ ending = "open" /\ bestOf \in Lengths
  /\ setsWon = <<0, 0>> /\ underway = FALSE /\ mistakes = 0

WriteSet(t) ==
  /\ ending = "open" /\ Len(sheet) <= bestOf
  /\ sheet' = Append(sheet, t)
  /\ setsWon' = IF Follows(t) /\ PlayedOut(t)
                THEN [setsWon EXCEPT ![Listed(t)] = @ + 1] ELSE setsWon
  /\ underway' = IF Follows(t) THEN ~ PlayedOut(t) ELSE underway
  /\ mistakes' = mistakes + (IF Follows(t) THEN 0 ELSE 1)
  /\ mistakes' <= MaxMistakes
  /\ UNCHANGED <<ending, bestOf>>

WriteStatus(status) ==
  /\ ending = "open"
  /\ ending' = status
  /\ UNCHANGED <<sheet, bestOf, setsWon, underway, mistakes>>

ScoreNext ==
  \/ \E t \in Tokens : WriteSet(t)
  \/ \E status \in Endings : WriteStatus(status)

ScoreSpec == ScoreInit /\ [][ScoreNext]_scoreVars

-----------------------------------------------------------------------------
\* Some way of playing the last set goes on from its score.
LastGoesOn == sheet # <<>> /\ PlayedInPart(Last(sheet)) /\ ~ Last(sheet).noted

\* How a match can end: won by the listed winner, broken off before anyone
\* had won it (the last set played in a way that goes on, if one does), or
\* never played.
CouldEnd ==
  /\ mistakes = 0
  /\ CASE ending = "completed" -> setsWon[1] = Needed /\ ~ underway
       [] ending = "walkover" -> sheet = <<>>
       [] ending = "misplaced" -> FALSE
       [] OTHER -> ~ MatchOver \/ LastGoesOn

\* Broken off in a set that one way of playing ends and another does not, and
\* that won would have been the match: 6-4 7-6 of two advantage sets.
EndedInOneWay == ending = "broken off" /\ MatchOver /\ LastGoesOn

\* No row of an impossible match enters the history: a score that is accepted
\* is one that a match could have been played to and have ended so, each of
\* its sets under some rules, and it counts as completed exactly when that
\* match was played out.  Of the scores a match could have been played to,
\* those that EndedInOneWay are turned away, all of them and no others: the
\* validator takes such a set for won, and reports a status after the end.
SheetsAccepted ==
  ending # "open" =>
    LET valid == ScoreValid(sheet, ending)
    IN  /\ valid => CouldEnd /\ ScoreCompleted(sheet, ending) = (ending = "completed")
        /\ CouldEnd => valid = ~ EndedInOneWay
=============================================================================
