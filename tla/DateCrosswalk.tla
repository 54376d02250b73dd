---------------------------- MODULE DateCrosswalk ----------------------------
(***************************************************************************)
(* The exact dates of historical matches: build_exact_date_crosswalk joins *)
(* the rows of a tour-year, which only know when their event began, with   *)
(* the rows of a second source, which know the day but not the player ids. *)
(* The join is by the keys of the two names, a window of days after the    *)
(* start, and what both sources say of the match; it is never a guess.     *)
(*                                                                         *)
(* A table of rows is a sequence, so that a row may occur twice.           *)
(***************************************************************************)
EXTENDS Naturals, Sequences, FiniteSets

CONSTANTS KeysOf,       \* per player, _sackmann_name_keys and the aliases
          DaysBefore,   \* a match may be dated this long before the start
          DaysAfter     \* and this long after it

Unreadable == 0   \* a date that does not parse
Unknown == "unknown"

\* _compatible: what one side does not know is no conflict.
Agree(x, y) == x = Unknown \/ y = Unknown \/ x = y

SamePlayers(row, other) ==
  other.winner \in KeysOf[row.winner] /\ other.loser \in KeysOf[row.loser]
InWindow(row, other) ==
  /\ row.start # Unreadable /\ other.date # Unreadable
  /\ row.start <= other.date + DaysBefore
  /\ other.date <= row.start + DaysAfter

\* structurally_matches, without and with strict.  A round the second source
\* leaves out agrees with none the first may expect; one that cannot be
\* expected of the first agrees with any.
BaseMatch(row, other) ==
  Agree(row.surface, other.surface) /\ Agree(row.bestOf, other.bestOf)
StrictMatch(row, other) ==
  /\ BaseMatch(row, other) /\ Agree(row.sets, other.sets)
  /\ row.round = Unknown \/ other.round = row.round

DatedCandidates(row, others) ==
  {j \in DOMAIN others : SamePlayers(row, others[j]) /\ InWindow(row, others[j])}
StrictCandidates(row, others) ==
  {j \in DatedCandidates(row, others) : StrictMatch(row, others[j])}
BaseCandidates(row, others) ==
  {j \in DatedCandidates(row, others) : BaseMatch(row, others[j])}

\* The status of a row by itself, and the row it is joined with (or 0).
Joined(row, others) ==
  LET strict == StrictCandidates(row, others)
      base == BaseCandidates(row, others)
  IN  IF Cardinality(strict) = 1 THEN "matched"
      ELSE IF Cardinality(strict) > 1 \/ Cardinality(base) > 1 THEN "ambiguous"
      ELSE IF strict = {} /\ Cardinality(base) = 1 THEN "conflict"
      ELSE "unmatched"
JoinedWith(row, others) ==
  IF Joined(row, others) = "matched"
  THEN CHOOSE j \in StrictCandidates(row, others) : TRUE ELSE 0

\* A match that is listed twice is not dated, and neither are two matches
\* that were joined with one row.  Duplicates are marked first, and a row
\* marked so no longer uses up the row it was joined with.
ListedTwice(table, i) ==
  \E k \in DOMAIN table \ {i} :
    /\ table[k].event = table[i].event /\ table[k].round = table[i].round
    /\ table[k].winner = table[i].winner /\ table[k].loser = table[i].loser
Alone(table, others, i) ==
  Joined(table[i], others) = "matched" /\ ~ ListedTwice(table, i)
\* Fault: nothing is reused.
NeverReused(table, others, i) == FALSE
Reused(table, others, i) ==
  \E k \in DOMAIN table \ {i} :
    /\ Alone(table, others, k)
    /\ JoinedWith(table[k], others) = JoinedWith(table[i], others)

JoinStatus(table, others, i) ==
  IF ListedTwice(table, i) THEN "listed twice"
  ELSE IF Alone(table, others, i) /\ Reused(table, others, i) THEN "reused"
  ELSE Joined(table[i], others)
ExactDate(table, others, i) ==
  IF JoinStatus(table, others, i) = "matched"
  THEN others[JoinedWith(table[i], others)].date ELSE Unreadable

\* The manifest names the two tables by their contents, and says whether every
\* row was dated.
Crosswalk(table, others) ==
  [table |-> table, others |-> others,
   status |-> [i \in DOMAIN table |-> JoinStatus(table, others, i)],
   date |-> [i \in DOMAIN table |-> ExactDate(table, others, i)],
   complete |-> \A i \in DOMAIN table : JoinStatus(table, others, i) = "matched"]
=============================================================================
