------------------------------- MODULE MCLockService -------------------------------
EXTENDS LockService, TLC
Leaf(kind, scoped) == [kind |-> kind, scoped |-> scoped]
Prop(id, kind, scoped) == [id |-> id, compound |-> FALSE, leaves |-> <<Leaf(kind, scoped)>>]
Win == Prop("win", "MATCH_WIN", FALSE)
Pct == Prop("pct", "FIRST_SERVE_WIN_PCT", FALSE)
Aces == Prop("aces", "ACES", FALSE)
Minutes == Prop("minutes", "DURATION_MIN", TRUE)
Rally == Prop("rally", "WINNERS", TRUE)
Unscoped == Prop("unscoped", "WINNERS", FALSE)
Both == [id |-> "both", compound |-> TRUE,
         leaves |-> <<Leaf("FIRST_SERVE_WIN_PCT", FALSE), Leaf("DURATION_MIN", TRUE)>>]

MCStable == {<<2, 2>>, <<0, 2>>, <<0, 3>>, <<3, 3>>, <<4, 4>>}
MCSensitive == {<<0, 2>>, <<2, 2>>}
MCHundredth == [x \in {<<y, s>> : y \in 0..4, s \in 1..4} |-> (100 * x[1]) \div x[2]]
MCCheckpoints == <<1, 2, 4>>
MCFixedPaths == [standard |-> 2, escalated |-> 4]
MCRallyCutoffs == <<2, 4, 5, 7>>
MCRallyYes == {x \in (1..4) \X (0..4) \X (1..4) : (x[1] + x[2] + x[3]) % 2 = 0}
MCWays == <<<<"yes", "yes", "yes", "yes">>, <<"no", "yes", "void", "yes">>,
         <<"void", "void", "no", "no">>, <<"yes", "yes", "unresolved", "no">>>>
MCWorlds == {[win |-> <<"yes", "yes", "no", "yes">>, aces |-> w[1],
              pct |-> <<"yes", "no", "yes", "no">>, minutes |-> w[2],
              both |-> <<"no", "no", "yes", "no">>] :
             w \in {<<MCWays[1], MCWays[2]>>, <<MCWays[2], MCWays[3]>>, <<MCWays[3], MCWays[4]>>,
                    <<MCWays[4], MCWays[1]>>}}

MCSnapshot == [framework |-> "v1.0", tour |-> "atp", data |-> 4, retirement |-> 4,
  duration |-> 0, anchor |-> 4, integration |-> 4, covered |-> TRUE, history |-> {"a"},
  completeSources |-> TRUE, manifest |-> "m", durationManifest |-> "m", exact |-> FALSE,
  evidence |-> "e"]
MCContext == [tour |-> "atp", cutoff |-> 5, start |-> 6, scenario |-> "s", localDate |-> 6,
  fitness |-> TRUE]
Record(p) == [player |-> p, tour |-> "atp", cutoff |-> 5, date |-> 6, manifest |-> "m"]
Given(p) == [player |-> p, available |-> 3, manifest |-> "m", complete |-> TRUE]
Base == [snapshot |-> MCSnapshot, context |-> MCContext,
  information |-> [cutoff |-> 5, scenario |-> "s", items |-> {4}, inactivity |-> {}],
  props |-> <<Win, Aces>>, policy |-> "escalating", mode |-> "development", paths |-> 0,
  store |-> TRUE, dirty |-> FALSE, allowDirty |-> FALSE, fingerprint |-> "complete",
  workers |-> 1, checkpoint |-> 0, platform |-> "none", vintage |-> "point in time",
  exactHistory |-> FALSE, sources |-> {[tour |-> "atp", available |-> 3]},
  records |-> {Record("a"), Record("b")}, mixtures |-> {}, identity |-> TRUE,
  retained |-> {"base"}, training |-> NoTraining, display |-> "unresolved",
  market |-> NoQuote, manifest |-> "m", parent |-> 0, reason |-> "initial", base |-> "match"]
AdaptiveBase == [Base EXCEPT !.policy = "adaptive", !.platform = "sportspredict"]
TimedBase == [Base EXCEPT !.snapshot.duration = 4, !.retained = {"base", "duration_fit"},
  !.props = <<Win, Minutes, Pct, Both>>, !.snapshot.framework = "v1.0"]
RallyBase == [TimedBase EXCEPT !.snapshot.framework = "v1.2", !.props = <<Win, Rally, Unscoped>>,
  !.retained = {"base", "duration_fit", "strength"}]
MarketBase == [RallyBase EXCEPT !.snapshot.framework = "v1.3", !.mode = "production", !.policy = "fixed",
  !.retained = @ \cup {"market_odds"}, !.props = <<Win, Minutes>>,
  !.market = [match |-> "match", observed |-> 4, captured |-> 5, retained |-> TRUE]]
OldBase == [Base EXCEPT !.snapshot.retirement = 0, !.records = {}, !.identity = FALSE,
  !.retained = {}, !.store = FALSE]
MCBases == {Base, AdaptiveBase, TimedBase, RallyBase, MarketBase, OldBase,
  [RallyBase EXCEPT !.policy = "adaptive", !.props = <<Win, Rally>>],
  [TimedBase EXCEPT !.policy = "adaptive"]}
Deviations == {
  [Base EXCEPT !.dirty = TRUE], [Base EXCEPT !.workers = 2], [Base EXCEPT !.platform = "sportspredict"],
  [Base EXCEPT !.information.cutoff = 6], [Base EXCEPT !.information.items = {5}], [Base EXCEPT !.props = <<>>],
  [Base EXCEPT !.props = <<Win, Win>>],
  [Base EXCEPT !.market = MarketBase.market],
  [MarketBase EXCEPT !.market.observed = 6], [MarketBase EXCEPT !.market.captured = 6],
  [MarketBase EXCEPT !.props = <<Minutes>>],
  [MarketBase EXCEPT !.context.start = 4],
  [Base EXCEPT !.information.inactivity = {Given("a"), Given("b")}],
  [Base EXCEPT !.information.inactivity = {Given("a"), Given("b")}, !.records = {}],
  [Base EXCEPT !.information.inactivity = {Given("a")}, !.records = {}],
  [Base EXCEPT !.information.inactivity = {Given("a"), [Given("b") EXCEPT !.available = 5]}, !.records = {}],
  [Base EXCEPT !.sources = {}], [Base EXCEPT !.sources = {[tour |-> "atp", available |-> 5]}],
  [Base EXCEPT !.sources = {[tour |-> "atp", available |-> 5]}, !.vintage = "retrospective", !.exactHistory = TRUE],
  [Base EXCEPT !.vintage = "retrospective"],
  [Base EXCEPT !.mode = "production"], [Base EXCEPT !.mode = "production", !.policy = "fixed", !.mixtures = {[player |-> "a", cutoff |-> 5, pinned |-> FALSE]}],
  [Base EXCEPT !.paths = 4], [Base EXCEPT !.paths = 3],
  [Base EXCEPT !.snapshot.data = 6], [Base EXCEPT !.snapshot.retirement = 6], [TimedBase EXCEPT !.snapshot.duration = 6],
  [TimedBase EXCEPT !.snapshot.duration = 6, !.snapshot.data = 6], [RallyBase EXCEPT !.snapshot.anchor = 6],
  [RallyBase EXCEPT !.snapshot.integration = 6], [RallyBase EXCEPT !.context.fitness = FALSE],
  [Base EXCEPT !.records = {Record("a")}], [Base EXCEPT !.mixtures = {[player |-> "c", cutoff |-> 5, pinned |-> FALSE]}],
  [Base EXCEPT !.mixtures = {[player |-> "a", cutoff |-> 4, pinned |-> FALSE]}],
  [Base EXCEPT !.snapshot.completeSources = FALSE], [Base EXCEPT !.snapshot.manifest = "n"],
  [Base EXCEPT !.snapshot.exact = TRUE], [Base EXCEPT !.snapshot.exact = TRUE, !.training = [verified |-> 4, evidence |-> "e"]],
  [Base EXCEPT !.snapshot.exact = TRUE, !.training = [verified |-> 5, evidence |-> "e"]],
  [TimedBase EXCEPT !.identity = FALSE], [TimedBase EXCEPT !.display = "unknown"],
  [OldBase EXCEPT !.identity = TRUE, !.retained = {"base"}], [Base EXCEPT !.retained = {}], [Base EXCEPT !.reason = "health"],
  [RallyBase EXCEPT !.snapshot.framework = "v1.1", !.policy = "adaptive"]}
Revised == {[AdaptiveBase EXCEPT !.parent = 1, !.reason = "health"], [Base EXCEPT !.parent = 1],
  [AdaptiveBase EXCEPT !.parent = 1, !.reason = "health", !.base = "other"]}
MCRequests == MCBases \cup Deviations \cup Revised
MCChunked == {[RallyBase EXCEPT !.props = <<Win, Aces>>, !.workers = 2, !.checkpoint = 2]}
=============================================================================
