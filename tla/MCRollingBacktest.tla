------------------------- MODULE MCRollingBacktest -------------------------
EXTENDS RollingBacktest, TLC

CONSTANTS r1, r2, e1, e2, a1, m1, m2, m3, p, q

MCClients == Runs \cup Editors \cup Readers
\* A run that is repeated, or split in two.
MCRunIdOf == (r1 :> "first") @@ (r2 :> "first")
Setup(first, second, editors, readers, faults) ==
  [targets |-> (r1 :> first) @@ (r2 :> second), editors |-> editors,
   readers |-> readers, faults |-> faults]
MCSetupChoices ==
  {Setup(<<m1>>, <<m2>>, {}, {}, TRUE),
   Setup(<<m1>>, <<>>, {}, {a1}, TRUE),
   Setup(<<m1, m3>>, <<m1>>, {e1}, {}, TRUE),
   Setup(<<m1>>, <<>>, {e1, e2}, {}, FALSE)}
MCProps == <<p, q>>
\* No snapshot is old enough for m3.
MCCutoffOf == (m1 :> 3) @@ (m2 :> 3) @@ (m3 :> 0)
\* m1 is played between the data cutoff and the fit of the newer snapshot.
MCEarlyCutoffOf == (m1 :> 2) @@ (m2 :> 3) @@ (m3 :> 0)
MCSnapshots == {[cutoff |-> 1, fitted |-> 2], [cutoff |-> 2, fitted |-> 3]}
=============================================================================
