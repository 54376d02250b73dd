----------------------------- MODULE AppendOnly -----------------------------
(***************************************************************************)
(* What a ledger promises: it starts empty, grows at its end by one item   *)
(* at a time, and never holds an item twice.                               *)
(***************************************************************************)
EXTENDS Sequences, SequencesExt
VARIABLE items

Init == items = <<>>
Extend ==
  /\ Len(items') = Len(items) + 1
  /\ IsPrefix(items, items')
  /\ items'[Len(items')] \notin ToSet(items)
Spec == Init /\ [][Extend]_items
=============================================================================
