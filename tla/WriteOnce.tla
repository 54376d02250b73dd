----------------------------- MODULE WriteOnce -----------------------------
(***************************************************************************)
(* What a published artifact promises: one value is set, once, and a value *)
(* that is set never changes.                                              *)
(***************************************************************************)
CONSTANTS Values, Unset
VARIABLE value

Init == value = Unset
Publish(v) == value = Unset /\ value' = v
Next == \E v \in Values : Publish(v)
Spec == Init /\ [][Next]_value
=============================================================================
