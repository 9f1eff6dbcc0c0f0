---------------------------- MODULE MCSoftLimits ----------------------------
(***************************************************************************)
(* SoftLimits with positions of twelve values: a pair of limits with room  *)
(* on both sides and one at the lower end of the range.                    *)
(***************************************************************************)
EXTENDS SoftLimits

SoftLimitPairs == {<<-2, 2>>, <<-6, 3>>}

=============================================================================
