---------------------------- MODULE MovingAverage ----------------------------
(***************************************************************************)
(* What SmoothZ16 promises: the mean of the last Window heights it was     *)
(* given since it was cleared, of fewer while there are fewer.  A mean is  *)
(* told by how often each height is in its sum, a zero adding nothing, and *)
(* by what the sum is divided by.                                          *)
(***************************************************************************)
EXTENDS Integers, Sequences, FiniteSets

CONSTANTS Window, Heights

VARIABLES
  recent,   \* the last heights, the newest at the end
  mean      \* the last answer

Added == Heights \ {0}

None == [times |-> [z \in Added |-> 0], of |-> 0]

MeanOf(s) ==
  [times |-> [z \in Added |-> Cardinality({i \in DOMAIN s : s[i] = z})],
   of |-> Len(s)]

Remember(z) ==
  LET s == Append(recent, z)
  IN  IF Len(s) > Window THEN Tail(s) ELSE s

Init == recent = <<>> /\ mean = None

Smooth(z) == recent' = Remember(z) /\ mean' = MeanOf(recent')

Clear == recent' = <<>> /\ mean' = None

Next == Clear \/ \E z \in Heights : Smooth(z)

Spec == Init /\ [][Next]_<<recent, mean>>
=============================================================================
