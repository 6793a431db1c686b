------------------------------ MODULE Smoothing ------------------------------
(***************************************************************************)
(* SmoothZ16 and SmoothZ16Clear: a ring of Window heights that is read a   *)
(* vector of Lanes at a time, from the newest heights backwards.  The cell *)
(* of ring index i is rbuf[i + Lanes]; the Lanes cells before the ring     *)
(* mirror its end, so that a vector that reaches back over index 0 is      *)
(* still one load.                                                         *)
(***************************************************************************)
EXTENDS Integers, FiniteSets

CONSTANTS
  Lanes,     \* floats of a vector (4)
  Window,    \* floats of the ring (16)
  Heights    \* the heights of the head bone

ASSUME SmoothingAssumption ==
  /\ Lanes \in Nat \ {0}
  /\ Window \in Nat /\ Window > Lanes /\ Window % Lanes = 0
  /\ Heights \subseteq Int

Cells == 0 .. Window + Lanes - 1

VARIABLES
  rbuf,               \* the cells
  rbuf_offset,        \* the ring index of the next height
  rbuf_numelements,   \* how many heights the ring holds
  mean,               \* the last answer: how often it adds each height, its divisor
  recent              \* history: the last Window heights, for the refinement

vars == <<rbuf, rbuf_offset, rbuf_numelements, mean, recent>>

Added == Heights \ {0}

None == [times |-> [z \in Added |-> 0], of |-> 0]

TypeOK ==
  /\ rbuf \in [Cells -> Heights \cup {0}]
  /\ rbuf_offset \in 0 .. Window
  /\ rbuf_numelements \in 0 .. Window
  /\ mean \in [times : [Added -> Nat], of : 0 .. Window]

Abstract == INSTANCE MovingAverage WITH recent <- recent, mean <- mean

Init ==
  /\ rbuf = [i \in Cells |-> 0]
  /\ rbuf_offset = 0
  /\ rbuf_numelements = 0
  /\ mean = None
  /\ recent = <<>>

-----------------------------------------------------------------------------
\* MUTANT of Stored: the mirror is left out.
StoredOnce(z) ==
  {IF rbuf_offset = Window THEN Lanes ELSE rbuf_offset + Lanes}

\* The cells a height is stored in: its own, and the mirror of the last Lanes.
Stored(z) ==
  CASE rbuf_offset < Window - Lanes -> {rbuf_offset + Lanes}
    [] rbuf_offset = Window         -> {Lanes}
    [] OTHER -> {rbuf_offset + Lanes, rbuf_offset + Lanes - Window}

NextOffset == IF rbuf_offset = Window THEN 1 ELSE rbuf_offset + 1

\* MUTANT of NextNumelements: the count is not capped.
NextNumelementsUncapped == rbuf_numelements + 1

NextNumelements ==
  IF rbuf_numelements < Window THEN rbuf_numelements + 1 ELSE rbuf_numelements

\* The first cell of the i-th vector read, from offset r.
Vector(i, r) == IF i = 0 THEN r ELSE (r - Lanes * i) % Window

\* The vectors read for n heights, lane by lane.
Loaded(n) == (0 .. (n + Lanes - 1) \div Lanes - 1) \X (0 .. Lanes - 1)

\* What all their lanes add up to, divided by n.
MeanOf(cells, r, n) ==
  [times |-> [z \in Added |->
                Cardinality({p \in Loaded(n) : cells[Vector(p[1], r) + p[2]] = z})],
   of |-> n]

SmoothZ16(z) ==
  /\ rbuf' = [c \in Cells |-> IF c \in Stored(z) THEN z ELSE rbuf[c]]
  /\ rbuf_offset' = NextOffset
  /\ rbuf_numelements' = NextNumelements
  /\ mean' = MeanOf(rbuf', rbuf_offset', rbuf_numelements')
  /\ recent' = Abstract!Remember(z)

Cleared == [c \in Cells |-> 0]

SmoothZ16Clear ==
  /\ rbuf' = Cleared
  /\ rbuf_offset' = 0
  /\ rbuf_numelements' = 0
  /\ mean' = None
  /\ recent' = <<>>

Next == SmoothZ16Clear \/ \E z \in Heights : SmoothZ16(z)

Spec == Init /\ [][Next]_vars

-----------------------------------------------------------------------------
\* SmoothZ16 answers the mean of the last Window heights since it was cleared,
\* although it adds up whole vectors of a ring that wraps in the middle of one,
\* some of them not filled yet.
ImplementsMovingAverage == Abstract!Spec
=============================================================================
