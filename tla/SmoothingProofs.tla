-------------------------- MODULE SmoothingProofs --------------------------
(***************************************************************************)
(* For every number of lanes, every window and all heights: SmoothZ16      *)
(* answers the mean of the last heights.                                   *)
(***************************************************************************)
EXTENDS Smoothing, Sequences, FunctionTheorems, FiniteSetTheorems, TLAPS

Ring == 0 .. Window - 1

\* How many heights ago a ring index was stored to, if it was.
Age(x) ==
  IF x < rbuf_offset THEN rbuf_offset - 1 - x ELSE rbuf_offset - 1 - x + Window

\* The height there: the cells not stored to since the ring was cleared are zero.
Held(x) == IF Age(x) < Len(recent) THEN recent[Len(recent) - Age(x)] ELSE 0

\* The ring holds the last heights in the order of their age, and the cells
\* before it what its end holds.
RingInv ==
  /\ recent \in Seq(Heights)
  /\ rbuf_numelements = Len(recent)
  /\ \A x \in Ring : rbuf[x + Lanes] = Held(x)
  /\ \A x \in Window - Lanes .. Window - 1 : rbuf[x + Lanes - Window] = Held(x)

StoreTypes ==
  /\ rbuf \in [Cells -> Heights \cup {0}]
  /\ rbuf_offset \in 0 .. Window
  /\ rbuf_numelements \in 0 .. Window

IInv == StoreTypes /\ RingInv

\* The answer is worth a type only because of what the ring holds.
Averages == [times : [Added -> Nat], of : 0 .. Window]

-----------------------------------------------------------------------------
(* What is loaded.                                                         *)

Lane == 0 .. Lanes - 1

\* The age of the height in a lane of the i-th vector.
AgeLoaded(i, l) == Lanes * i + Lanes - 1 - l

\* As many vectors as the heights need, and no more than the ring has.
LEMMA VectorsLoaded ==
  ASSUME NEW n \in 0 .. Window, NEW i \in 0 .. (n + Lanes - 1) \div Lanes - 1
  PROVE  i \in Nat /\ Lanes * i \in Nat /\ Lanes * i + Lanes <= Window
  <1>1. PICK q \in Nat : Window = Lanes * q
    <2>1. Window \div Lanes \in Nat /\ Window = Lanes * (Window \div Lanes) + (Window % Lanes)
      BY SmoothingAssumption
    <2> QED BY <2>1, SmoothingAssumption
  <1> DEFINE k == (n + Lanes - 1) \div Lanes
  <1>2. k \in Nat /\ Lanes * k <= n + Lanes - 1
    BY SmoothingAssumption
  <1>3. i \in Nat /\ i + 1 <= k
    BY <1>2
  <1>4. k <= q
    <2>1. Lanes * k < Lanes * (q + 1)
      BY <1>1, <1>2, SmoothingAssumption
    <2> HIDE DEF k
    <2> QED BY <2>1, <1>1, <1>2, SmoothingAssumption
  <1>5. Lanes * (i + 1) <= Lanes * q
    <2> HIDE DEF k
    <2> QED BY <1>1, <1>2, <1>3, <1>4, SmoothingAssumption
  <1>6. Lanes * i \in Nat /\ Lanes * (i + 1) = Lanes * i + Lanes
    BY <1>3, SmoothingAssumption
  <1> QED BY <1>1, <1>3, <1>5, <1>6

\* A height of every age below n is in one of the lanes loaded for n heights.
LEMMA AgesLoaded ==
  ASSUME NEW n \in 0 .. Window, NEW k \in 0 .. n - 1
  PROVE  \E p \in Loaded(n) : AgeLoaded(p[1], p[2]) = k
  <1> DEFINE i == k \div Lanes
             l == Lanes - 1 - (k % Lanes)
  <1>1. i \in Nat /\ k % Lanes \in 0 .. Lanes - 1 /\ k = Lanes * i + (k % Lanes)
    BY SmoothingAssumption
  <1>2. l \in 0 .. Lanes - 1
    BY <1>1, SmoothingAssumption
  <1> DEFINE v == (n + Lanes - 1) \div Lanes
  <1>3. v \in Nat /\ n <= Lanes * v
    <2>1. v \in Int /\ n + Lanes - 1 = Lanes * v + ((n + Lanes - 1) % Lanes)
          /\ (n + Lanes - 1) % Lanes \in 0 .. Lanes - 1 /\ v \in Nat
      BY SmoothingAssumption
    <2> QED BY <2>1, SmoothingAssumption
  <1>4. i < v
    <2>1. Lanes * i < Lanes * v
      BY <1>1, <1>3, SmoothingAssumption
    <2> HIDE DEF i, v
    <2> QED BY <2>1, <1>1, <1>3, SmoothingAssumption
  <1>5. <<i, l>> \in Loaded(n)
    BY <1>1, <1>2, <1>3, <1>4 DEF Loaded
  <1>6. AgeLoaded(i, l) = k
    BY <1>1, SmoothingAssumption DEF AgeLoaded
  <1> QED BY <1>5, <1>6

\* Two lanes never hold heights of the same age.
LEMMA AgesApart ==
  ASSUME NEW i \in Nat, NEW j \in Nat, NEW l \in Lane, NEW m \in Lane,
         AgeLoaded(i, l) = AgeLoaded(j, m)
  PROVE  i = j /\ l = m
  <1>1. Lanes * i + (Lanes - 1 - l) = Lanes * j + (Lanes - 1 - m)
    BY SmoothingAssumption DEF AgeLoaded, Lane
  <1>2. ASSUME NEW a \in Nat, NEW b \in Nat, a < b PROVE Lanes * a + Lanes <= Lanes * b
    <2>1. Lanes * (a + 1) <= Lanes * b
      BY <1>2, SmoothingAssumption
    <2> QED BY <2>1, SmoothingAssumption
  <1>3. ~(i < j) /\ ~(j < i)
    BY <1>1, <1>2, SmoothingAssumption DEF Lane
  <1>4. i = j
    BY <1>3
  <1> QED BY <1>1, <1>4, SmoothingAssumption DEF Lane

\* What lies that far back from an offset, modulo the window.
LEMMA Backwards ==
  ASSUME NEW r \in 1 .. Window, NEW b \in 1 .. Window
  PROVE  (r - b) % Window = IF r - b < 0 THEN r - b + Window ELSE r - b
  <1>1. r - b \in -Window .. Window - 1 /\ r - b >= 1 - Window
    BY SmoothingAssumption
  <1>2. ASSUME NEW d \in 0 .. Window - 1 PROVE d % Window = d
    BY <1>2, SmoothingAssumption
  <1>3. CASE r - b >= 0
    BY <1>3, <1>2, SmoothingAssumption
  <1>4. CASE r - b < 0
    <2>1. r - b + Window \in 0 .. Window - 1
      BY <1>1, <1>4, SmoothingAssumption
    <2>2. (r - b) % Window = r - b + Window
      <3> DEFINE d == r - b
      <3>1. d \in Int /\ d + Window >= 0 /\ d + Window < Window
        BY <2>1, SmoothingAssumption
      <3> HIDE DEF d
      <3>2. d = Window * (d \div Window) + (d % Window)
            /\ d \div Window \in Int /\ d % Window \in 0 .. Window - 1
        BY <3>1, SmoothingAssumption
      <3>3. d \div Window = -1
        <4>1. Window * (d \div Window) < 0 /\ Window * (d \div Window) > -2 * Window
          BY <3>1, <3>2, SmoothingAssumption
        <4> DEFINE e == d \div Window
        <4> HIDE DEF e
        <4>2. ~(e >= 0)
          BY <3>2, <4>1, SmoothingAssumption DEF e
        <4>3. ~(e <= -2)
          BY <3>2, <4>1, SmoothingAssumption DEF e
        <4> QED BY <3>2, <4>2, <4>3 DEF e
      <3> QED BY <3>1, <3>2, <3>3, SmoothingAssumption DEF d
    <2> QED BY <2>2, <1>4
  <1> QED BY <1>1, <1>3, <1>4

\* A lane of a vector read from the current offset holds the height of its age,
\* or a zero, also where the vector starts before the ring.
LEMMA LoadedHolds ==
  ASSUME IInv, rbuf_offset # 0,
         NEW i \in 0 .. (rbuf_numelements + Lanes - 1) \div Lanes - 1, NEW l \in Lane
  PROVE  rbuf[Vector(i, rbuf_offset) + l] =
           IF AgeLoaded(i, l) < Len(recent)
           THEN recent[Len(recent) - AgeLoaded(i, l)] ELSE 0
  <1> DEFINE r == rbuf_offset
             b == Lanes * i
             x == IF r - b + l - Lanes >= 0 THEN r - b + l - Lanes
                  ELSE r - b + l - Lanes + Window
             c == Vector(i, r) + l
  <1>1. r \in 1 .. Window /\ rbuf_numelements \in 0 .. Window
    BY DEF IInv, StoreTypes
  <1>2. i \in Nat /\ b \in Nat /\ b + Lanes <= Window
    BY <1>1, VectorsLoaded
  <1>3. l \in Nat /\ l < Lanes
    BY SmoothingAssumption DEF Lane
  <1>4. i # 0 => b >= 1
    BY <1>2, SmoothingAssumption
  <1>5. i = 0 => b = 0
    BY SmoothingAssumption
  <1>6. c = IF i # 0 /\ r - b < 0 THEN r - b + Window + l ELSE r - b + l
    <2>1. CASE i = 0
      BY <1>1, <1>5, <2>1 DEF Vector
    <2>2. CASE i # 0
      <3>1. b \in 1 .. Window
        BY <1>2, <1>4, <2>2, SmoothingAssumption
      <3>2. (r - b) % Window = IF r - b < 0 THEN r - b + Window ELSE r - b
        <4> HIDE DEF b
        <4> QED BY <1>1, <3>1, Backwards
      <3> QED BY <2>2, <3>2 DEF Vector
    <2> QED BY <2>1, <2>2
  <1> HIDE DEF c, b
  <1>7. x \in Ring /\ Age(x) = b + Lanes - 1 - l
    BY <1>1, <1>2, <1>3, SmoothingAssumption DEF Ring, Age
  <1>8. Held(x) = IF AgeLoaded(i, l) < Len(recent)
                  THEN recent[Len(recent) - AgeLoaded(i, l)] ELSE 0
    BY <1>7 DEF Held, AgeLoaded, b
  <1>9. \/ c = x + Lanes
        \/ x \in Window - Lanes .. Window - 1 /\ c = x + Lanes - Window
    BY <1>1, <1>2, <1>3, <1>4, <1>5, <1>6, SmoothingAssumption
  <1>10. rbuf[c] = Held(x)
    BY <1>7, <1>9 DEF IInv, RingInv
  <1> QED BY <1>8, <1>10 DEF c

\* Each height is added as often as it is among the last ones.
LEMMA AddedAsOften ==
  ASSUME IInv, rbuf_offset # 0, NEW z \in Added
  PROVE  LET A == {p \in Loaded(rbuf_numelements) :
                     rbuf[Vector(p[1], rbuf_offset) + p[2]] = z}
             B == {i \in DOMAIN recent : recent[i] = z}
         IN  Cardinality(A) \in Nat /\ Cardinality(A) = Cardinality(B)
  <1> DEFINE n == rbuf_numelements
             L == Loaded(n)
             A == {p \in L : rbuf[Vector(p[1], rbuf_offset) + p[2]] = z}
             B == {i \in DOMAIN recent : recent[i] = z}
             f == [p \in A |-> n - AgeLoaded(p[1], p[2])]
  <1>1. n \in 0 .. Window /\ n = Len(recent) /\ DOMAIN recent = 1 .. n
    BY DEF IInv, StoreTypes, RingInv
  <1>2. IsFiniteSet(A)
    <2> DEFINE v == (n + Lanes - 1) \div Lanes - 1
    <2>1. v \in Int /\ Lanes - 1 \in Int
      BY <1>1, SmoothingAssumption
    <2>2. IsFiniteSet(0 .. v) /\ IsFiniteSet(0 .. Lanes - 1)
      <3> HIDE DEF v
      <3> QED BY <2>1, FS_Interval
    <2>3. IsFiniteSet(L)
      BY <2>2, FS_Product DEF Loaded
    <2> HIDE DEF L
    <2>4. A \in SUBSET L
      OBVIOUS
    <2> HIDE DEF A
    <2> QED BY <2>3, <2>4, FS_Subset
  <1>3. \A p \in L : /\ p[1] \in Nat /\ p[2] \in Lane
                     /\ AgeLoaded(p[1], p[2]) \in Nat
                     /\ rbuf[Vector(p[1], rbuf_offset) + p[2]] =
                          IF AgeLoaded(p[1], p[2]) < n
                          THEN recent[n - AgeLoaded(p[1], p[2])] ELSE 0
    <2> TAKE p \in L
    <2>1. p[1] \in 0 .. (n + Lanes - 1) \div Lanes - 1 /\ p[2] \in Lane
      BY DEF Loaded, Lane
    <2>2. p[1] \in Nat /\ Lanes * p[1] \in Nat
      BY <1>1, <2>1, VectorsLoaded
    <2>3. AgeLoaded(p[1], p[2]) \in Nat
      BY <2>1, <2>2, SmoothingAssumption DEF AgeLoaded, Lane
    <2> QED BY <1>1, <2>1, <2>2, <2>3, LoadedHolds
  <1>4. z # 0
    BY DEF Added
  <1>5. \A p \in A : f[p] \in B
    <2> TAKE p \in A
    <2>1. AgeLoaded(p[1], p[2]) \in Nat /\ AgeLoaded(p[1], p[2]) < n
          /\ recent[n - AgeLoaded(p[1], p[2])] = z
      BY <1>3, <1>4
    <2> QED BY <1>1, <2>1
  <1>6. ASSUME NEW p \in A, NEW q \in A, f[p] = f[q] PROVE p = q
    <2>1. AgeLoaded(p[1], p[2]) = AgeLoaded(q[1], q[2])
      BY <1>1, <1>3, <1>6
    <2>2. p[1] = q[1] /\ p[2] = q[2]
      BY <1>3, <2>1, AgesApart
    <2> QED BY <2>2 DEF Loaded
  <1>7. \A i \in B : \E p \in A : f[p] = i
    <2> TAKE i \in B
    <2>1. n - i \in 0 .. n - 1
      BY <1>1
    <2>2. PICK p \in L : AgeLoaded(p[1], p[2]) = n - i
      BY <1>1, <2>1, AgesLoaded
    <2>3. n - AgeLoaded(p[1], p[2]) = i /\ AgeLoaded(p[1], p[2]) < n
      BY <1>1, <2>1, <2>2
    <2>4. p \in A
      BY <1>3, <2>3
    <2> QED BY <2>3, <2>4
  <1>8. ExistsBijection(A, B)
    <2>1. f \in [A -> B]
      BY <1>5
    <2> HIDE DEF f, A, B
    <2>2. f \in Bijection(A, B)
      BY <1>6, <1>7, <2>1, Fun_IsBij
    <2> QED BY <2>2 DEF ExistsBijection
  <1> HIDE DEF A, B
  <1>9. Cardinality(A) \in Nat /\ Cardinality(A) = Cardinality(B)
    BY <1>2, <1>8, FS_CardinalityType, FS_Bijection
  <1> QED BY <1>9 DEF A, B, L, n

\* What is added up now is the mean of the last heights, if there are any.
Averaging ==
  rbuf_offset # 0 =>
    /\ MeanOf(rbuf, rbuf_offset, rbuf_numelements) = Abstract!MeanOf(recent)
    /\ Abstract!MeanOf(recent) \in Averages

LEMMA MeanIsAverage == IInv => Averaging
  <1> SUFFICES ASSUME IInv, rbuf_offset # 0
               PROVE  /\ MeanOf(rbuf, rbuf_offset, rbuf_numelements) = Abstract!MeanOf(recent)
                      /\ Abstract!MeanOf(recent) \in Averages
    BY DEF Averaging
  <1> DEFINE A(z) == {p \in Loaded(rbuf_numelements) :
                        rbuf[Vector(p[1], rbuf_offset) + p[2]] = z}
             B(z) == {i \in DOMAIN recent : recent[i] = z}
  <1>1. \A z \in Added : Cardinality(A(z)) \in Nat /\ Cardinality(A(z)) = Cardinality(B(z))
    BY AddedAsOften
  <1>2. rbuf_numelements = Len(recent) /\ rbuf_numelements \in 0 .. Window
    BY DEF IInv, StoreTypes, RingInv
  <1>3. MeanOf(rbuf, rbuf_offset, rbuf_numelements) =
          [times |-> [z \in Added |-> Cardinality(A(z))], of |-> rbuf_numelements]
    BY DEF MeanOf
  <1>4. Abstract!MeanOf(recent) =
          [times |-> [z \in Added |-> Cardinality(B(z))], of |-> Len(recent)]
    BY DEF Abstract!MeanOf, Abstract!Added, Added, Abstract!Cardinality, Cardinality
  <1> HIDE DEF A, B
  <1> QED BY <1>1, <1>2, <1>3, <1>4 DEF Averages

-----------------------------------------------------------------------------
LEMMA InitIInv == Init => IInv
  <1> SUFFICES ASSUME Init PROVE IInv
    OBVIOUS
  <1>1. StoreTypes
    BY SmoothingAssumption DEF Init, StoreTypes, Cells
  <1>2. RingInv
    BY SmoothingAssumption DEF Init, RingInv, Held, Age, Ring, Cells
  <1> QED BY <1>1, <1>2 DEF IInv

LEMMA ClearIInv == ASSUME SmoothZ16Clear PROVE IInv'
  <1>1. StoreTypes'
    BY SmoothingAssumption DEF SmoothZ16Clear, Cleared, StoreTypes, Cells
  <1>2. RingInv'
    BY SmoothingAssumption DEF SmoothZ16Clear, Cleared, RingInv, Held, Age, Ring, Cells
  <1> QED BY <1>1, <1>2 DEF IInv

\* The last heights, and that those that stay are one older.
LEMMA Remembered ==
  ASSUME IInv, NEW z \in Heights, recent' = Abstract!Remember(z)
  PROVE  /\ recent' \in Seq(Heights)
         /\ Len(recent') = NextNumelements
         /\ recent'[Len(recent')] = z
         /\ \A k \in 0 .. Len(recent') - 2 :
              /\ k < Len(recent)
              /\ recent'[Len(recent') - (k + 1)] = recent[Len(recent) - k]
  <1>1. recent \in Seq(Heights) /\ rbuf_numelements = Len(recent)
        /\ Len(recent) \in 0 .. Window
    BY DEF IInv, RingInv, StoreTypes
  <1> DEFINE s == Append(recent, z)
  <1>2. s \in Seq(Heights) /\ Len(s) = Len(recent) + 1 /\ s[Len(s)] = z
        /\ \A i \in 1 .. Len(recent) : s[i] = recent[i]
    BY <1>1
  <1>3. CASE Len(s) <= Window
    <2>1. recent' = s
      BY <1>2, <1>3, SmoothingAssumption DEF Abstract!Remember
    <2> HIDE DEF s
    <2>2. Len(s) = NextNumelements
      BY <1>1, <1>2, <1>3, SmoothingAssumption DEF NextNumelements
    <2>3. ASSUME NEW k \in 0 .. Len(s) - 2
          PROVE  k < Len(recent) /\ s[Len(s) - (k + 1)] = recent[Len(recent) - k]
      <3>1. /\ k < Len(recent) /\ Len(recent) - k \in 1 .. Len(recent)
            /\ Len(s) - (k + 1) = Len(recent) - k
        BY <1>1, <1>2, <2>3
      <3> QED BY <1>2, <3>1
    <2> QED BY <1>2, <2>1, <2>2, <2>3
  <1>4. CASE Len(s) > Window
    <2>1. recent' = Tail(s)
      BY <1>4 DEF Abstract!Remember
    <2> HIDE DEF s
    <2>2. Tail(s) \in Seq(Heights) /\ Len(Tail(s)) = Len(s) - 1
          /\ \A i \in 1 .. Len(s) - 1 : Tail(s)[i] = s[i + 1]
      <3>1. s \in Seq(Heights) /\ Len(s) \in Nat /\ Len(s) > 0 /\ s # <<>>
        BY <1>1, <1>2
      <3> QED BY <3>1
    <2>3. Len(recent) = Window /\ Len(s) = Window + 1 /\ Len(recent') = Window
      <3>1. /\ Len(recent) \in 0 .. Window /\ Len(s) = Len(recent) + 1
            /\ Len(s) > Window /\ Len(recent') = Len(s) - 1
        BY <1>1, <1>2, <1>4, <2>1, <2>2, Zenon
      <3>2. Window \in Nat
        BY SmoothingAssumption
      <3> HIDE SmoothingAssumption
      <3> QED BY <3>1, <3>2
    <2>4. Len(recent') = NextNumelements
      BY <1>1, <2>3, SmoothingAssumption DEF NextNumelements
    <2>5. recent'[Len(recent')] = z
      <3>1. Window \in 1 .. Len(s) - 1 /\ Window + 1 = Len(s)
        BY <2>3, SmoothingAssumption
      <3>2. Tail(s)[Window] = s[Window + 1]
        BY <2>2, <3>1
      <3> QED BY <1>2, <2>1, <2>3, <3>1, <3>2
    <2>6. ASSUME NEW k \in 0 .. Len(recent') - 2
          PROVE  /\ k < Len(recent)
                 /\ recent'[Len(recent') - (k + 1)] = recent[Len(recent) - k]
      <3>1. /\ k < Window
            /\ Window - (k + 1) \in 1 .. Len(s) - 1
            /\ Window - k \in 1 .. Len(recent)
            /\ (Window - (k + 1)) + 1 = Window - k
        BY <2>3, <2>6, SmoothingAssumption
      <3>2. Tail(s)[Window - (k + 1)] = s[(Window - (k + 1)) + 1]
        BY <2>2, <3>1
      <3>3. s[Window - k] = recent[Window - k]
        BY <1>2, <3>1
      <3> QED BY <2>1, <2>3, <3>1, <3>2, <3>3
    <2> QED BY <2>1, <2>2, <2>4, <2>5, <2>6
  <1> QED BY <1>1, <1>2, <1>3, <1>4, SmoothingAssumption

\* A store makes every other height one older; one that is as old as the window
\* is where the new one goes.
LEMMA StoreIInv ==
  ASSUME IInv, NEW z \in Heights, SmoothZ16(z)
  PROVE  IInv' /\ rbuf_offset' # 0
  <1> DEFINE o == rbuf_offset
             at == IF o = Window THEN 0 ELSE o
  <1>1. /\ rbuf \in [Cells -> Heights \cup {0}]
        /\ o \in 0 .. Window
        /\ recent \in Seq(Heights) /\ rbuf_numelements = Len(recent)
        /\ Len(recent) \in 0 .. Window
    BY DEF IInv, StoreTypes, RingInv
  <1>2. /\ at \in Ring /\ rbuf_offset' = at + 1
        /\ rbuf_offset' \in 1 .. Window
    BY <1>1, SmoothingAssumption DEF SmoothZ16, NextOffset, Ring
  <1>3. /\ recent' \in Seq(Heights) /\ Len(recent') = NextNumelements
        /\ recent'[Len(recent')] = z
        /\ \A k \in 0 .. Len(recent') - 2 :
             k < Len(recent) /\ recent'[Len(recent') - (k + 1)] = recent[Len(recent) - k]
    BY Remembered DEF SmoothZ16
  <1>4. /\ Len(recent') \in 1 .. Window
        /\ Len(recent') = IF Len(recent) < Window THEN Len(recent) + 1 ELSE Window
    BY <1>1, <1>3, SmoothingAssumption DEF NextNumelements
  <1>5. \A c \in Cells : rbuf'[c] = IF c \in Stored(z) THEN z ELSE rbuf[c]
    BY DEF SmoothZ16
  <1>6. StoreTypes'
    <2>1. rbuf' \in [Cells -> Heights \cup {0}]
      BY <1>1, <1>5 DEF SmoothZ16
    <2>2. rbuf_numelements' = NextNumelements /\ NextNumelements \in 0 .. Window
      BY <1>1, <1>3, <1>4, SmoothingAssumption DEF SmoothZ16
    <2> QED BY <1>2, <2>1, <2>2, SmoothingAssumption DEF StoreTypes
  <1>7. /\ o < Window - Lanes => Stored(z) = {o + Lanes} /\ at = o
        /\ o = Window => Stored(z) = {Lanes} /\ at = 0
        /\ ~(o < Window - Lanes) /\ o # Window =>
             Stored(z) = {o + Lanes, o + Lanes - Window} /\ at = o
    <2>1. Lanes \in Nat \ {0} /\ Window \in Nat /\ Window > Lanes /\ o \in Int
      BY <1>1, SmoothingAssumption
    <2>2. ASSUME o < Window - Lanes PROVE Stored(z) = {o + Lanes} /\ at = o
      BY <2>1, <2>2 DEF Stored
    <2>3. ASSUME o = Window PROVE Stored(z) = {Lanes} /\ at = 0
      BY <2>1, <2>3 DEF Stored
    <2>4. ASSUME ~(o < Window - Lanes), o # Window
          PROVE  Stored(z) = {o + Lanes, o + Lanes - Window} /\ at = o
      BY <2>1, <2>4 DEF Stored
    <2> QED BY <2>2, <2>3, <2>4
  <1>8. ASSUME NEW x \in Ring PROVE x + Lanes \in Stored(z) <=> x = at
    <2>1. /\ Lanes \in Nat \ {0} /\ Window \in Nat /\ Window > Lanes
          /\ o \in 0 .. Window /\ x \in 0 .. Window - 1
      BY <1>1, SmoothingAssumption DEF Ring
    <2> HIDE DEF at
    <2>2. CASE o < Window - Lanes
      BY <2>1, <2>2, <1>7
    <2>3. CASE o = Window
      BY <2>1, <2>3, <1>7
    <2>4. CASE ~(o < Window - Lanes) /\ o # Window
      BY <2>1, <2>4, <1>7
    <2> QED BY <2>2, <2>3, <2>4
  <1>9. ASSUME NEW x \in Window - Lanes .. Window - 1
        PROVE  x + Lanes - Window \in Stored(z) <=> x = at
    <2>1. /\ Lanes \in Nat \ {0} /\ Window \in Nat /\ Window > Lanes
          /\ o \in 0 .. Window /\ x \in Window - Lanes .. Window - 1
      BY <1>1, SmoothingAssumption
    <2> HIDE DEF at
    <2>2. CASE o < Window - Lanes
      BY <2>1, <2>2, <1>7
    <2>3. CASE o = Window
      BY <2>1, <2>3, <1>7
    <2>4. CASE ~(o < Window - Lanes) /\ o # Window
      BY <2>1, <2>4, <1>7
    <2> QED BY <2>2, <2>3, <2>4
  <1>10. ASSUME NEW x \in Ring
        PROVE  Held(x)' = IF x = at THEN z ELSE Held(x)
    <2>1. CASE x = at
      <3>1. Age(x)' = 0
        BY <1>2, <2>1, SmoothingAssumption DEF Age, Ring
      <3> QED BY <1>3, <1>4, <2>1, <3>1, SmoothingAssumption DEF Held
    <2>2. CASE x # at
      <3>1. Age(x) \in 0 .. Window - 2 /\ Age(x)' = Age(x) + 1
        BY <1>1, <1>2, <2>2, SmoothingAssumption DEF Age, Ring
      <3>2. CASE Age(x) + 1 < Len(recent')
        <4>1. Age(x) \in 0 .. Len(recent') - 2
          BY <1>4, <3>1, <3>2, SmoothingAssumption
        <4>2. Held(x)' = recent'[Len(recent') - (Age(x) + 1)]
          BY <3>1, <3>2 DEF Held
        <4> QED BY <1>3, <2>2, <4>1, <4>2 DEF Held
      <3>3. CASE ~(Age(x) + 1 < Len(recent'))
        <4>1. ~(Age(x) < Len(recent))
          BY <1>1, <1>4, <3>1, <3>3, SmoothingAssumption
        <4> QED BY <2>2, <3>1, <3>3, <4>1 DEF Held
      <3> QED BY <3>2, <3>3
    <2> QED BY <2>1, <2>2
  <1>11. RingInv'
    <2>1. rbuf_numelements' = Len(recent')
      BY <1>3 DEF SmoothZ16
    <2>2. ASSUME NEW x \in Ring PROVE rbuf'[x + Lanes] = Held(x)'
      <3>1. x + Lanes \in Cells
        BY SmoothingAssumption DEF Ring, Cells
      <3>2. rbuf[x + Lanes] = Held(x)
        BY DEF IInv, RingInv
      <3> QED BY <1>5, <1>8, <1>10, <3>1, <3>2
    <2>3. ASSUME NEW x \in Window - Lanes .. Window - 1
          PROVE  rbuf'[x + Lanes - Window] = Held(x)'
      <3>1. x + Lanes - Window \in Cells /\ x \in Ring
        BY SmoothingAssumption DEF Ring, Cells
      <3>2. rbuf[x + Lanes - Window] = Held(x)
        BY DEF IInv, RingInv
      <3> QED BY <1>5, <1>9, <1>10, <3>1, <3>2
    <2> QED BY <1>3, <2>1, <2>2, <2>3 DEF RingInv
  <1> QED BY <1>2, <1>6, <1>11, SmoothingAssumption DEF IInv

LEMMA StutterIInv == ASSUME IInv, UNCHANGED vars PROVE IInv'
  BY DEF IInv, StoreTypes, RingInv, Held, Age, vars

LEMMA NextIInv == IInv /\ [Next]_vars => IInv'
  BY StoreIInv, ClearIInv, StutterIInv DEF Next

LEMMA AlwaysIInv == Spec => []IInv
  BY InitIInv, NextIInv, PTL DEF Spec

\* A store answers the mean of the heights remembered.
LEMMA StoreAnswers ==
  ASSUME IInv, NEW z \in Heights, SmoothZ16(z)
  PROVE  mean' = Abstract!MeanOf(recent)' /\ mean' \in Averages
  <1>1. IInv' /\ rbuf_offset' # 0
    BY StoreIInv
  <1>2. Averaging'
    BY <1>1, MeanIsAverage, PTL
  <1>3. MeanOf(rbuf', rbuf_offset', rbuf_numelements') = Abstract!MeanOf(recent)'
        /\ Abstract!MeanOf(recent)' \in Averages
    BY <1>1, <1>2 DEF Averaging, Averages, MeanOf
  <1> QED BY <1>3 DEF SmoothZ16

-----------------------------------------------------------------------------
\* The ring, its counters and the answers of SmoothZ16 keep their types.
THEOREM SmoothingTypeCorrect == Spec => []TypeOK
  <1>1. Init => mean \in Averages
    BY SmoothingAssumption DEF Init, None, Averages
  <1>2. IInv /\ mean \in Averages /\ [Next]_vars => (mean \in Averages)'
    <2> SUFFICES ASSUME IInv, mean \in Averages, [Next]_vars PROVE mean' \in Averages
      OBVIOUS
    <2>1. ASSUME NEW z \in Heights, SmoothZ16(z) PROVE mean' \in Averages
      BY <2>1, StoreAnswers
    <2>2. CASE SmoothZ16Clear
      BY <2>2, SmoothingAssumption DEF SmoothZ16Clear, None, Averages
    <2>3. CASE UNCHANGED vars
      BY <2>3 DEF vars
    <2> QED BY <2>1, <2>2, <2>3 DEF Next
  <1>3. IInv /\ mean \in Averages => TypeOK
    BY DEF IInv, StoreTypes, TypeOK, Averages
  <1> QED BY <1>1, <1>2, <1>3, AlwaysIInv, PTL DEF Spec

\* Whatever heights come in whatever order, between whatever calls of
\* SmoothZ16Clear: the vectors SmoothZ16 adds up are the last heights and zeros.
THEOREM SmoothingAverages == Spec => ImplementsMovingAverage
  <1>1. Init => Abstract!Init
    BY DEF Init, Abstract!Init, None, Abstract!None, Added, Abstract!Added
  <1>2. IInv /\ [Next]_vars => [Abstract!Next]_<<recent, mean>>
    <2> SUFFICES ASSUME IInv, [Next]_vars PROVE [Abstract!Next]_<<recent, mean>>
      OBVIOUS
    <2>1. ASSUME NEW z \in Heights, SmoothZ16(z) PROVE Abstract!Next
      <3>1. recent' = Abstract!Remember(z)
        BY <2>1 DEF SmoothZ16
      <3>2. mean' = Abstract!MeanOf(recent)'
        BY <2>1, StoreAnswers
      <3>3. Abstract!Smooth(z)
        BY <3>1, <3>2 DEF Abstract!Smooth, Abstract!MeanOf
      <3> QED BY <3>3 DEF Abstract!Next
    <2>2. CASE SmoothZ16Clear
      BY <2>2 DEF SmoothZ16Clear, Abstract!Next, Abstract!Clear, None, Abstract!None,
                  Added, Abstract!Added
    <2>3. CASE UNCHANGED vars
      BY <2>3 DEF vars
    <2> QED BY <2>1, <2>2, <2>3 DEF Next
  <1> QED BY <1>1, <1>2, AlwaysIInv, PTL DEF Spec, ImplementsMovingAverage, Abstract!Spec
=============================================================================
