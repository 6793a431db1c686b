-------------------------- MODULE AttackScanProofs --------------------------
(***************************************************************************)
(* For a buffer of any size and any number of enemies, bullets and frames  *)
(* between scans: types, walks that stop, no enemy twice, marks that are   *)
(* sound, indicators only for enemies that attack, departed or unheard     *)
(* ones excepted, and hits of at most two bullets.                         *)
(***************************************************************************)
EXTENDS AttackScan, TLAPS

Filled == 0 .. count - 1

\* The lanes of low halves say who is in the slots since the last wrap.
LanesMirror ==
  \A i \in Slots : check[i] = IF i < count THEN LowOf[key[i]] ELSE 0

\* No two characters share an animation module.
OwnModule ==
  \A d, e \in Enemies : taeOf[d] = taeOf[e] /\ taeOf[d] # Gone => d = e

\* A character in the buffer exists, unless it went away since it was entered.
StillThere ==
  \A i \in Filled : last[key[i]] # "departed" => taeOf[key[i]] # Gone

\* A valid slot holds its character's own module, unless that went away.
OwnRead ==
  \A i \in Filled : last[key[i]] # "departed" /\ "valid" \in flag[i]
                      => taePtr[i] = taeOf[key[i]]

\* A character marked as attacking said so, or could not be heard.
AttackSaid ==
  \A i \in Filled : "attack" \in flag[i] => last[key[i]] # "none"

RingInv == WalkStops /\ LanesMirror /\ NoDuplicates /\ FlagsSound
ReportInv == OwnModule /\ StillThere /\ OwnRead /\ AttackSaid

IInv == TypeOK /\ RingInv /\ ReportInv /\ TakesTwo /\ DrawnAttack

-----------------------------------------------------------------------------
LEMMA NextSlotIs ==
  ASSUME count \in 0 .. Size
  PROVE  /\ NextSlot \in Slots
         /\ NextSlot = IF count = Size THEN 0 ELSE count
  BY AttackScanAssumption DEF NextSlot, Slots

LEMMA FilledAreSlots ==
  ASSUME TypeOK
  PROVE  /\ Filled \subseteq Slots
         /\ \A i \in Slots : i \in Filled <=> i < count
  BY AttackScanAssumption DEF TypeOK, Filled, Slots

LEMMA InitIInv == Init => IInv
  <1> SUFFICES ASSUME Init PROVE IInv
    OBVIOUS
  <1>1. TypeOK
    BY AttackScanAssumption DEF Init, TypeOK, Slots
  <1>2. RingInv
    BY AttackScanAssumption
    DEF Init, RingInv, WalkStops, LanesMirror, NoDuplicates, FlagsSound, Slots
  <1>3. ReportInv
    BY DEF Init, ReportInv, OwnModule, StillThere, OwnRead, AttackSaid, Filled
  <1>4. TakesTwo /\ DrawnAttack
    BY DEF Init, TakesTwo, DrawnAttack
  <1> QED BY <1>1, <1>2, <1>3, <1>4 DEF IInv

\* The buffer and what enemies said do not depend on bullets.
LEMMA BulletsIInv ==
  ASSUME IInv, UNCHANGED <<ring, taeOf, last>>, drawn' = {}
  PROVE  RingInv' /\ ReportInv' /\ DrawnAttack'
  BY DEF IInv, ring, RingInv, WalkStops, LanesMirror, NoDuplicates, FlagsSound,
         ReportInv, OwnModule, StillThere, OwnRead, AttackSaid, Filled, DrawnAttack

LEMMA RegisterBulletIInv ==
  ASSUME IInv, NEW b \in Bullets, RegisterBullet(b) PROVE IInv'
  <1>1. RingInv' /\ ReportInv' /\ DrawnAttack'
    BY BulletsIInv DEF RegisterBullet
  <1>2. TypeOK'
    BY DEF IInv, TypeOK, RegisterBullet, Captures, AfterCapture, ring
  <1>3. TakesTwo'
    BY DEF IInv, TypeOK, TakesTwo, RegisterBullet, Captures, AfterCapture
  <1> QED BY <1>1, <1>2, <1>3 DEF IInv

LEMMA DestroyBulletIInv ==
  ASSUME IInv, NEW b \in Bullets, DestroyBullet(b) PROVE IInv'
  <1>1. RingInv' /\ ReportInv' /\ DrawnAttack'
    BY BulletsIInv DEF DestroyBullet
  <1>2. TypeOK'
    BY DEF IInv, TypeOK, DestroyBullet, ReleaseBullet, ring
  <1>3. TakesTwo'
    BY DEF IInv, TypeOK, TakesTwo, DestroyBullet, ReleaseBullet
  <1> QED BY <1>1, <1>2, <1>3 DEF IInv

LEMMA HitIInv == ASSUME IInv, NEW e \in Enemies, Hit(e) PROVE IInv'
  <1> DEFINE n == NextSlot
  <1>1. /\ n \in Slots /\ n = (IF count = Size THEN 0 ELSE count)
        /\ count \in 0 .. Size /\ Size \in Nat \ {0}
    BY NextSlotIs, AttackScanAssumption DEF IInv, TypeOK
  <1>2. /\ key' = [i \in 0 .. Size |-> IF i = n THEN e
                                       ELSE IF i = n + 1 THEN End ELSE key[i]]
        /\ check' = [i \in Slots |-> IF i = n THEN LowOf[e]
                                     ELSE IF n = 0 THEN 0 ELSE check[i]]
        /\ flag' = [i \in Slots |-> IF i < n THEN flag[i] ELSE {}]
        /\ count' = n + 1
        /\ last' = [c \in Enemies |-> IF \E i \in 0 .. n - 1 : key[i] = c
                                     THEN last[c] ELSE "none"]
        /\ UNCHANGED <<taePtr, bullet, scanCount, taeOf>>
        /\ drawn' = {}
    BY DEF Hit, Terminator, Cleared
  <1> HIDE DEF n
  <1>3. TypeOK'
    BY <1>1, <1>2, AttackScanAssumption DEF IInv, TypeOK, Slots, bullet
  <1>4. \A i \in Slots : i < n => /\ i \in Filled /\ i < count
                                  /\ key'[i] = key[i] /\ key[i] \in Enemies
                                  /\ flag'[i] = flag[i]
    BY <1>1, <1>2 DEF IInv, TypeOK, RingInv, WalkStops, Slots, Filled
  <1>5. key'[n] = e /\ key'[n + 1] = End /\ flag'[n] = {}
    BY <1>1, <1>2 DEF Slots
  <1>6. WalkStops'
    <2>1. \A i \in 0 .. n : i = n \/ (i \in Slots /\ i < n)
      BY <1>1 DEF Slots
    <2>2. \A i \in 0 .. n : key'[i] \in Enemies
      BY <1>4, <1>5, <2>1
    <2>3. key'[count'] = End /\ count' - 1 = n
      BY <1>1, <1>2, <1>5 DEF Slots
    <2> QED BY <2>2, <2>3 DEF WalkStops
  <1>7. LanesMirror'
    BY <1>1, <1>2, <1>4, <1>5 DEF IInv, RingInv, LanesMirror, Slots
  <1>8. \A i \in Slots : i < n => key[i] # e
    <2>1. \A i \in Slots : i < n => check[i] = LowOf[key[i]] /\ check[i] # LowOf[e]
      BY <1>4 DEF IInv, RingInv, LanesMirror, Hit, Seen
    <2> QED BY <2>1
  <1>9. \A i \in 0 .. count' - 1 : i = n \/ (i \in Slots /\ i < n)
    BY <1>1, <1>2 DEF Slots
  <1>10. NoDuplicates'
    <2>1. \A i \in Slots : i < n => i \in 0 .. count - 1 /\ key'[i] = key[i] /\ key'[i] # e
      BY <1>4, <1>8 DEF Filled
    <2>2. \A i, j \in 0 .. count - 1 : key[i] = key[j] => i = j
      BY DEF IInv, RingInv, NoDuplicates
    <2> SUFFICES ASSUME NEW i \in 0 .. count' - 1, NEW j \in 0 .. count' - 1,
                        key'[i] = key'[j]
                 PROVE  i = j
      BY DEF NoDuplicates
    <2>3. CASE i = n
      BY <1>5, <1>9, <2>1, <2>3
    <2>4. CASE j = n
      BY <1>5, <1>9, <2>1, <2>4
    <2>5. CASE i # n /\ j # n
      BY <1>9, <2>1, <2>2, <2>5
    <2> QED BY <2>3, <2>4, <2>5
  <1>11. FlagsSound'
    <2> SUFFICES ASSUME NEW i \in Slots
                 PROVE  /\ "attack" \in flag'[i] => "valid" \in flag'[i]
                        /\ i >= count' => flag'[i] = {}
      BY DEF FlagsSound
    <2>1. flag'[i] = IF i < n THEN flag[i] ELSE {}
      BY <1>2
    <2>2. i >= n + 1 => ~(i < n)
      BY <1>1 DEF Slots
    <2>3. "attack" \in flag[i] => "valid" \in flag[i]
      BY DEF IInv, RingInv, FlagsSound
    <2> QED BY <1>2, <2>1, <2>2, <2>3
  <1>12. ReportInv'
    <2>1. \A i \in Filled' : i = n \/ (i \in Slots /\ i < n)
      BY <1>9 DEF Filled
    <2>2. OwnModule'
      BY <1>2 DEF IInv, ReportInv, OwnModule
    <2>3. \A i \in Filled' : \/ i = n
                            \/ /\ i # n /\ i \in Filled /\ i \in Slots
                               /\ key'[i] = key[i] /\ flag'[i] = flag[i]
                               /\ last'[key'[i]] = last[key[i]]
      <3> SUFFICES ASSUME NEW i \in Filled', i # n
                   PROVE  /\ i \in Filled /\ i \in Slots
                          /\ key'[i] = key[i] /\ flag'[i] = flag[i]
                          /\ last'[key'[i]] = last[key[i]]
        OBVIOUS
      <3>1. i \in Slots /\ i < n /\ i \in 0 .. n - 1
        BY <1>1, <2>1 DEF Slots
      <3>2. i \in Filled /\ key'[i] = key[i] /\ flag'[i] = flag[i] /\ key[i] \in Enemies
        BY <1>4, <3>1
      <3>3. last'[key[i]] = last[key[i]]
        BY <1>2, <3>1, <3>2
      <3> QED BY <3>1, <3>2, <3>3
    <2>4. key'[n] = e /\ flag'[n] = {} /\ taeOf'[e] # Gone
      BY <1>2, <1>5 DEF Hit
    <2>5. taeOf' = taeOf /\ taePtr' = taePtr
      BY <1>2
    <2>6. StillThere'
      BY <2>3, <2>4, <2>5 DEF IInv, ReportInv, StillThere
    <2>7. OwnRead'
      BY <2>3, <2>4, <2>5 DEF IInv, ReportInv, OwnRead
    <2>8. AttackSaid'
      BY <2>3, <2>4 DEF IInv, ReportInv, AttackSaid
    <2> QED BY <2>2, <2>6, <2>7, <2>8 DEF ReportInv
  <1>13. TakesTwo' /\ DrawnAttack'
    BY <1>2 DEF IInv, TakesTwo, DrawnAttack, bullet
  <1> QED BY <1>3, <1>6, <1>7, <1>10, <1>11, <1>12, <1>13 DEF IInv, RingInv

\* A report changes the marks of one slot at most.
LEMMA EnemyTAEIInv ==
  ASSUME IInv, NEW e \in Enemies, NEW says \in {"attack", "none", "unreadable"},
         NEW passes \in BOOLEAN, EnemyTAE(e, says, passes)
  PROVE  IInv'
  <1> DEFINE F == IF passes THEN FirstHolding(e) ELSE {}
  <1> DEFINE heard == passes /\ ~Mistaken(e)
  <1>1. /\ taeOf[e] # Gone
        /\ flag' = [i \in Slots |-> IF i \in F THEN Judged(flag[i], says) ELSE flag[i]]
        /\ UNCHANGED <<key, taePtr, check, count, bullet, scanCount, taeOf>>
        /\ drawn' = {}
    BY DEF EnemyTAE
  <1>0. /\ e \in Buffered /\ last[e] # "departed" =>
             last' = [last EXCEPT ![e] = IF ~heard THEN "unheard"
                                         ELSE IF says = "attack" THEN "attack"
                                         ELSE "none"]
        /\ ~(e \in Buffered /\ last[e] # "departed") => last' = last
    BY DEF EnemyTAE, Remember
  <1>2. \A i \in F : /\ i \in Slots /\ "valid" \in flag[i]
                     /\ taePtr[i] = taeOf[e]
                     /\ i \in Filled
    <2>1. \A i \in F : i \in Slots /\ "valid" \in flag[i] /\ taePtr[i] = taeOf[e]
      BY DEF FirstHolding, Holds
    <2>2. \A i \in Slots : i >= count \/ i < count
      BY DEF IInv, TypeOK, Slots
    <2>3. \A i \in Slots : i >= count => flag[i] = {}
      BY DEF IInv, RingInv, FlagsSound
    <2>4. \A i \in Slots : i < count => i \in Filled
      BY FilledAreSlots DEF IInv
    <2> QED BY <2>1, <2>2, <2>3, <2>4
  <1> HIDE DEF F, heard
  <1>3. \A f \in SUBSET {"valid", "attack"} :
          "valid" \in f => /\ Judged(f, says) \subseteq {"valid", "attack"}
                           /\ "attack" \in Judged(f, says) =>
                                "valid" \in Judged(f, says) /\ says = "attack"
    BY DEF Judged
  <1>4. \A i \in Slots : flag[i] \in SUBSET {"valid", "attack"}
    BY DEF IInv, TypeOK
  <1>5. TypeOK'
    <2>1. flag' \in [Slots -> SUBSET {"valid", "attack"}]
      BY <1>1, <1>2, <1>3, <1>4
    <2>2. last' \in [Enemies -> {"attack", "none", "unheard", "departed"}]
      BY <1>0 DEF IInv, TypeOK
    <2> QED BY <1>1, <2>1, <2>2 DEF IInv, TypeOK, bullet
  <1>6. RingInv'
    <2>1. WalkStops' /\ LanesMirror' /\ NoDuplicates'
      BY <1>1 DEF IInv, RingInv, WalkStops, LanesMirror, NoDuplicates
    <2>2. FlagsSound'
      <3> SUFFICES ASSUME NEW i \in Slots
                   PROVE  /\ "attack" \in flag'[i] => "valid" \in flag'[i]
                          /\ i >= count => flag'[i] = {}
        BY <1>1 DEF FlagsSound
      <3>1. CASE i \in F
        <4>1. i < count /\ count \in Int /\ i \in Int
          BY <1>2, <3>1, FilledAreSlots DEF IInv, TypeOK, Slots
        <4> QED BY <1>1, <1>2, <1>3, <1>4, <3>1, <4>1
      <3>2. CASE i \notin F
        BY <1>1, <3>2 DEF IInv, RingInv, FlagsSound
      <3> QED BY <3>1, <3>2
    <2> QED BY <2>1, <2>2 DEF RingInv
  <1>7. \A i, j \in Filled : key[i] = key[j] => i = j
    BY DEF IInv, RingInv, NoDuplicates, Filled
  <1>8. \A i \in Filled : key[i] \in Enemies /\ i \in Slots
    BY FilledAreSlots DEF IInv, RingInv, WalkStops, Filled
  <1>9. \A i \in Filled : /\ (last'[key[i]] = "departed") <=> (last[key[i]] = "departed")
                          /\ key[i] # e => last'[key[i]] = last[key[i]]
    BY <1>0, <1>8 DEF IInv, TypeOK
  <1>10. Filled' = Filled
    BY <1>1 DEF Filled
  <1>11. StillThere'
    BY <1>1, <1>9, <1>10 DEF IInv, ReportInv, StillThere
  <1>12. OwnRead'
    <2>1. \A i \in Filled : "valid" \in flag'[i] => "valid" \in flag[i]
      BY <1>1, <1>2, <1>8
    <2> QED BY <1>1, <1>9, <1>10, <2>1 DEF IInv, ReportInv, OwnRead
  <1>14. AttackSaid'
    <2> SUFFICES ASSUME NEW i \in Filled, "attack" \in flag'[i],
                        last'[key[i]] = "none"
                 PROVE  FALSE
      BY <1>1, <1>10 DEF AttackSaid
    <2>1. CASE key[i] # e
      \* The report of another character reaches i only if i's is departed.
      <3>1. i \in F
        BY <1>1, <1>8, <1>9, <2>1 DEF IInv, ReportInv, AttackSaid
      <3>2. taePtr[i] = taeOf[e] /\ "valid" \in flag[i]
        BY <1>2, <3>1
      <3>3. taeOf[key[i]] # Gone /\ taePtr[i] = taeOf[key[i]]
        BY <1>9, <3>2 DEF IInv, ReportInv, StillThere, OwnRead
      <3> QED BY <1>8, <2>1, <3>2, <3>3 DEF IInv, ReportInv, OwnModule
    <2>2. CASE key[i] = e
      <3>1. e \in Buffered /\ last[e] # "departed"
        BY <1>9, <2>2 DEF Buffered, Filled
      <3>2. heard /\ says # "attack"
        BY <1>0, <2>2, <3>1 DEF IInv, TypeOK
      <3>3. i \notin F /\ "attack" \in flag[i]
        BY <1>1, <1>2, <1>3, <1>4, <1>8, <3>2
      <3>4. Holds(i, e)
        BY <2>2, <3>1, <3>3, <1>8 DEF IInv, RingInv, FlagsSound, ReportInv, OwnRead, Holds
      <3>5. PICK j \in Slots : Holds(j, e) /\ j < i
        <4>1. i \notin FirstHolding(e)
          BY <3>2, <3>3 DEF F, heard
        <4> QED BY <1>8, <3>4, <4>1 DEF FirstHolding
      <3>6. j \in Filled /\ j # i
        BY <3>5, <1>8, FilledAreSlots DEF IInv, TypeOK, Slots, Filled
      <3>7. key[j] # e /\ key[j] \in Enemies
        BY <1>7, <1>8, <2>2, <3>6
      <3>8. last[key[j]] # "departed"
        BY <3>2, <3>5, <3>6 DEF heard, Mistaken, Filled
      <3>9. taeOf[key[j]] # Gone /\ taePtr[j] = taeOf[key[j]] /\ taePtr[j] = taeOf[e]
        BY <3>5, <3>6, <3>8 DEF IInv, ReportInv, StillThere, OwnRead, Holds
      <3> QED BY <3>7, <3>9 DEF IInv, ReportInv, OwnModule
    <2> QED BY <2>1, <2>2
  <1>13. OwnModule' /\ TakesTwo' /\ DrawnAttack'
    BY <1>1 DEF IInv, ReportInv, OwnModule, TakesTwo, DrawnAttack, bullet
  <1> QED BY <1>5, <1>6, <1>11, <1>12, <1>13, <1>14 DEF IInv, ReportInv

-----------------------------------------------------------------------------
\* A walk goes over the filled slots.
LEMMA WalksFilled == ASSUME IInv PROVE Walked = Filled
  <1>1. /\ count \in 0 .. Size /\ Size \in Nat
        /\ key[count] = End /\ \A i \in Filled : key[i] \in Enemies
        /\ \A i \in Slots : i \in Filled <=> i < count
        /\ End \notin Enemies
    BY FilledAreSlots, AttackScanAssumption
    DEF IInv, TypeOK, RingInv, WalkStops, Filled
  <1>2. \A i \in Slots : i < count \/ count \in 0 .. i
    BY <1>1 DEF Slots
  <1>3. \A i \in Slots : i < count => \A j \in 0 .. i : j \in Filled
    BY <1>1 DEF Slots, Filled
  <1>4. Walked \subseteq Filled
    BY <1>1, <1>2 DEF Walked
  <1>5. Filled \subseteq Walked
    BY <1>1, <1>3, FilledAreSlots DEF Walked, IInv
  <1> QED BY <1>4, <1>5

LEMMA FrameIInv ==
  ASSUME IInv, NEW near \in SUBSET Buffered, NEW lost \in SUBSET near,
         NEW module \in ModulesRead(near), Frame(near, lost, module)
  PROVE  IInv'
  <1>1. /\ flag' = Dropped(Marked(near), lost)
        /\ taePtr' = [i \in Slots |-> IF i \in Walked /\ key[i] \in near
                                      THEN module[key[i]] ELSE taePtr[i]]
        /\ drawn' = Shown(flag')
        /\ IF scanCount = 0 THEN isGetChrAttack' = 2 /\ taken' = 0
                            ELSE UNCHANGED <<isGetChrAttack, taken>>
        /\ scanCount' = (scanCount + 1) % ScanPeriod
        /\ UNCHANGED <<key, check, count, BulletIns, live, taeOf, last>>
    BY DEF Frame
  <1>2. Walked = Filled /\ Filled \subseteq Slots
    BY WalksFilled, FilledAreSlots DEF IInv
  <1>3. \A i \in Slots :
          /\ i \notin Filled => flag'[i] = flag[i]
          /\ i \in Filled => \/ flag'[i] = {}
                             \/ key[i] \in near /\ flag'[i] = flag[i] \cup {"valid"}
    BY <1>1, <1>2 DEF Dropped, Marked
  <1>4. flag' \in [Slots -> SUBSET {"valid", "attack"}]
    <2>1. flag' = [i \in Slots |-> flag'[i]]
      BY <1>1 DEF Dropped
    <2>2. \A i \in Slots : flag'[i] \in SUBSET {"valid", "attack"}
      BY <1>3 DEF IInv, TypeOK
    <2> QED BY <2>1, <2>2
  <1>0. \A e \in near : /\ module[e] \in Taes \cup {Null}
                        /\ e \in Enemies /\ taeOf[e] # Gone => module[e] = taeOf[e]
    BY DEF ModulesRead
  <1>5. taePtr' \in [Slots -> Taes \cup {Null}]
    BY <1>0, <1>1 DEF IInv, TypeOK
  <1>6. Filled' = Filled
    BY <1>1 DEF Filled
  <1>7. \A i \in Filled : key[i] \in Enemies
    BY DEF IInv, RingInv, WalkStops, Filled
  <1>8. drawn' = {key[i] : i \in {j \in Filled : flag'[j] = {"valid", "attack"}}}
    <2>1. Walked' = Walked
      BY <1>1 DEF Walked
    <2> QED BY <1>1, <1>2, <2>1 DEF Shown
  <1>9. TypeOK'
    <2>1. scanCount' \in 0 .. ScanPeriod - 1
      BY <1>1, AttackScanAssumption DEF IInv, TypeOK
    <2>2. isGetChrAttack' \in 0 .. 2 /\ taken' \in Nat
      BY <1>1 DEF IInv, TypeOK
    <2>3. drawn' \subseteq Enemies
      BY <1>7, <1>8
    <2> QED BY <1>1, <1>4, <1>5, <2>1, <2>2, <2>3 DEF IInv, TypeOK
  <1>10. RingInv'
    <2>1. WalkStops' /\ LanesMirror' /\ NoDuplicates'
      BY <1>1 DEF IInv, RingInv, WalkStops, LanesMirror, NoDuplicates
    <2>2. FlagsSound'
      <3> SUFFICES ASSUME NEW i \in Slots
                   PROVE  /\ "attack" \in flag'[i] => "valid" \in flag'[i]
                          /\ i >= count => flag'[i] = {}
        BY <1>1 DEF FlagsSound
      <3>1. count \in Int /\ i \in Int
        BY DEF IInv, TypeOK, Slots
      <3>2. i \in Filled <=> i < count
        BY FilledAreSlots DEF IInv
      <3> QED BY <1>3, <3>1, <3>2 DEF IInv, RingInv, FlagsSound
    <2> QED BY <2>1, <2>2 DEF RingInv
  <1>11. AttackSaid'
    <2>1. \A i \in Filled : "attack" \in flag'[i] => "attack" \in flag[i]
      BY <1>2, <1>3
    <2> QED BY <1>1, <1>6, <2>1 DEF IInv, ReportInv, AttackSaid
  <1>12. StillThere' /\ OwnRead'
    <2>1. StillThere'
      BY <1>1, <1>6 DEF IInv, ReportInv, StillThere
    <2>2. OwnRead'
      <3> SUFFICES ASSUME NEW i \in Filled, "valid" \in flag'[i],
                          last[key[i]] # "departed"
                   PROVE  taePtr'[i] = taeOf[key[i]]
        BY <1>1, <1>6 DEF OwnRead
      <3>1. key[i] \in near /\ i \in Slots /\ key[i] \in Enemies
        BY <1>2, <1>3, <1>7
      <3>2. taeOf[key[i]] # Gone
        BY DEF IInv, ReportInv, StillThere
      <3> QED BY <1>0, <1>1, <1>2, <3>1, <3>2
    <2> QED BY <2>1, <2>2
  <1>13. DrawnAttack'
    <2> SUFFICES ASSUME NEW e \in drawn'
                 PROVE  \/ taeOf[e] # Gone /\ last[e] = "attack"
                        \/ last[e] \in {"departed", "unheard"}
      BY <1>1 DEF DrawnAttack
    <2>1. PICK i \in Filled : key[i] = e /\ flag'[i] = {"valid", "attack"}
      BY <1>8
    <2>2. last[e] # "none"
      BY <1>1, <1>6, <1>11, <2>1 DEF AttackSaid
    <2>3. e \in Enemies /\ last[e] \in {"attack", "none", "unheard", "departed"}
      BY <1>7, <2>1 DEF IInv, TypeOK
    <2>4. last[e] # "departed" => taeOf[e] # Gone
      BY <2>1 DEF IInv, ReportInv, StillThere
    <2> QED BY <2>2, <2>3, <2>4
  <1>14. OwnModule' /\ TakesTwo'
    BY <1>1 DEF IInv, TypeOK, ReportInv, OwnModule, TakesTwo
  <1> QED BY <1>9, <1>10, <1>11, <1>12, <1>13, <1>14 DEF IInv, ReportInv

-----------------------------------------------------------------------------
\* The buffer does not depend on who exists.
LEMMA RingKept ==
  ASSUME IInv, UNCHANGED <<ring, bullet>>, drawn' = {}
  PROVE  RingInv' /\ TakesTwo' /\ DrawnAttack'
  BY DEF IInv, ring, bullet, RingInv, WalkStops, LanesMirror, NoDuplicates,
         FlagsSound, TakesTwo, DrawnAttack

LEMMA SpawnIInv ==
  ASSUME IInv, NEW e \in Enemies, NEW t \in Taes, Spawn(e, t) PROVE IInv'
  <1>1. /\ taeOf[e] = Gone /\ \A d \in Enemies : taeOf[d] # t
        /\ taeOf' = [taeOf EXCEPT ![e] = t]
        /\ drawn' = {}
        /\ UNCHANGED <<ring, bullet, scanCount, last>>
    BY DEF Spawn
  <1>2. RingInv' /\ TakesTwo' /\ DrawnAttack'
    BY <1>1, RingKept
  <1>3. TypeOK'
    BY <1>1 DEF IInv, TypeOK, ring, bullet
  <1>4. OwnModule'
    BY <1>1 DEF IInv, TypeOK, ReportInv, OwnModule
  <1>5. Filled' = Filled /\ \A i \in Filled : key[i] \in Enemies
    BY <1>1 DEF IInv, RingInv, WalkStops, Filled, ring
  <1>6. \A i \in Filled : last[key[i]] # "departed" => taeOf'[key[i]] = taeOf[key[i]]
    BY <1>1, <1>5 DEF IInv, TypeOK, ReportInv, StillThere
  <1>7. StillThere' /\ OwnRead'
    BY <1>1, <1>5, <1>6 DEF IInv, ReportInv, StillThere, OwnRead, ring
  <1>8. AttackSaid'
    BY <1>1, <1>5 DEF IInv, ReportInv, AttackSaid, ring
  <1> QED BY <1>2, <1>3, <1>4, <1>7, <1>8 DEF IInv, ReportInv

LEMMA DespawnIInv ==
  ASSUME IInv, NEW e \in Enemies, Despawn(e) PROVE IInv'
  <1>1. /\ taeOf' = [taeOf EXCEPT ![e] = Gone]
        /\ drawn' = {}
        /\ UNCHANGED <<ring, bullet, scanCount>>
    BY DEF Despawn
  <1>2. /\ e \in Buffered => last' = [last EXCEPT ![e] = "departed"]
        /\ e \notin Buffered => last' = last
    <2>1. last \in [Enemies -> {"attack", "none", "unheard", "departed"}]
      BY DEF IInv, TypeOK
    <2>2. last[e] = "departed" => [last EXCEPT ![e] = "departed"] = last
      BY <2>1
    <2> QED BY <2>2 DEF Despawn, Remember
  <1>3. RingInv' /\ TakesTwo' /\ DrawnAttack'
    BY <1>1, RingKept
  <1>4. TypeOK'
    BY <1>1, <1>2 DEF IInv, TypeOK, ring, bullet
  <1>5. OwnModule'
    BY <1>1 DEF IInv, TypeOK, ReportInv, OwnModule
  <1>6. Filled' = Filled /\ \A i \in Filled : key[i] \in Enemies /\ key[i] \in Buffered
    BY <1>1 DEF IInv, RingInv, WalkStops, Filled, ring, Buffered
  <1>7. \A i \in Filled : \/ last'[key[i]] = "departed"
                          \/ /\ last'[key[i]] = last[key[i]]
                             /\ taeOf'[key[i]] = taeOf[key[i]]
    BY <1>1, <1>2, <1>6 DEF IInv, TypeOK
  <1>8. StillThere' /\ OwnRead'
    BY <1>1, <1>6, <1>7 DEF IInv, ReportInv, StillThere, OwnRead, ring
  <1>9. AttackSaid'
    BY <1>1, <1>6, <1>7 DEF IInv, ReportInv, AttackSaid, ring
  <1> QED BY <1>3, <1>4, <1>5, <1>8, <1>9 DEF IInv, ReportInv

LEMMA StutterIInv == ASSUME IInv, UNCHANGED vars PROVE IInv'
  BY DEF IInv, vars, ring, bullet, TypeOK, RingInv, WalkStops, LanesMirror,
         NoDuplicates, FlagsSound, ReportInv, OwnModule, StillThere, OwnRead, AttackSaid,
         Filled, TakesTwo, DrawnAttack

LEMMA NextIInv == IInv /\ [Next]_vars => IInv'
  <1> SUFFICES ASSUME IInv, [Next]_vars PROVE IInv'
    OBVIOUS
  <1>1. CASE \E b \in Bullets : RegisterBullet(b) \/ DestroyBullet(b)
    BY <1>1, RegisterBulletIInv, DestroyBulletIInv
  <1>2. CASE \E e \in Enemies : Hit(e) \/ Despawn(e)
    BY <1>2, HitIInv, DespawnIInv
  <1>3. CASE \E e \in Enemies, says \in {"attack", "none", "unreadable"},
               passes \in BOOLEAN : EnemyTAE(e, says, passes)
    BY <1>3, EnemyTAEIInv
  <1>4. CASE \E near \in SUBSET Buffered :
               \E lost \in SUBSET near, module \in ModulesRead(near) :
                 Frame(near, lost, module)
    BY <1>4, FrameIInv
  <1>5. CASE \E e \in Enemies, t \in Taes : Spawn(e, t)
    BY <1>5, SpawnIInv
  <1>6. CASE UNCHANGED vars
    BY <1>6, StutterIInv
  <1> QED BY <1>1, <1>2, <1>3, <1>4, <1>5, <1>6 DEF Next

LEMMA AlwaysIInv == Spec => []IInv
  BY InitIInv, NextIInv, PTL DEF Spec

-----------------------------------------------------------------------------
\* Every variable of the scan keeps its type.
THEOREM ScanTypeCorrect == Spec => []TypeOK
  <1>1. IInv => TypeOK
    BY DEF IInv
  <1> QED BY AlwaysIInv, <1>1, PTL

\* The walks over the buffer end at its end mark, however often it wrapped.
THEOREM WalksAlwaysStop == Spec => []WalkStops
  <1>1. IInv => WalkStops
    BY DEF IInv, RingInv
  <1> QED BY AlwaysIInv, <1>1, PTL

\* No enemy is entered twice, however often it is hit.
THEOREM NeverTwice == Spec => []NoDuplicates
  <1>1. IInv => NoDuplicates
    BY DEF IInv, RingInv
  <1> QED BY AlwaysIInv, <1>1, PTL

\* Marks are on valid slots in use only.
THEOREM MarksAlwaysSound == Spec => []FlagsSound
  <1>1. IInv => FlagsSound
    BY DEF IInv, RingInv
  <1> QED BY AlwaysIInv, <1>1, PTL

\* An indicator is shown for characters that exist and whose last report was an
\* attack, unless they went away while in the buffer or could not be heard:
\* whatever is read at addresses of the dead, and however addresses are used
\* again.
THEOREM DrawnOnlyAttackers == Spec => []DrawnAttack
  <1>1. IInv => DrawnAttack
    BY DEF IInv
  <1> QED BY AlwaysIInv, <1>1, PTL

\* A scan takes the hits of two bullets at most.
THEOREM NeverTakesThree == Spec => []TakesTwo
  <1>1. IInv => TakesTwo
    BY DEF IInv
  <1> QED BY AlwaysIInv, <1>1, PTL
=============================================================================
