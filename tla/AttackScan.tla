----------------------------- MODULE AttackScan -----------------------------
(***************************************************************************)
(* How erfps learns which enemies near the player are attacking.  A scan   *)
(* bullet, fired now and then, is captured when the game registers it; the *)
(* characters it hits go into the buffer enemyHitRBuf instead of being     *)
(* hurt; each frame marks the buffered enemies whose animation can be      *)
(* read; the enemies' animation hook marks the ones with an attack event;  *)
(* and the same frame shows an indicator for those.                        *)
(*                                                                         *)
(* Each action is one call of a hooked game function.  enemyHitRBuf is an  *)
(* array of (key, TAE pointer) pairs that ends at the first key equal to   *)
(* End (-1); index Size is the sentinel enemyStrEnd.                       *)
(*                                                                         *)
(* The buffer outlives the characters in it.  What is read at the address  *)
(* of one that is gone is whatever its memory holds by then.               *)
(***************************************************************************)
EXTENDS Integers, FiniteSets

CONSTANTS
  Size,        \* slots of the buffer (8)
  Enemies,     \* the characters that can be hit, by the address of ChrIns
  LowOf,       \* the low 32 bits of that address
  Null, End,   \* the keys 0 and -1
  Taes,        \* addresses of animation modules
  Gone,        \* where the module of a character that does not exist is
  Bullets,     \* addresses of bullets
  NoBullet,    \* the address -1
  ScanPeriod   \* frames between two scans (32)

ASSUME AttackScanAssumption ==
  /\ Size \in Nat \ {0}
  /\ Null \notin Enemies /\ End \notin Enemies /\ Null # End
  /\ DOMAIN LowOf = Enemies
  /\ \A e \in Enemies : LowOf[e] # 0
  /\ Gone \notin Taes /\ Null \notin Taes
  /\ NoBullet \notin Bullets
  /\ ScanPeriod \in Nat \ {0}

Slots == 0 .. Size - 1

VARIABLES
  key,             \* the keys of the buffer, and the sentinel
  taePtr,          \* the animation module last read for a slot
  flag,            \* structFlags: "valid" is bit 0, "attack" bit 1
  check,           \* HDC_rbuf_check: the low halves seen since the last wrap
  count,           \* HDC_rbuf_count
  BulletIns,       \* the bullet whose hits are taken
  isGetChrAttack,  \* how many registered bullets are still to be captured
  scanCount,
  live,            \* game: the bullets that exist
  taeOf,           \* game: where an existing character's animation module is
  last,            \* history: the last report of each character in the buffer,
                   \* heard or not, since it was entered
  taken,           \* history: bullets captured since the last scan began
  drawn            \* history: whom the last step showed an indicator for

ring   == <<key, taePtr, flag, check, count>>
bullet == <<BulletIns, isGetChrAttack, live, taken>>
vars   == <<ring, bullet, scanCount, taeOf, last, drawn>>

TypeOK ==
  /\ key \in [0 .. Size -> Enemies \cup {Null, End}]
  /\ taePtr \in [Slots -> Taes \cup {Null}]
  /\ flag \in [Slots -> SUBSET {"valid", "attack"}]
  /\ check \in [Slots -> {0} \cup {LowOf[e] : e \in Enemies}]
  /\ count \in 0 .. Size
  /\ BulletIns \in Bullets \cup {NoBullet}
  /\ isGetChrAttack \in 0 .. 2
  /\ scanCount \in 0 .. ScanPeriod - 1
  /\ live \subseteq Bullets
  /\ taeOf \in [Enemies -> Taes \cup {Gone}]
  /\ last \in [Enemies -> {"attack", "none", "unheard", "departed"}]
  /\ taken \in Nat
  /\ drawn \subseteq Enemies

\* The characters in the buffer.
Buffered == {key[i] : i \in 0 .. count - 1}

Init ==
  /\ key = [i \in 0 .. Size |-> IF i \in {0, Size} THEN End ELSE Null]
  /\ taePtr = [i \in Slots |-> Null]
  /\ flag = [i \in Slots |-> {}]
  /\ check = [i \in Slots |-> 0]
  /\ count = 0
  /\ BulletIns = NoBullet
  /\ isGetChrAttack = 0
  /\ scanCount = 0
  /\ live = {}
  /\ taeOf = [e \in Enemies |-> Gone]
  /\ last = [e \in Enemies |-> "none"]
  /\ taken = 0
  /\ drawn = {}

-----------------------------------------------------------------------------
(* The hooks regBullet and dstBullet.                                      *)

\* MUTANT of AfterCapture: the capture is not counted.
AfterCaptureSame == isGetChrAttack

AfterCapture == isGetChrAttack - 1

Captures == isGetChrAttack > 0

RegisterBullet(b) ==
  /\ b \notin live
  /\ live' = live \cup {b}
  /\ \/ /\ Captures
        /\ isGetChrAttack' = AfterCapture
        /\ BulletIns' = b
        /\ taken' = taken + 1
     \/ ~Captures /\ UNCHANGED <<isGetChrAttack, BulletIns, taken>>
  /\ UNCHANGED <<ring, scanCount, taeOf, last>>
  /\ drawn' = {}

\* MUTANT of ReleaseBullet: the count may go below zero.
ReleaseBulletUnclamped ==
  /\ isGetChrAttack' = isGetChrAttack - 1
  /\ BulletIns' = IF isGetChrAttack > 0 THEN BulletIns ELSE NoBullet

\* The captured bullet is destroyed.  While another bullet is still to be
\* captured, BulletIns keeps its address.
ReleaseBullet ==
  IF isGetChrAttack > 0
    THEN isGetChrAttack' = isGetChrAttack - 1 /\ UNCHANGED BulletIns
    ELSE isGetChrAttack' = 0 /\ BulletIns' = NoBullet

DestroyBullet(b) ==
  /\ b \in live
  /\ live' = live \ {b}
  /\ IF b = BulletIns THEN ReleaseBullet
                      ELSE UNCHANGED <<isGetChrAttack, BulletIns>>
  /\ UNCHANGED <<ring, taken, scanCount, taeOf, last>>
  /\ drawn' = {}

-----------------------------------------------------------------------------
(* The hook hitDetect, for a hit of the captured bullet on a character.    *)

\* MUTANT of Terminator: no new end mark is written.
NoTerminator(i) == {}

\* Where the end mark is written for an entry at i; a wrap writes the same.
Terminator(i) == {i + 1}

\* MUTANT of Seen: only the upper half of the lanes is compared.
SeenUpper(e) == \E i \in Slots : i >= Size \div 2 /\ check[i] = LowOf[e]

Seen(e) == \E i \in Slots : check[i] = LowOf[e]

\* A full buffer starts again at slot 0.
NextSlot == count % Size

\* MUTANT of Cleared: a byte is cleared instead of a quadword.
ClearedOne(s) == [flag EXCEPT ![s] = {}]

\* The marks from slot s on are cleared.
Cleared(s) == [i \in Slots |-> IF i < s THEN flag[i] ELSE {}]

Hit(e) ==
  /\ BulletIns \in live /\ taeOf[e] # Gone
  /\ ~Seen(e)
  /\ key' = [i \in 0 .. Size |-> IF i = NextSlot THEN e
                                 ELSE IF i \in Terminator(NextSlot) THEN End
                                 ELSE key[i]]
  /\ check' = [i \in Slots |-> IF i = NextSlot THEN LowOf[e]
                               ELSE IF NextSlot = 0 THEN 0 ELSE check[i]]
  /\ flag' = Cleared(NextSlot)
  /\ count' = NextSlot + 1
  /\ last' = [c \in Enemies |-> IF \E i \in 0 .. NextSlot - 1 : key[i] = c
                               THEN last[c] ELSE "none"]
  /\ UNCHANGED <<taePtr, bullet, scanCount, taeOf>>
  /\ drawn' = {}

-----------------------------------------------------------------------------
(* The hook enemyTAE and CheckEnemyTAE.                                    *)

\* MUTANT of Holds: slots that are not valid are compared too.
HoldsUnmarked(i, e) == taePtr[i] = taeOf[e]

\* The first valid slot with the enemy's animation module.
Holds(i, e) == "valid" \in flag[i] /\ taePtr[i] = taeOf[e]

FirstHolding(e) ==
  {i \in Slots : Holds(i, e) /\ \A j \in Slots : j < i => ~Holds(j, e)}

\* What an animation says: it attacks, it does not, or it cannot be read.
Judged(f, says) ==
  IF says = "attack" THEN f \cup {"attack"}
  ELSE IF says = "none" THEN f \cap {"valid"}
  ELSE {}

\* A slot left by a character that went away still names e's module.
Mistaken(e) ==
  \E i \in 0 .. count - 1 : last[key[i]] = "departed" /\ Holds(i, e)

\* The history of e's reports does not look at where the report goes.
Remember(e, report) ==
  last' = IF e \in Buffered /\ last[e] # "departed"
            THEN [last EXCEPT ![e] = report] ELSE last

\* A report passes in first person, if the animation has a header and events;
\* otherwise the marks stay as they are.  Whether it does is left open here.
EnemyTAE(e, says, passes) ==
  /\ taeOf[e] # Gone
  /\ flag' = [i \in Slots |-> IF passes /\ i \in FirstHolding(e)
                              THEN Judged(flag[i], says) ELSE flag[i]]
  /\ Remember(e, IF ~passes \/ Mistaken(e) THEN "unheard"
                 ELSE IF says = "attack" THEN "attack" ELSE "none")
  /\ UNCHANGED <<key, taePtr, check, count, bullet, scanCount, taeOf>>
  /\ drawn' = {}

-----------------------------------------------------------------------------
(* The tail of AttachToHead, in first person with the HUD shown.  Bullets  *)
(* created here are registered by steps of their own.                      *)

\* The slots a walk over the buffer visits.
Walked == {i \in Slots : \A j \in 0 .. i : key[j] # End}

\* RegisterHitTAE: a slot is valid if its character can be read and is near.
Marked(near) ==
  [i \in Slots |-> IF i \notin Walked THEN flag[i]
                   ELSE IF key[i] \in near THEN flag[i] \cup {"valid"} ELSE {}]

\* RegisterAttackIndicators draws for the slots with both marks, and drops the
\* marks where a character's model position cannot be read.  (It leaves out the
\* ones in view, a condition on angles that is not modelled.)
Dropped(flags, lost) ==
  [i \in Slots |-> IF /\ i \in Walked /\ key[i] \in lost
                      /\ flags[i] = {"valid", "attack"}
                   THEN {} ELSE flags[i]]

Shown(flags) ==
  {key[i] : i \in {j \in Walked : flags[j] = {"valid", "attack"}}}

\* The memory of a character that is gone may still be mapped: it then seems to
\* be anywhere, with any module.
ModulesRead(near) ==
  {m \in [near -> Taes \cup {Null}] :
     \A e \in near : taeOf[e] # Gone => m[e] = taeOf[e]}

Frame(near, lost, module) ==
  /\ flag' = Dropped(Marked(near), lost)
  /\ taePtr' = [i \in Slots |-> IF i \in Walked /\ key[i] \in near
                                THEN module[key[i]] ELSE taePtr[i]]
  /\ drawn' = Shown(flag')
  /\ IF scanCount = 0 THEN isGetChrAttack' = 2 /\ taken' = 0
                      ELSE UNCHANGED <<isGetChrAttack, taken>>
  /\ scanCount' = (scanCount + 1) % ScanPeriod
  /\ UNCHANGED <<key, check, count, BulletIns, live, taeOf, last>>

-----------------------------------------------------------------------------
(* The game's characters come and go; an address may be used again.        *)

Spawn(e, t) ==
  /\ taeOf[e] = Gone
  /\ \A d \in Enemies : taeOf[d] # t
  /\ taeOf' = [taeOf EXCEPT ![e] = t]
  /\ drawn' = {}
  /\ UNCHANGED <<ring, bullet, scanCount, last>>

Despawn(e) ==
  /\ taeOf[e] # Gone
  /\ taeOf' = [taeOf EXCEPT ![e] = Gone]
  /\ Remember(e, "departed")
  /\ drawn' = {}
  /\ UNCHANGED <<ring, bullet, scanCount>>

-----------------------------------------------------------------------------
Next ==
  \/ \E b \in Bullets : RegisterBullet(b) \/ DestroyBullet(b)
  \/ \E e \in Enemies : Hit(e) \/ Despawn(e)
  \/ \E e \in Enemies, says \in {"attack", "none", "unreadable"},
        passes \in BOOLEAN : EnemyTAE(e, says, passes)
  \/ \E near \in SUBSET Buffered :
       \E lost \in SUBSET near, module \in ModulesRead(near) :
         Frame(near, lost, module)
  \/ \E e \in Enemies, t \in Taes : Spawn(e, t)

Spec == Init /\ [][Next]_vars

-----------------------------------------------------------------------------
\* The walks of RegisterHitTAE and RegisterAttackIndicators stop: slots below
\* count hold characters and the key at count is the end mark, also right
\* after the buffer wrapped and when it is full.
WalkStops == key[count] = End /\ \A i \in 0 .. count - 1 : key[i] \in Enemies

\* No character is in the buffer twice, although it is hit by every scan: the
\* comparison of low halves sees every character entered since the last wrap.
NoDuplicates ==
  \A i, j \in 0 .. count - 1 : key[i] = key[j] => i = j

\* A slot is never marked as attacking without being valid, and slots beyond
\* count carry no mark into the next character entered there.
FlagsSound ==
  \A i \in Slots : /\ "attack" \in flag[i] => "valid" \in flag[i]
                   /\ i >= count => flag[i] = {}

\* An indicator shows a character that exists and whose last report was an
\* attack.  There are two exceptions, and the code does meet them: a character
\* that went away while it was in the buffer, and one whose last report could
\* not be heard, because it was made outside first person, because its animation
\* has no events, or because the slot of such a departed character named the
\* same module.  Nothing else goes wrong: slots that are filled again, reports
\* that find no slot, and modules read frames ago never mix two characters up.
DrawnAttack ==
  \A e \in drawn : \/ taeOf[e] # Gone /\ last[e] = "attack"
                  \/ last[e] \in {"departed", "unheard"}

\* A scan takes the hits of at most two bullets, whoever fired them: what it has
\* taken and what it may still take never exceed two.
TakesTwo == taken + isGetChrAttack <= 2
=============================================================================
