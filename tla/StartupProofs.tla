--------------------------- MODULE StartupProofs ---------------------------
(***************************************************************************)
(* For all other overlays, however many, and every interleaving of the     *)
(* mod's threads with them: types, calls reach everybody who hooked a      *)
(* function, frames find the overlays asked for, and the stores of         *)
(* PlaceHook amount to hooks placed in one step.                           *)
(***************************************************************************)
EXTENDS Startup, FunctionTheorems, FiniteSetTheorems, TLAPS

-----------------------------------------------------------------------------
(* Natural numbers: the least one of a set, and induction.                 *)

\* The intervals below the members of T are well-founded by inclusion.
LEMMA Smallest ==
  ASSUME NEW T \in SUBSET Nat, T # {}
  PROVE  \E n \in T : \A m \in T : n <= m
  <1> DEFINE Below(n) == 0 .. n - 1
             B == {Below(n) : n \in T}
  <1>1. IsWellFoundedOn(StrictSubsetOrdering(Nat), FiniteSubsetsOf(Nat))
    BY FS_StrictSubsetOrderingWellFounded
  <1>2. B \subseteq FiniteSubsetsOf(Nat)
    <2> SUFFICES ASSUME NEW n \in T PROVE Below(n) \in FiniteSubsetsOf(Nat)
      OBVIOUS
    <2>1. n \in Nat /\ 0 \in Int /\ n - 1 \in Int
      OBVIOUS
    <2>2. IsFiniteSet(Below(n))
      BY <2>1, FS_Interval
    <2>3. Below(n) \in SUBSET Nat
      BY <2>1
    <2> QED BY <2>2, <2>3 DEF FiniteSubsetsOf
  <1>3. PICK x \in B : \A y \in B : ~(<<y, x>> \in StrictSubsetOrdering(Nat))
    <2>1. B # {}
      OBVIOUS
    <2> HIDE DEF B
    <2> QED BY <1>1, <1>2, <2>1, WFMin
  <1>4. PICK n \in T : x = Below(n)
    OBVIOUS
  <1>5. ASSUME NEW m \in T, m < n PROVE FALSE
    <2>1. Below(m) \in SUBSET Nat /\ Below(n) \in SUBSET Nat /\ Below(m) \subseteq Below(n)
      BY <1>5
    <2>2. m \in Below(n) /\ m \notin Below(m)
      BY <1>5
    <2>3. <<Below(m), Below(n)>> \in StrictSubsetOrdering(Nat)
      BY <2>1, <2>2 DEF StrictSubsetOrdering
    <2> QED BY <2>3, <1>3, <1>4
  <1> QED BY <1>5

\* Stated of a set, which every prover here can instantiate.
LEMMA Induction ==
  ASSUME NEW S, 0 \in S, \A n \in Nat : n \in S => n + 1 \in S
  PROVE  Nat \subseteq S
  <1> SUFFICES ASSUME ~(Nat \subseteq S) PROVE FALSE
    OBVIOUS
  <1> DEFINE T == {n \in Nat : n \notin S}
  <1>1. PICK n \in T : \A m \in T : n <= m
    <2>1. T \in SUBSET Nat /\ T # {}
      OBVIOUS
    <2> HIDE DEF T
    <2> QED BY <2>1, Smallest
  <1>2. n - 1 \in Nat /\ n - 1 \in S /\ n = (n - 1) + 1
    BY <1>1
  <1> QED BY <1>2, <1>1

-----------------------------------------------------------------------------
(* The path of a call is what it is meant to be: its recursive definition  *)
(* has a solution.                                                         *)

\* g goes n steps along the path from a.
Walks(mem, a, n, g) ==
  /\ g \in [0 .. n -> Address \cup {Caller, Wild, a}]
  /\ g[0] = a
  /\ \A i \in 0 .. n - 1 : g[i + 1] = NextOf(mem, g[i])

\* Two walks from one address agree as far as both go.
LEMMA WalksAgree ==
  ASSUME NEW mem, NEW a, NEW n \in Nat, NEW m \in Nat, NEW g, NEW h,
         Walks(mem, a, n, g), Walks(mem, a, m, h)
  PROVE  \A i \in Nat : i <= n /\ i <= m => g[i] = h[i]
  <1> DEFINE S == {i \in Nat : i <= n /\ i <= m => g[i] = h[i]}
  <1>1. 0 \in S
    BY DEF Walks
  <1>2. \A i \in Nat : i \in S => i + 1 \in S
    BY DEF Walks
  <1> HIDE DEF S
  <1>3. Nat \subseteq S
    BY <1>1, <1>2, Induction
  <1> QED BY <1>3 DEF S

\* There is a walk of every length.
LEMMA WalksExist ==
  ASSUME NEW mem, NEW a,
         \A b \in Address : mem[b].next \in Address \cup {Caller, Wild}
  PROVE  \A n \in Nat : \E g : Walks(mem, a, n, g)
  <1> DEFINE S == {n \in Nat : \E g : Walks(mem, a, n, g)}
  <1>1. 0 \in S
    <2>1. Walks(mem, a, 0, [i \in 0 .. 0 |-> a])
      BY DEF Walks
    <2> QED BY <2>1
  <1>2. ASSUME NEW n \in Nat, n \in S PROVE n + 1 \in S
    <2>1. PICK g : Walks(mem, a, n, g)
      BY <1>2
    <2> DEFINE h == [i \in 0 .. n + 1 |-> IF i <= n THEN g[i] ELSE NextOf(mem, g[n])]
    <2>2. NextOf(mem, g[n]) \in Address \cup {Caller, Wild, a}
      BY <2>1 DEF Walks, NextOf
    <2>3. h \in [0 .. n + 1 -> Address \cup {Caller, Wild, a}]
      BY <2>1, <2>2 DEF Walks
    <2>4. h[0] = a
      BY <2>1 DEF Walks
    <2>5. \A i \in 0 .. n : h[i + 1] = NextOf(mem, h[i])
      BY <2>1 DEF Walks
    <2> HIDE DEF h
    <2>6. Walks(mem, a, n + 1, h)
      BY <2>3, <2>4, <2>5 DEF Walks
    <2> QED BY <2>6
  <1> HIDE DEF S
  <1>3. Nat \subseteq S
    BY <1>1, <1>2, Induction
  <1> QED BY <1>3 DEF S

\* Path's recursive definition holds of it: walks of all lengths make one.
LEMMA PathIs ==
  ASSUME NEW mem, NEW a,
         \A b \in Address : mem[b].next \in Address \cup {Caller, Wild}
  PROVE  /\ Path(mem, a)[0] = a
         /\ \A n \in Nat : Path(mem, a)[n + 1] = NextOf(mem, Path(mem, a)[n])
  <1> DEFINE walk == [n \in Nat |-> CHOOSE g : Walks(mem, a, n, g)]
             p == [n \in Nat |-> walk[n][n]]
             Solves(q) == q = [n \in Nat |-> IF n = 0 THEN a ELSE NextOf(mem, q[n - 1])]
  <1>1. \A n \in Nat : Walks(mem, a, n, walk[n])
    BY WalksExist
  <1>2. p[0] = a
    BY <1>1 DEF Walks
  <1>3. ASSUME NEW n \in Nat PROVE p[n + 1] = NextOf(mem, p[n])
    <2>1. Walks(mem, a, n, walk[n]) /\ Walks(mem, a, n + 1, walk[n + 1])
      BY <1>1
    <2> HIDE DEF walk, p, Solves
    <2>2. walk[n + 1][n] = walk[n][n]
      <3> DEFINE g == walk[n]
                 h == walk[n + 1]
      <3>1. n + 1 \in Nat /\ n \in Nat /\ n <= n /\ n <= n + 1
        OBVIOUS
      <3>2. Walks(mem, a, n, g) /\ Walks(mem, a, n + 1, h)
        BY <2>1
      <3> HIDE DEF g, h
      <3>3. \A i \in Nat : i <= n /\ i <= n + 1 => g[i] = h[i]
        BY <3>1, <3>2, WalksAgree
      <3>4. g[n] = h[n]
        BY <3>1, <3>3
      <3> QED BY <3>4 DEF g, h
    <2>3. walk[n + 1][n + 1] = NextOf(mem, walk[n + 1][n])
      BY <2>1 DEF Walks
    <2>4. p[n] = walk[n][n] /\ p[n + 1] = walk[n + 1][n + 1]
      BY DEF p
    <2> QED BY <2>2, <2>3, <2>4
  <1> HIDE DEF walk
  <1>4. Solves(p)
    BY <1>2, <1>3
  <1>5. Solves(CHOOSE q : Solves(q))
    BY <1>4
  <1>6. Path(mem, a) = CHOOSE q : Solves(q)
    BY DEF Path
  <1>7. Solves(Path(mem, a))
    BY <1>5, <1>6
  <1> QED BY <1>7

-----------------------------------------------------------------------------
(* Chains of blocks.                                                       *)

\* w lists the blocks of the chain that starts at f, all of them in R.
Linked(mem, R, f, len, w, end) ==
  /\ w \in [0 .. len -> R]
  /\ w[0] = Entry(f)
  /\ \A i, j \in 0 .. len : w[i] = w[j] => i = j
  /\ \A i \in 0 .. len - 1 : mem[w[i]].next = w[i + 1]
  /\ mem[w[len]].next = end

\* None but those interested in f are run, each by one block, and the block that
\* returns to the caller is the function's own.
RunsOnce(mem, C, who) ==
  /\ \A a \in C : mem[a].runs \in who \cup {Nothing}
  /\ \A a, b \in C : mem[a].runs = mem[b].runs => a = b \/ mem[a].runs = Nothing
  /\ \A a \in C : mem[a].next = Caller => mem[a].runs = Game

\* All of them are run.
RunsAll(mem, C, who) == \A x \in who : \E a \in C : mem[a].runs = x

\* On the way to the k-th block are jumps at places where hooks place them.
OnWay(mem, w, k) ==
  /\ \A i \in 0 .. k : w[i] \in Heads
  /\ \A i \in 0 .. k - 1 : mem[w[i]].jump \in Jumps

\* The jumps at the start of the list end within it.
HeadsFirst(mem, len, w) ==
  \E e \in 0 .. len : OnWay(mem, w, e) /\ mem[w[e]].jump = "none"

Listed(len, w) == {w[i] : i \in 0 .. len}

Ends == {Caller, Wild}

\* A call that gets to the end of the list returns to its caller, or goes on
\* where nothing is.
IsChain(mem, R, f, who, end, len, w) ==
  /\ Linked(mem, R, f, len, w, end)
  /\ RunsOnce(mem, Listed(len, w), who)
  /\ end = Caller => RunsAll(mem, Listed(len, w), who)
  /\ HeadsFirst(mem, len, w)

Chained(mem, R, f, who, end) ==
  \E len \in Nat : \E w : IsChain(mem, R, f, who, end, len, w)

\* Blocks that go on somewhere.
GoesOn(mem) == \A a \in Address : mem[a].next \in Address \cup {Caller, Wild}

\* Nothing can be stored where a function returns to, or where nothing is.
LEMMA CallerIsNoBlock == Caller \notin Address /\ Wild \notin Address /\ Caller # Wild
  BY HookChainAssumption

\* A call goes down the list, and to where it ends.
LEMMA PathLinked ==
  ASSUME NEW mem, GoesOn(mem), NEW R \in SUBSET Address, NEW f \in Function,
         NEW end \in Ends,
         NEW len \in Nat, NEW w, Linked(mem, R, f, len, w, end)
  PROVE  \A n \in Nat : Path(mem, Entry(f))[n] = IF n <= len THEN w[n] ELSE end
  <1> DEFINE p == Path(mem, Entry(f))
             S == {n \in Nat : p[n] = IF n <= len THEN w[n] ELSE end}
  <1>1. p[0] = Entry(f) /\ \A n \in Nat : p[n + 1] = NextOf(mem, p[n])
    BY PathIs DEF GoesOn
  <1> HIDE DEF p
  <1>2. 0 \in S
    <2>1. w[0] = Entry(f) /\ 0 <= len /\ 0 \in Nat
      BY DEF Linked
    <2>2. p[0] = w[0]
      BY <1>1, <2>1
    <2> QED BY <2>1, <2>2
  <1>3. ASSUME NEW n \in Nat, n \in S PROVE n + 1 \in S
    <2>1. CASE n < len
      <3>1. p[n] = w[n] /\ w[n] \in Address /\ mem[w[n]].next = w[n + 1]
        BY <1>3, <2>1 DEF Linked
      <3> QED BY <1>1, <2>1, <3>1 DEF NextOf
    <2>2. CASE n = len
      <3>1. p[n] = w[n] /\ w[n] \in Address /\ mem[w[n]].next = end
        BY <1>3, <2>2 DEF Linked
      <3> QED BY <1>1, <2>2, <3>1 DEF NextOf
    <2>3. CASE n > len
      <3>1. p[n] = end
        BY <1>3, <2>3
      <3> QED BY <1>1, <2>3, <3>1, CallerIsNoBlock DEF NextOf, Ends
    <2> QED BY <2>1, <2>2, <2>3
  <1> HIDE DEF S
  <1>4. Nat \subseteq S
    BY <1>2, <1>3, Induction
  <1> QED BY <1>4 DEF S, p

\* There are finitely many blocks, since there are finitely many overlays.
LEMMA AddressesFinite == IsFiniteSet(Address) /\ Cardinality(Address) \in Nat
  <1> DEFINE Parts == {"entry", "protection"} \cup {"detour", "copy"}
             Kinds == {"relative", "indirect"} \cup {"far", "unrecognised"}
  <1>1. ASSUME NEW x, NEW y PROVE IsFiniteSet({x, y})
    <2>1. IsFiniteSet({x}) /\ IsFiniteSet({y})
      BY FS_Singleton
    <2>2. {x, y} = {x} \cup {y}
      OBVIOUS
    <2>3. IsFiniteSet({x} \cup {y})
      BY <2>1, FS_Union
    <2> QED BY <2>2, <2>3
  <1>2. IsFiniteSet({"Present", "ResizeBuffers"})
        /\ IsFiniteSet({"ExecuteCommandLists", "ExecuteCommandLists"})
        /\ IsFiniteSet({"entry", "protection"}) /\ IsFiniteSet({"detour", "copy"})
        /\ IsFiniteSet({"relative", "indirect"}) /\ IsFiniteSet({"far", "unrecognised"})
        /\ IsFiniteSet({"entry", "copy"})
    BY <1>1
  <1>3. IsFiniteSet({"Present", "ResizeBuffers"} \cup {"ExecuteCommandLists", "ExecuteCommandLists"})
        /\ IsFiniteSet(Parts) /\ IsFiniteSet(Kinds)
    BY <1>2, FS_Union
  <1>4. IsFiniteSet(Function)
    <2>1. Function = {"Present", "ResizeBuffers"} \cup {"ExecuteCommandLists", "ExecuteCommandLists"}
      BY DEF Function
    <2> QED BY <1>3, <2>1
  <1>5. Jumps = Kinds
    BY DEF Jumps, Recognised
  <1> HIDE DEF Parts, Kinds
  <1>6. IsFiniteSet(Parts \cup Jumps) /\ IsFiniteSet({"entry", "copy"} \cup Jumps)
    BY <1>2, <1>3, <1>5, FS_Union
  <1>7. IsFiniteSet(Function \X (Parts \cup Jumps))
        /\ IsFiniteSet(Parties \X ({"entry", "copy"} \cup Jumps))
    BY <1>4, <1>6, FS_Product, HookChainAssumption
  <1>8. Parts = {"entry", "protection", "detour", "copy"}
    BY DEF Parts
  <1>9. IsFiniteSet(Address)
    BY <1>7, <1>8, FS_Union DEF Address
  <1> QED BY <1>9, FS_CardinalityType

\* A list of different members of a set is no longer than the set.
LEMMA ListShort ==
  ASSUME NEW T, IsFiniteSet(T), NEW n \in Nat, NEW w, w \in [0 .. n -> T],
         \A i, j \in 0 .. n : w[i] = w[j] => i = j
  PROVE  n < Cardinality(T) /\ Cardinality(T) \in Nat
  <1>1. w \in Injection(0 .. n, T)
    BY Fun_IsInj
  <1>2. Cardinality(0 .. n) <= Cardinality(T) /\ Cardinality(T) \in Nat
    BY <1>1, FS_Injection, FS_CardinalityType
  <1>3. Cardinality(0 .. n) = n + 1
    <2>1. 0 \in Int /\ n \in Int /\ ~(0 > n)
      OBVIOUS
    <2>2. Cardinality(0 .. n) = IF 0 > n THEN 0 ELSE n - 0 + 1
      BY <2>1, FS_Interval
    <2> QED BY <2>1, <2>2
  <1> QED BY <1>2, <1>3

\* What a call passes are the blocks of the list and where it ends.
LEMMA PassedLinked ==
  ASSUME NEW mem, GoesOn(mem), NEW R \in SUBSET Address, NEW f \in Function,
         NEW end \in Ends,
         NEW len \in Nat, NEW w, Linked(mem, R, f, len, w, end)
  PROVE  Passed(mem, f) = Listed(len, w) \cup {end}
  <1> DEFINE p == Path(mem, Entry(f))
             N == Cardinality(Address)
  <1>1. \A n \in Nat : p[n] = IF n <= len THEN w[n] ELSE end
    BY PathLinked
  <1>2. N \in Nat /\ len < N
    <2>1. w \in [0 .. len -> Address] /\ \A i, j \in 0 .. len : w[i] = w[j] => i = j
      BY DEF Linked
    <2> QED BY <2>1, AddressesFinite, ListShort
  <1>3. Passed(mem, f) = {p[n] : n \in 0 .. N}
    BY DEF Passed
  <1> HIDE DEF p, N
  <1>4. ASSUME NEW i \in 0 .. len PROVE w[i] \in {p[n] : n \in 0 .. N}
    <2>1. i \in 0 .. N /\ p[i] = w[i]
      BY <1>1, <1>2
    <2> QED BY <2>1
  <1>5. end \in {p[n] : n \in 0 .. N}
    <2>1. N \in 0 .. N /\ p[N] = end
      BY <1>1, <1>2
    <2> QED BY <2>1
  <1>6. ASSUME NEW n \in 0 .. N PROVE p[n] \in Listed(len, w) \cup {end}
    BY <1>1, <1>2 DEF Listed
  <1>7. ASSUME NEW a \in Listed(len, w) \cup {end} PROVE a \in {p[n] : n \in 0 .. N}
    BY <1>4, <1>5 DEF Listed
  <1> QED BY <1>3, <1>6, <1>7

\* The first block of the list that is no jump of these kinds, with such jumps on
\* the way to it.
IsFirst(mem, len, w, kinds, k) ==
  /\ k \in 0 .. len
  /\ mem[w[k]].jump \notin kinds
  /\ \A i \in 0 .. k - 1 : mem[w[i]].jump \in kinds
  /\ \A i \in 0 .. k : w[i] \in Heads

\* A chain of jumps ends there: there are fewer places for jumps than attempts.
LEMMA EndIs ==
  ASSUME NEW mem, GoesOn(mem), NEW R \in SUBSET Address, NEW f \in Function,
         NEW who, NEW end \in Ends, NEW len \in Nat, NEW w,
         IsChain(mem, R, f, who, end, len, w), NEW kinds \in SUBSET Jumps
  PROVE  \E k : IsFirst(mem, len, w, kinds, k) /\ End(mem, Entry(f), kinds) = w[k]
  <1>a. Linked(mem, R, f, len, w, end) /\ HeadsFirst(mem, len, w)
    BY DEF IsChain
  <1>c. \A n \in Nat : Path(mem, Entry(f))[n] = IF n <= len THEN w[n] ELSE end
    BY <1>a, PathLinked
  <1>b. PICK e \in 0 .. len : OnWay(mem, w, e) /\ mem[w[e]].jump = "none"
    BY <1>a DEF HeadsFirst
  <1> DEFINE T == {n \in 0 .. e : mem[w[n]].jump \notin kinds}
             p == Path(mem, Entry(f))
             Stops(n) == n = MaxFollowAttempts \/ ~IsJump(mem, p[n], kinds)
             First(n) == Stops(n) /\ \A m \in 0 .. n - 1 : ~Stops(m)
  <1>1. PICK k \in T : \A n \in T : k <= n
    <2>1. T \in SUBSET Nat /\ e \in T
      BY <1>b DEF Jumps, Recognised
    <2> HIDE DEF T
    <2> QED BY <2>1, Smallest
  <1>2. \A n \in Nat : p[n] = IF n <= len THEN w[n] ELSE end
    BY <1>c
  <1>3. e < MaxFollowAttempts /\ MaxFollowAttempts \in Nat
    <2> DEFINE v == [i \in 0 .. e |-> w[i]]
    <2>1. v \in [0 .. e -> Heads]
      BY <1>b DEF OnWay
    <2>2. \A i, j \in 0 .. e : v[i] = v[j] => i = j
      BY <1>a DEF Linked
    <2>3. IsFiniteSet(Heads)
      <3>1. Heads \subseteq Address
        BY DEF Heads, Address, Entry, Protection
      <3> QED BY <3>1, AddressesFinite, FS_Subset
    <2> HIDE DEF v
    <2>4. e \in Nat
      OBVIOUS
    <2>5. e < Cardinality(Heads) /\ Cardinality(Heads) \in Nat
      BY <2>1, <2>2, <2>3, <2>4, ListShort
    <2>6. MaxFollowAttempts \in Nat
      BY DEF MaxFollowAttempts
    <2> QED BY <2>4, <2>5, <2>6, HookChainAssumption
  <1>4. \A n \in 0 .. len : w[n] \in Address
    BY <1>a DEF Linked
  <1> HIDE DEF p
  <1>5. k \in 0 .. MaxFollowAttempts /\ First(k)
    <2>1. Stops(k)
      BY <1>1, <1>2, <1>4 DEF IsJump
    <2>2. ASSUME NEW m \in 0 .. k - 1 PROVE ~Stops(m)
      <3>1. m \in 0 .. e /\ m \notin T
        BY <1>1
      <3> QED BY <3>1, <1>2, <1>3, <1>4 DEF IsJump
    <2> QED BY <2>1, <2>2, <1>1, <1>3
  <1> HIDE DEF Stops
  <1>6. \A n \in 0 .. MaxFollowAttempts : First(n) => n = k
    BY <1>1, <1>3, <1>5
  <1>7. (CHOOSE n \in 0 .. MaxFollowAttempts : First(n)) = k
    <2> HIDE DEF First
    <2> QED BY <1>5, <1>6
  <1>8. End(mem, Entry(f), kinds) = p[k]
    BY <1>7 DEF End, p, Stops
  <1>9. \A i \in 0 .. k - 1 : mem[w[i]].jump \in kinds
    BY <1>1
  <1>10. \A i \in 0 .. k : w[i] \in Heads
    BY <1>1, <1>b DEF OnWay
  <1> QED BY <1>1, <1>2, <1>8, <1>9, <1>10 DEF IsFirst

\* What a chain is, and where its jumps end, depends on the blocks of its region.
LEMMA SameChain ==
  ASSUME NEW mem, NEW mem2, NEW R \in SUBSET Address, NEW f \in Function, NEW who,
         NEW end, NEW len \in Nat, NEW w, \A a \in R : mem2[a] = mem[a],
         IsChain(mem, R, f, who, end, len, w)
  PROVE  IsChain(mem2, R, f, who, end, len, w)
  <1>0. /\ Linked(mem, R, f, len, w, end) /\ RunsOnce(mem, Listed(len, w), who)
        /\ end = Caller => RunsAll(mem, Listed(len, w), who)
        /\ HeadsFirst(mem, len, w)
    BY DEF IsChain
  <1>1. \A i \in 0 .. len : w[i] \in R /\ mem2[w[i]] = mem[w[i]]
    BY <1>0 DEF Linked
  <1>2. Linked(mem2, R, f, len, w, end)
    BY <1>0, <1>1 DEF Linked
  <1>3. \A a \in Listed(len, w) : mem2[a] = mem[a]
    BY <1>1 DEF Listed
  <1>4. HeadsFirst(mem2, len, w)
    <2>1. PICK e \in 0 .. len : OnWay(mem, w, e) /\ mem[w[e]].jump = "none"
      BY <1>0 DEF HeadsFirst
    <2>2. OnWay(mem2, w, e) /\ mem2[w[e]].jump = "none"
      BY <1>1, <2>1 DEF OnWay
    <2> QED BY <2>2 DEF HeadsFirst
  <1>5. RunsOnce(mem2, Listed(len, w), who)
    BY <1>0, <1>3 DEF RunsOnce
  <1>6. end = Caller => RunsAll(mem2, Listed(len, w), who)
    BY <1>0, <1>3 DEF RunsAll
  <1> QED BY <1>2, <1>4, <1>5, <1>6 DEF IsChain

\* The end of a chain of jumps, and what a call passes, depend on the chain's
\* region only.
LEMMA SameEnd ==
  ASSUME NEW mem, NEW mem2, NEW R \in SUBSET Address, NEW f \in Function, NEW who,
         NEW end \in Ends,
         \A a \in R : mem2[a] = mem[a], Chained(mem, R, f, who, end),
         GoesOn(mem), GoesOn(mem2)
  PROVE  /\ \A kinds \in SUBSET Jumps :
              End(mem2, Entry(f), kinds) = End(mem, Entry(f), kinds)
         /\ Passed(mem2, f) = Passed(mem, f)
  <1>1. PICK len \in Nat : \E w : IsChain(mem, R, f, who, end, len, w)
    BY DEF Chained
  <1>2. PICK w : IsChain(mem, R, f, who, end, len, w)
    BY <1>1
  <1>3. IsChain(mem2, R, f, who, end, len, w)
    BY <1>2, SameChain
  <1>4. ASSUME NEW kinds \in SUBSET Jumps
        PROVE  End(mem2, Entry(f), kinds) = End(mem, Entry(f), kinds)
    <2>1. PICK k : IsFirst(mem, len, w, kinds, k) /\ End(mem, Entry(f), kinds) = w[k]
      BY <1>2, EndIs
    <2>2. PICK j : IsFirst(mem2, len, w, kinds, j) /\ End(mem2, Entry(f), kinds) = w[j]
      BY <1>3, EndIs
    <2>3. \A i \in 0 .. len : mem2[w[i]] = mem[w[i]]
      BY <1>2 DEF IsChain, Linked
    <2>4. j = k
      BY <2>1, <2>2, <2>3 DEF IsFirst
    <2> QED BY <2>1, <2>2, <2>4
  <1>5. Linked(mem, R, f, len, w, end)
    BY <1>2 DEF IsChain
  <1>6. Linked(mem2, R, f, len, w, end)
    BY <1>3 DEF IsChain
  <1>7. Passed(mem, f) = Listed(len, w) \cup {end}
    BY <1>5, PassedLinked
  <1>8. Passed(mem2, f) = Listed(len, w) \cup {end}
    BY <1>6, PassedLinked
  <1> QED BY <1>4, <1>7, <1>8

-----------------------------------------------------------------------------
(* A hook lets m new blocks in at the block w[k]: that becomes a jump to   *)
(* the first of them, the last is a copy of what it was, and one before    *)
(* the copy, the r-th, runs who has hooked the function.                   *)

LetsIn(mem, mem2, len, w, k, m, new, r, x) ==
  /\ \A i \in 0 .. len : i # k => mem2[w[i]] = mem[w[i]]
  /\ mem2[w[k]].next = new[1] /\ mem2[w[k]].runs = Nothing
  /\ \A i \in 1 .. m - 1 : mem2[new[i]].next = new[i + 1]
  /\ \A i \in 1 .. m - 1 : mem2[new[i]].runs = IF i = r THEN x ELSE Nothing
  /\ mem2[new[m]] = mem[w[k]]

\* The new blocks are different ones, from N, which has none of R.
AreNew(R, N, m, new, r) ==
  /\ m \in Nat /\ r \in 1 .. m - 1
  /\ N \in SUBSET Address /\ R \cap N = {}
  /\ new \in [1 .. m -> N]
  /\ \A i, j \in 1 .. m : new[i] = new[j] => i = j

Among(m, new) == {new[i] : i \in 1 .. m}

Longer(len, w, k, m, new) ==
  [i \in 0 .. len + m |-> IF i <= k THEN w[i] ELSE IF i <= k + m THEN new[i - k] ELSE w[i - m]]

LEMMA LinkedIs ==
  ASSUME NEW mem, NEW R, NEW f, NEW end, NEW n \in Nat, NEW w,
         w \in [0 .. n -> R], w[0] = Entry(f),
         \A i, j \in 0 .. n : w[i] = w[j] => i = j,
         \A i \in 0 .. n - 1 : mem[w[i]].next = w[i + 1],
         mem[w[n]].next = end
  PROVE  Linked(mem, R, f, n, w, end)
  BY DEF Linked

\* Letting new blocks in leaves a list of different, linked blocks.
LEMMA LinkedLonger ==
  ASSUME NEW mem, NEW mem2, NEW R \in SUBSET Address, NEW f \in Function,
         NEW end, NEW len \in Nat, NEW w, NEW k \in 0 .. len,
         NEW m, NEW r, NEW x, NEW N, NEW new, AreNew(R, N, m, new, r),
         Linked(mem, R, f, len, w, end), LetsIn(mem, mem2, len, w, k, m, new, r, x)
  PROVE  Linked(mem2, R \cup N, f, len + m, Longer(len, w, k, m, new), end)
  <1> DEFINE w2 == Longer(len, w, k, m, new)
  <1>0. m \in Nat /\ m >= 1 /\ k \in Nat /\ k <= len
    BY DEF AreNew
  <1>a. /\ new \in [1 .. m -> N] /\ R \cap N = {}
        /\ \A i, j \in 1 .. m : new[i] = new[j] => i = j
    BY DEF AreNew
  <1>1. \A i \in 0 .. len : w[i] \in R
    BY DEF Linked
  <1>2. \A i \in 0 .. len + m :
          w2[i] = IF i <= k THEN w[i] ELSE IF i <= k + m THEN new[i - k] ELSE w[i - m]
    BY DEF Longer
  <1>3. w2 \in [0 .. len + m -> R \cup N]
    <2>1. ASSUME NEW i \in 0 .. len + m
          PROVE  (IF i <= k THEN w[i] ELSE IF i <= k + m THEN new[i - k] ELSE w[i - m]) \in R \cup N
      <3>1. CASE i <= k
        <4>1. i \in 0 .. len
          BY <1>0, <3>1
        <4> QED BY <3>1, <4>1, <1>1
      <3>2. CASE i > k /\ i <= k + m
        <4>1. i - k \in 1 .. m /\ ~(i <= k)
          BY <1>0, <3>2
        <4>2. new[i - k] \in N
          BY <1>a, <4>1
        <4> QED BY <3>2, <4>1, <4>2
      <3>3. CASE i > k + m
        <4>1. i - m \in 0 .. len
          BY <1>0, <3>3
        <4>2. ~(i <= k) /\ ~(i <= k + m)
          BY <1>0, <3>3
        <4> QED BY <4>1, <4>2, <1>1
      <3> QED BY <1>0, <3>1, <3>2, <3>3
    <2> QED BY <2>1 DEF Longer
  <1>4. w2[0] = Entry(f)
    <2>1. 0 \in 0 .. len + m /\ 0 <= k
      BY <1>0
    <2> QED BY <1>2, <2>1 DEF Linked
  <1> HIDE DEF w2
  <1>b. \A n \in 0 .. len + m : n <= k => w2[n] = w[n]
    BY <1>2
  <1>c. \A n \in 0 .. len + m : ~(n <= k) /\ n <= k + m => w2[n] = new[n - k]
    BY <1>2
  <1>d. \A n \in 0 .. len + m : ~(n <= k) /\ ~(n <= k + m) => w2[n] = w[n - m]
    BY <1>2
  <1>5. ASSUME NEW i \in 0 .. len + m, NEW j \in 0 .. len + m, w2[i] = w2[j] PROVE i = j
    <2> DEFINE Kept(n) == n \in 0 .. k /\ n \in 0 .. len /\ w2[n] = w[n]
               New(n) == n - k \in 1 .. m /\ w2[n] = new[n - k]
               Later(n) == n - m \in k + 1 .. len /\ n - m \in 0 .. len /\ w2[n] = w[n - m]
    <2>1. \A u, v \in 0 .. len : w[u] = w[v] => u = v
      BY DEF Linked
    <2>2. \A u \in 0 .. len, v \in 1 .. m : w[u] # new[v]
      BY <1>1, <1>a
    <2>3. ASSUME NEW n \in 0 .. len + m PROVE Kept(n) \/ New(n) \/ Later(n)
      <3>1. CASE n <= k
        <4>1. n \in 0 .. k /\ n \in 0 .. len
          BY <1>0, <3>1
        <4> QED BY <1>b, <3>1, <4>1
      <3>2. CASE n > k /\ n <= k + m
        <4>1. n - k \in 1 .. m /\ ~(n <= k)
          BY <1>0, <3>2
        <4> QED BY <1>c, <3>2, <4>1
      <3>3. CASE n > k + m
        <4>1. n - m \in k + 1 .. len /\ n - m \in 0 .. len /\ ~(n <= k) /\ ~(n <= k + m)
          BY <1>0, <3>3
        <4> QED BY <1>d, <4>1
      <3> QED BY <1>0, <3>1, <3>2, <3>3
    <2>4. CASE Kept(i)
      <3>1. ~New(j)
        BY <2>2, <2>4, <1>5
      <3>2. CASE Kept(j)
        BY <2>1, <2>4, <3>2, <1>5
      <3>3. CASE Later(j)
        <4>1. w[i] = w[j - m]
          BY <2>4, <3>3, <1>5
        <4>2. i = j - m
          BY <2>1, <2>4, <3>3, <4>1
        <4>3. i <= k /\ j - m >= k + 1
          BY <1>0, <2>4, <3>3
        <4> QED BY <1>0, <4>2, <4>3
      <3> QED BY <2>3, <3>1, <3>2, <3>3
    <2>5. CASE New(i)
      <3>1. ~Kept(j) /\ ~Later(j)
        BY <2>2, <2>5, <1>5
      <3>2. New(j)
        BY <2>3, <3>1
      <3>4. new[i - k] = new[j - k]
        BY <2>5, <3>2, <1>5
      <3>5. i - k \in 1 .. m /\ j - k \in 1 .. m
        BY <2>5, <3>2
      <3>6. i - k = j - k
        BY <1>a, <3>4, <3>5
      <3> QED BY <1>0, <3>6
    <2>6. CASE Later(i)
      <3>1. CASE Kept(j)
        <4>1. w[i - m] = w[j]
          BY <2>6, <3>1, <1>5
        <4>2. i - m = j
          BY <2>1, <2>6, <3>1, <4>1
        <4>3. j <= k /\ i - m >= k + 1
          BY <1>0, <2>6, <3>1
        <4> QED BY <1>0, <4>2, <4>3
      <3>2. CASE Later(j)
        <4>1. w[i - m] = w[j - m]
          BY <2>6, <3>2, <1>5
        <4>2. i - m = j - m
          BY <2>1, <2>6, <3>2, <4>1
        <4> QED BY <1>0, <4>2
      <3>3. ~New(j)
        BY <2>2, <2>6, <1>5
      <3> QED BY <2>3, <3>1, <3>2, <3>3
    <2> HIDE DEF Kept, New, Later
    <2> QED BY <2>3, <2>4, <2>5, <2>6
  <1>6. \A u \in 0 .. len - 1 : mem[w[u]].next = w[u + 1]
    BY DEF Linked
  <1>7. mem[w[len]].next = end
    BY DEF Linked
  <1>8. ASSUME NEW i \in 0 .. len + m, NEW j \in 0 .. len + m, j = i + 1
        PROVE  mem2[w2[i]].next = w2[j]
    <2>1. CASE j <= k
      <3>1. i \in 0 .. len - 1 /\ i \in 0 .. len /\ i # k /\ i <= k
        BY <1>0, <1>8, <2>1
      <3>2. w2[i] = w[i] /\ w2[j] = w[j]
        BY <1>b, <2>1, <3>1
      <3>3. mem[w[i]].next = w[j]
        BY <1>6, <1>8, <3>1
      <3>4. mem2[w[i]] = mem[w[i]]
        BY <3>1 DEF LetsIn
      <3> QED BY <3>2, <3>3, <3>4
    <2>2. CASE i = k
      <3>1. ~(j <= k) /\ j <= k + m /\ j - k = 1 /\ i <= k
        BY <1>0, <1>8, <2>2
      <3>2. w2[i] = w[k] /\ w2[j] = new[1]
        BY <1>b, <1>c, <2>2, <3>1
      <3> QED BY <3>2 DEF LetsIn
    <2>3. CASE i > k /\ i < k + m
      <3>1. PICK n \in 1 .. m - 1 : n = i - k
        BY <1>0, <2>3
      <3>2. ~(i <= k) /\ i <= k + m /\ ~(j <= k) /\ j <= k + m /\ j - k = n + 1
        BY <1>0, <1>8, <2>3, <3>1
      <3>3. w2[i] = new[n]
        BY <1>c, <3>1, <3>2
      <3>4. w2[j] = new[n + 1]
        BY <1>c, <3>2
      <3> QED BY <3>3, <3>4 DEF LetsIn
    <2>4. CASE i = k + m
      <3>1. /\ ~(i <= k) /\ i <= k + m /\ i - k = m /\ ~(j <= k) /\ ~(j <= k + m)
            /\ j - m = k + 1 /\ k \in 0 .. len - 1
        BY <1>0, <1>8, <2>4
      <3>2. w2[i] = new[m]
        BY <1>c, <3>1
      <3>3. w2[j] = w[k + 1]
        BY <1>d, <3>1
      <3>4. mem[w[k]].next = w[k + 1]
        BY <1>6, <3>1
      <3> QED BY <3>2, <3>3, <3>4 DEF LetsIn
    <2>5. CASE i > k + m
      <3>1. PICK n \in 0 .. len - 1 : n = i - m
        BY <1>0, <1>8, <2>5
      <3>2. /\ ~(i <= k) /\ ~(i <= k + m) /\ ~(j <= k) /\ ~(j <= k + m)
            /\ j - m = n + 1 /\ n # k /\ n \in 0 .. len
        BY <1>0, <1>8, <2>5, <3>1
      <3>3. w2[i] = w[n]
        BY <1>d, <3>1, <3>2
      <3>4. w2[j] = w[n + 1]
        BY <1>d, <3>2
      <3>5. mem[w[n]].next = w[n + 1]
        BY <1>6, <3>1
      <3>6. mem2[w[n]] = mem[w[n]]
        BY <3>2 DEF LetsIn
      <3> QED BY <3>3, <3>4, <3>5, <3>6
    <2>6. j <= k \/ i = k \/ (i > k /\ i < k + m) \/ i = k + m \/ i > k + m
      BY <1>0, <1>8
    <2> QED BY <2>1, <2>2, <2>3, <2>4, <2>5, <2>6
  <1>9. ASSUME NEW L \in 0 .. len + m, L = len + m PROVE mem2[w2[L]].next = end
    <2>1. CASE k = len
      <3>1. ~(L <= k) /\ L <= k + m /\ L - k = m
        BY <1>0, <1>9, <2>1
      <3>2. w2[L] = new[m]
        BY <1>c, <3>1
      <3> QED BY <3>2, <2>1, <1>7 DEF LetsIn
    <2>2. CASE k # len
      <3>1. ~(L <= k) /\ ~(L <= k + m) /\ L - m = len /\ len \in 0 .. len
        BY <1>0, <1>9, <2>2
      <3>2. w2[L] = w[len]
        BY <1>d, <3>1
      <3>3. mem2[w[len]] = mem[w[len]]
        BY <2>2, <3>1 DEF LetsIn
      <3> QED BY <3>2, <3>3, <1>7
    <2> QED BY <2>1, <2>2
  <1>10. Linked(mem2, R \cup N, f, len + m, w2, end)
    <2>1. PICK L \in Nat : L = len + m
      BY <1>0
    <2>2. w2 \in [0 .. L -> R \cup N]
      BY <1>3, <2>1
    <2>3. \A i, j \in 0 .. L : w2[i] = w2[j] => i = j
      BY <1>5, <2>1
    <2>4. ASSUME NEW i \in 0 .. L - 1 PROVE mem2[w2[i]].next = w2[i + 1]
      <3>1. PICK j \in Nat : j = i + 1
        BY <2>1
      <3>2. i \in 0 .. len + m /\ j \in 0 .. len + m
        BY <1>0, <2>1, <3>1
      <3>3. mem2[w2[i]].next = w2[j]
        BY <1>8, <3>1, <3>2
      <3> QED BY <3>1, <3>3
    <2>5. mem2[w2[L]].next = end
      <3>1. L \in 0 .. len + m
        BY <1>0, <2>1
      <3> QED BY <1>9, <2>1, <3>1
    <2>6. Linked(mem2, R \cup N, f, L, w2, end)
      BY <1>4, <2>2, <2>3, <2>4, <2>5, LinkedIs
    <2> QED BY <2>1, <2>6
  <1> QED BY <1>10 DEF w2

\* The longer list has the old blocks and the new ones.
LEMMA ListedLonger ==
  ASSUME NEW len \in Nat, NEW w, NEW k \in 0 .. len, NEW m \in Nat, NEW new
  PROVE  Listed(len + m, Longer(len, w, k, m, new)) = Listed(len, w) \cup Among(m, new)
  <1> DEFINE w2 == Longer(len, w, k, m, new)
             N == {new[i] : i \in 1 .. m}
  <1> USE DEF Among
  <1>1. \A i \in 0 .. len + m :
          w2[i] = IF i <= k THEN w[i] ELSE IF i <= k + m THEN new[i - k] ELSE w[i - m]
    BY DEF Longer
  <1> HIDE DEF w2
  <1>2. ASSUME NEW i \in 0 .. len + m PROVE w2[i] \in Listed(len, w) \cup N
    <2>1. CASE i <= k
      BY <1>1, <2>1 DEF Listed
    <2>2. CASE i > k /\ i <= k + m
      <3>1. w2[i] = new[i - k] /\ i - k \in 1 .. m
        BY <1>1, <2>2
      <3> QED BY <3>1
    <2>3. CASE i > k + m
      <3>1. w2[i] = w[i - m] /\ i - m \in 0 .. len
        BY <1>1, <2>3
      <3> QED BY <3>1 DEF Listed
    <2> QED BY <2>1, <2>2, <2>3
  <1>3. ASSUME NEW i \in 0 .. len PROVE w[i] \in Listed(len + m, w2)
    <2>1. CASE i <= k
      <3>1. i \in 0 .. len + m /\ w2[i] = w[i]
        BY <1>1, <2>1
      <3> QED BY <3>1 DEF Listed
    <2>2. CASE i > k
      <3>1. i + m \in 0 .. len + m /\ w2[i + m] = w[i]
        BY <1>1, <2>2
      <3> QED BY <3>1 DEF Listed
    <2> QED BY <2>1, <2>2
  <1>4. ASSUME NEW i \in 1 .. m PROVE new[i] \in Listed(len + m, w2)
    <2>1. i + k \in 0 .. len + m /\ w2[i + k] = new[i]
      BY <1>1
    <2> QED BY <2>1 DEF Listed
  <1>5. Listed(len + m, w2) = Listed(len, w) \cup N
    BY <1>2, <1>3, <1>4 DEF Listed
  <1> QED BY <1>5 DEF w2

\* And none of those interested is run twice, nor is the newcomer.
LEMMA RunsOnceLonger ==
  ASSUME NEW mem, NEW mem2, NEW R \in SUBSET Address, NEW f \in Function,
         NEW end, NEW len \in Nat, NEW w, NEW k \in 0 .. len,
         NEW m, NEW r, NEW N, NEW new, AreNew(R, N, m, new, r),
         NEW who, NEW x, x \notin who \cup {Nothing},
         Linked(mem, R, f, len, w, end), LetsIn(mem, mem2, len, w, k, m, new, r, x),
         RunsOnce(mem, Listed(len, w), who)
  PROVE  RunsOnce(mem2, Listed(len, w) \cup Among(m, new), who \cup {x})
  <1> DEFINE C == Listed(len, w)
             C2 == Listed(len, w) \cup Among(m, new)
  <1> USE DEF AreNew, Among
  <1>1. /\ w[k] \in C /\ mem2[w[k]].runs = Nothing /\ mem2[w[k]].next # Caller
        /\ \A a \in C : a # w[k] => mem2[a] = mem[a]
    <2>1. w[k] \in C
      BY DEF Listed
    <2>2. new[1] \in Address
      OBVIOUS
    <2>3. ASSUME NEW a \in C, a # w[k] PROVE mem2[a] = mem[a]
      <3>1. PICK i \in 0 .. len : a = w[i]
        BY DEF Listed
      <3> QED BY <2>3, <3>1 DEF LetsIn
    <2> QED BY <2>1, <2>2, <2>3, CallerIsNoBlock DEF LetsIn
  <1>2. /\ new[m] \in C2 /\ mem2[new[m]] = mem[w[k]]
        /\ new[r] \in C2 /\ mem2[new[r]].runs = x /\ mem2[new[r]].next # Caller
    <2>1. m \in 1 .. m /\ r \in 1 .. m /\ r + 1 \in 1 .. m
      OBVIOUS
    <2>2. new[r + 1] \in Address
      BY <2>1
    <2> QED BY <2>1, <2>2, CallerIsNoBlock DEF LetsIn
  <1>3. ASSUME NEW i \in 1 .. m, i # m, i # r
        PROVE  mem2[new[i]].runs = Nothing /\ mem2[new[i]].next # Caller
    <2>1. i \in 1 .. m - 1 /\ i + 1 \in 1 .. m
      BY <1>3
    <2>2. new[i + 1] \in Address
      BY <2>1
    <2> QED BY <2>1, <2>2, <1>3, CallerIsNoBlock DEF LetsIn
  <1>4. C \subseteq R
    BY DEF Listed, Linked
  <1>5. ASSUME NEW a \in C2
        PROVE  \/ a \in C /\ a # w[k] /\ mem2[a] = mem[a]
               \/ a = new[m] /\ mem2[a] = mem[w[k]]
               \/ a = new[r] /\ mem2[a].runs = x /\ mem2[a].next # Caller
               \/ mem2[a].runs = Nothing /\ mem2[a].next # Caller
    <2>1. CASE a \in C
      BY <1>1, <2>1
    <2>2. CASE a \in {new[i] : i \in 1 .. m}
      <3>1. PICK i \in 1 .. m : a = new[i]
        BY <2>2
      <3> QED BY <1>2, <1>3, <3>1
    <2> QED BY <2>1, <2>2
  <1>6. C \subseteq C2
    OBVIOUS
  <1>7. /\ \A a \in C : mem[a].runs \in who \cup {Nothing}
        /\ \A a, b \in C : mem[a].runs = mem[b].runs => a = b \/ mem[a].runs = Nothing
        /\ \A a \in C : mem[a].next = Caller => mem[a].runs = Game
    BY DEF RunsOnce
  <1> HIDE DEF C, C2
  <1>8. \A a \in C2 : mem2[a].runs \in who \cup {x} \cup {Nothing}
    BY <1>1, <1>5, <1>7
  <1>9. ASSUME NEW a \in C2, NEW b \in C2, mem2[a].runs = mem2[b].runs, mem2[a].runs # Nothing
         PROVE  a = b
    <2> DEFINE Is(c) == \/ c \in C /\ c # w[k] /\ mem2[c] = mem[c]
                        \/ c = new[m] /\ mem2[c] = mem[w[k]]
                        \/ c = new[r] /\ mem2[c].runs = x
    <2>1. Is(a) /\ Is(b)
      BY <1>5, <1>9
    <2>2. \A c \in C : mem[c].runs # x
      BY <1>7
    <2> QED BY <2>1, <2>2, <1>1, <1>7, <1>9
  <1>10. \A a \in C2 : mem2[a].next = Caller => mem2[a].runs = Game
    BY <1>1, <1>5, <1>7
  <1>11. RunsOnce(mem2, C2, who \cup {x})
    BY <1>8, <1>9, <1>10 DEF RunsOnce
  <1> QED BY <1>11 DEF C2

\* And if all of them were run, all are.
LEMMA RunsAllLonger ==
  ASSUME NEW mem, NEW mem2, NEW R \in SUBSET Address, NEW f \in Function,
         NEW end, NEW len \in Nat, NEW w, NEW k \in 0 .. len,
         NEW m, NEW r, NEW N, NEW new, AreNew(R, N, m, new, r), NEW who, NEW x,
         Linked(mem, R, f, len, w, end), LetsIn(mem, mem2, len, w, k, m, new, r, x),
         RunsAll(mem, Listed(len, w), who)
  PROVE  RunsAll(mem2, Listed(len, w) \cup Among(m, new), who \cup {x})
  <1>1. /\ m \in 1 .. m /\ r \in 1 .. m /\ r \in 1 .. m - 1
    BY DEF AreNew
  <1>2. new[m] \in Among(m, new) /\ new[r] \in Among(m, new)
    BY <1>1 DEF Among
  <1>3. mem2[new[m]] = mem[w[k]] /\ mem2[new[r]].runs = x
    BY <1>1 DEF LetsIn
  <1>4. ASSUME NEW y \in who
        PROVE  \E a \in Listed(len, w) \cup Among(m, new) : mem2[a].runs = y
    <2>1. PICK a \in Listed(len, w) : mem[a].runs = y
      BY DEF RunsAll
    <2>2. PICK i \in 0 .. len : a = w[i]
      BY <2>1 DEF Listed
    <2>3. CASE i = k
      BY <1>2, <1>3, <2>1, <2>2, <2>3
    <2>4. CASE i # k
      <3>1. mem2[a] = mem[a]
        BY <2>2, <2>4 DEF LetsIn
      <3> QED BY <2>1, <3>1
    <2> QED BY <2>3, <2>4
  <1>5. ASSUME NEW y \in {x}
        PROVE  \E a \in Listed(len, w) \cup Among(m, new) : mem2[a].runs = y
    BY <1>2, <1>3
  <1> QED BY <1>4, <1>5 DEF RunsAll

\* Together: who hooks at a block on the way lengthens the chain, by blocks of
\* which the first is another place for jumps.
LEMMA ChainedLonger ==
  ASSUME NEW mem, NEW mem2, NEW R \in SUBSET Address, NEW f \in Function,
         NEW end, NEW len \in Nat, NEW w, NEW k \in 0 .. len,
         Linked(mem, R, f, len, w, end),
         NEW who, RunsOnce(mem, Listed(len, w), who),
         end = Caller => RunsAll(mem, Listed(len, w), who), OnWay(mem, w, k),
         NEW m, NEW r, NEW N, NEW new, AreNew(R, N, m, new, r),
         NEW x, x \notin who \cup {Nothing}, LetsIn(mem, mem2, len, w, k, m, new, r, x),
         new[1] \in Heads, mem2[new[1]].jump = "none", mem2[w[k]].jump \in Jumps
  PROVE  Chained(mem2, R \cup N, f, who \cup {x}, end)
  <1> DEFINE n2 == len + m
             w2 == Longer(len, w, k, m, new)
             R2 == R \cup N
             who2 == who \cup {x}
             C2 == Listed(len, w) \cup Among(m, new)
  <1>1. n2 \in Nat /\ m \in Nat /\ m >= 1
    BY DEF AreNew
  <1>2. Linked(mem2, R2, f, n2, w2, end)
    BY LinkedLonger
  <1>3. RunsOnce(mem2, C2, who2)
    BY RunsOnceLonger
  <1>4. end = Caller => RunsAll(mem2, C2, who2)
    BY RunsAllLonger
  <1>5. Listed(n2, w2) = C2
    BY <1>1, ListedLonger
  <1>6. HeadsFirst(mem2, n2, w2)
    <2>1. PICK e \in 0 .. n2 : e = k + 1
      BY <1>1
    <2>2. \A i \in 0 .. k : w2[i] = w[i] /\ w[i] \in Heads
      BY <1>1 DEF Longer, OnWay
    <2>3. w2[e] = new[1]
      <3>1. e \in 0 .. len + m /\ ~(e <= k) /\ e <= k + m /\ e - k = 1
        BY <1>1, <2>1
      <3> QED BY <3>1 DEF Longer
    <2>4. ASSUME NEW i \in 0 .. k PROVE mem2[w2[i]].jump \in Jumps
      <3>1. CASE i = k
        BY <2>2, <3>1
      <3>2. CASE i # k
        <4>1. i \in 0 .. k - 1 /\ i \in 0 .. len
          BY <3>2
        <4>2. mem[w[i]].jump \in Jumps
          BY <4>1 DEF OnWay
        <4>3. mem2[w[i]] = mem[w[i]]
          BY <3>2, <4>1 DEF LetsIn
        <4> QED BY <2>2, <4>2, <4>3
      <3> QED BY <3>1, <3>2
    <2> HIDE DEF w2, n2
    <2>5. \A i \in 0 .. e : w2[i] \in Heads
      <3>1. \A i \in 0 .. e : i = e \/ i \in 0 .. k
        BY <2>1
      <3> QED BY <2>2, <2>3, <3>1
    <2>6. \A i \in 0 .. e - 1 : mem2[w2[i]].jump \in Jumps
      BY <2>1, <2>4
    <2>7. OnWay(mem2, w2, e) /\ mem2[w2[e]].jump = "none"
      BY <2>3, <2>5, <2>6 DEF OnWay
    <2> QED BY <2>7 DEF HeadsFirst
  <1> HIDE DEF n2, w2, R2, who2, C2
  <1>7. IsChain(mem2, R2, f, who2, end, n2, w2)
    BY <1>2, <1>3, <1>4, <1>5, <1>6 DEF IsChain
  <1>8. Chained(mem2, R2, f, who2, end)
    BY <1>1, <1>7 DEF Chained
  <1> QED BY <1>8 DEF R2, who2

\* A chain that breaks at its j-th block ends there.
LEMMA ListCut ==
  ASSUME NEW mem, NEW mem1, NEW R \in SUBSET Address, NEW f \in Function, NEW who,
         NEW end, NEW len \in Nat, NEW w, NEW j \in 0 .. len,
         Linked(mem, R, f, len, w, end), RunsOnce(mem, Listed(len, w), who),
         \A i \in 0 .. j - 1 : mem1[w[i]] = mem[w[i]],
         mem1[w[j]].next = Wild, mem1[w[j]].runs = Nothing
  PROVE  \E v : /\ Linked(mem1, R, f, j, v, Wild) /\ RunsOnce(mem1, Listed(j, v), who)
                /\ \A i \in 0 .. j : v[i] = w[i]
                /\ Listed(j, v) \subseteq Listed(len, w)
  <1> DEFINE v == [i \in 0 .. j |-> w[i]]
  <1>1. \A i \in 0 .. j : v[i] = w[i] /\ i \in 0 .. len
    OBVIOUS
  <1>2. v \in [0 .. j -> R]
    BY DEF Linked
  <1> HIDE DEF v
  <1>3. \A i \in 0 .. len - 1 : mem[w[i]].next = w[i + 1]
    BY DEF Linked
  <1>4. Linked(mem1, R, f, j, v, Wild)
    <2>1. v[0] = Entry(f) /\ \A i, n \in 0 .. j : v[i] = v[n] => i = n
      BY <1>1 DEF Linked
    <2>2. ASSUME NEW i \in 0 .. j - 1 PROVE mem1[v[i]].next = v[i + 1]
      <3>1. PICK n \in 0 .. j : n = i + 1
        OBVIOUS
      <3>2. i \in 0 .. len - 1 /\ i \in 0 .. j
        OBVIOUS
      <3>3. mem[w[i]].next = w[n]
        BY <1>3, <3>1, <3>2
      <3> QED BY <1>1, <3>1, <3>2, <3>3
    <2>3. mem1[v[j]].next = Wild
      <3>1. j \in 0 .. j
        OBVIOUS
      <3> QED BY <3>1, <1>1
    <2>4. j \in Nat
      OBVIOUS
    <2> QED BY <1>2, <2>1, <2>2, <2>3, <2>4, LinkedIs
  <1>5. Listed(j, v) \subseteq Listed(len, w)
    BY <1>1 DEF Listed
  <1>6. \A a \in Listed(j, v) : mem1[a] = mem[a] \/ (mem1[a].runs = Nothing /\ mem1[a].next = Wild)
    <2> SUFFICES ASSUME NEW i \in 0 .. j
                 PROVE  mem1[w[i]] = mem[w[i]] \/ (mem1[w[i]].runs = Nothing /\ mem1[w[i]].next = Wild)
      BY <1>1 DEF Listed
    <2>1. i \in 0 .. j - 1 \/ i = j
      OBVIOUS
    <2> QED BY <2>1
  <1>7. RunsOnce(mem1, Listed(j, v), who)
    <2>1. /\ \A a \in Listed(len, w) : mem[a].runs \in who \cup {Nothing}
          /\ \A a, b \in Listed(len, w) :
               mem[a].runs = mem[b].runs => a = b \/ mem[a].runs = Nothing
          /\ \A a \in Listed(len, w) : mem[a].next = Caller => mem[a].runs = Game
      BY DEF RunsOnce
    <2>2. \A a \in Listed(j, v) : mem1[a].runs \in who \cup {Nothing}
      BY <1>5, <1>6, <2>1
    <2>3. \A a, b \in Listed(j, v) :
            mem1[a].runs = mem1[b].runs => a = b \/ mem1[a].runs = Nothing
      BY <1>5, <1>6, <2>1
    <2>4. \A a \in Listed(j, v) : mem1[a].next = Caller => mem1[a].runs = Game
      BY <1>5, <1>6, <2>1, CallerIsNoBlock
    <2> QED BY <2>2, <2>3, <2>4 DEF RunsOnce
  <1> QED BY <1>1, <1>4, <1>5, <1>7

\* A chain may be said to lie in just its list, or in more than its region.
LEMMA LinkedWithin ==
  ASSUME NEW mem, NEW R, NEW f, NEW end, NEW len \in Nat, NEW w,
         Linked(mem, R, f, len, w, end)
  PROVE  Linked(mem, Listed(len, w), f, len, w, end) /\ Listed(len, w) \subseteq R
  BY DEF Linked, Listed

LEMMA ChainedWider ==
  ASSUME NEW mem, NEW R, NEW f, NEW who, NEW end, Chained(mem, R, f, who, end),
         NEW R2, R \subseteq R2
  PROVE  Chained(mem, R2, f, who, end)
  <1>1. PICK len \in Nat : \E w : IsChain(mem, R, f, who, end, len, w)
    BY DEF Chained
  <1>2. PICK w : IsChain(mem, R, f, who, end, len, w)
    BY <1>1
  <1>3. Linked(mem, R2, f, len, w, end)
    <2>1. Linked(mem, R, f, len, w, end)
      BY <1>2 DEF IsChain
    <2> QED BY <2>1 DEF Linked
  <1>4. IsChain(mem, R2, f, who, end, len, w)
    BY <1>2, <1>3 DEF IsChain
  <1> QED BY <1>4 DEF Chained

-----------------------------------------------------------------------------
(* Every function has its chain, in a region of its own: its code, what    *)
(* the parties that hooked it allocated, and the mod's trampoline once it  *)
(* is hooked.                                                              *)

Trampoline(f) == {Protection(f), Detour(f), Copy(f)}
Allocated(p) == Code(p) \cup {Copy(p)}

RegionOf(hkd, hks, f) ==
  {a \in Address : \/ a \in Code(f)
                   \/ f \in hkd /\ a \in Trampoline(f)
                   \/ \E p \in Parties : hks[p] = f /\ a \in Allocated(p)}

InterestedOf(hkd, hks, f) ==
  {p \in Parties : hks[p] = f} \cup {m \in {Mod} : f \in hkd} \cup {Game}

\* Whose code is in a function's region.
Owners(hks, f) == {f} \cup {p \in Parties : hks[p] = f}

\* Code that no jump has been put over runs the same from its entry and from
\* behind whatever would be displaced there.
CodeKept(mem, hks, f) ==
  \A x \in Owners(hks, f) :
    mem[Entry(x)].jump = "none" =>
      /\ mem[Entry(x)].runs # Nothing
      /\ \A kind \in Jumps : mem[Behind(Entry(x), kind)] = mem[Entry(x)]

EndOf(ast, f) == IF f \in ast THEN Wild ELSE Caller

AllChained(mem, hkd, hks, ast) ==
  \A f \in Function :
    /\ Chained(mem, RegionOf(hkd, hks, f), f, InterestedOf(hkd, hks, f), EndOf(ast, f))
    /\ CodeKept(mem, hks, f)

\* The three names for what a block runs differ, and no overlay has one.
LEMMA RunnersDiffer ==
  /\ Game # Mod /\ Game # Nothing /\ Mod # Nothing
  /\ Game \notin Parties /\ Mod \notin Parties /\ Nothing \notin Parties
  <1>1. ASSUME NEW x, NEW y, {Game, Mod, Nothing} = {x, y} PROVE FALSE
    <2>1. {x, y} = {x} \cup {y}
      OBVIOUS
    <2>2. IsFiniteSet({x}) /\ Cardinality({x}) = 1 /\ IsFiniteSet({y}) /\ Cardinality({y}) = 1
      BY FS_Singleton
    <2>3. Cardinality({x} \cup {y}) = IF y \in {x} THEN 1 ELSE 2
      <3>1. Cardinality({x} \cup {y}) = IF y \in {x} THEN Cardinality({x}) ELSE Cardinality({x}) + 1
        BY <2>2, FS_AddElement
      <3> QED BY <2>2, <3>1
    <2>4. Cardinality({Game, Mod, Nothing}) = 3
      BY HookChainAssumption
    <2> QED BY <1>1, <2>1, <2>3, <2>4
  <1>2. Game # Mod
    <2>1. Game = Mod => {Game, Mod, Nothing} = {Mod, Nothing}
      OBVIOUS
    <2> QED BY <2>1, <1>1
  <1>3. Game # Nothing
    <2>1. Game = Nothing => {Game, Mod, Nothing} = {Game, Mod}
      OBVIOUS
    <2> QED BY <2>1, <1>1
  <1>4. Mod # Nothing
    <2>1. Mod = Nothing => {Game, Mod, Nothing} = {Game, Mod}
      OBVIOUS
    <2> QED BY <2>1, <1>1
  <1> QED BY <1>2, <1>3, <1>4, HookChainAssumption

\* The places of code and of trampolines, by name.
LEMMA Names ==
  /\ "entry" \notin Jumps /\ "protection" \notin Jumps /\ "detour" \notin Jumps /\ "copy" \notin Jumps
  /\ \A x : Entry(x)[1] = x /\ \A kind : Behind(Entry(x), kind) = <<x, kind>>
  /\ \A x : /\ Entry(x) \in Code(x)
            /\ \A kind \in Jumps : Behind(Entry(x), kind) \in Code(x)
            /\ \A a \in Code(x) : a = <<x, "entry">> \/ \E kind \in Jumps : a = <<x, kind>>
  BY DEF Jumps, Recognised, Entry, Behind, Code

\* Every part of them is named for the function or the overlay it belongs to.
LEMMA Belongs ==
  /\ \A x : \A a \in Code(x) : a[1] = x /\ a[2] \in {"entry"} \cup Jumps
  /\ \A f : \A a \in Trampoline(f) : a[1] = f /\ a[2] \in {"protection", "detour", "copy"}
  /\ \A p : \A a \in Allocated(p) : a[1] = p /\ a[2] \in {"entry", "copy"} \cup Jumps
  <1>1. \A x : \A a \in Code(x) : a[1] = x /\ a[2] \in {"entry"} \cup Jumps
    BY Names
  <1>2. \A f : \A a \in Trampoline(f) : a[1] = f /\ a[2] \in {"protection", "detour", "copy"}
    BY DEF Trampoline, Protection, Detour, Copy
  <1>3. \A p : Copy(p)[1] = p /\ Copy(p)[2] = "copy"
    BY DEF Copy
  <1> QED BY <1>1, <1>2, <1>3 DEF Allocated

\* Code, parts of trampolines and what overlays allocate are different places.
LEMMA AddressesDiffer ==
  /\ \A f \in Function :
       /\ Code(f) \subseteq Address /\ Trampoline(f) \subseteq Address
       /\ Protection(f) # Detour(f) /\ Protection(f) # Copy(f) /\ Detour(f) # Copy(f)
  /\ \A f, g \in Function :
       /\ Code(f) \cap Trampoline(g) = {}
       /\ f # g => Code(f) \cap Code(g) = {} /\ Trampoline(f) \cap Trampoline(g) = {}
  /\ \A p \in Parties :
       /\ Allocated(p) \subseteq Address /\ Copy(p) \notin Code(p)
       /\ \A f \in Function : Code(f) \cap Allocated(p) = {} /\ Trampoline(f) \cap Allocated(p) = {}
  /\ \A p, q \in Parties : p # q => Allocated(p) \cap Allocated(q) = {}
  <1>1. \A f \in Function, p \in Parties : f # p
    BY HookChainAssumption
  <1>2. ASSUME NEW f \in Function
        PROVE  /\ Code(f) \subseteq Address /\ Trampoline(f) \subseteq Address
               /\ Protection(f) # Detour(f) /\ Protection(f) # Copy(f) /\ Detour(f) # Copy(f)
    <2>1. Code(f) \subseteq Address
      BY Names DEF Address
    <2>2. Trampoline(f) \subseteq Address
      BY DEF Trampoline, Protection, Detour, Copy, Address
    <2> QED BY <2>1, <2>2 DEF Protection, Detour, Copy
  <1>3. ASSUME NEW p \in Parties PROVE Allocated(p) \subseteq Address /\ Copy(p) \notin Code(p)
    <2>1. Code(p) \subseteq Address
      BY Names DEF Address
    <2>2. Copy(p) \in Address /\ Copy(p)[2] = "copy"
      BY DEF Copy, Address
    <2>3. "copy" \notin {"entry"} \cup Jumps
      BY Names
    <2> QED BY <2>1, <2>2, <2>3, Belongs DEF Allocated
  <1>4. \A f, g \in Function : Code(f) \cap Trampoline(g) = {}
    <2>1. \A part \in {"protection", "detour", "copy"} : part \notin {"entry"} \cup Jumps
      BY Names
    <2> QED BY <2>1, Belongs
  <1>5. \A f, g \in Function :
          f # g => Code(f) \cap Code(g) = {} /\ Trampoline(f) \cap Trampoline(g) = {}
    BY Belongs
  <1>6. \A p \in Parties : \A f \in Function :
          Code(f) \cap Allocated(p) = {} /\ Trampoline(f) \cap Allocated(p) = {}
    BY <1>1, Belongs
  <1>7. \A p, q \in Parties : p # q => Allocated(p) \cap Allocated(q) = {}
    BY Belongs
  <1> QED BY <1>2, <1>3, <1>4, <1>5, <1>6, <1>7

\* The regions of two functions share nothing.
LEMMA RegionsApart ==
  ASSUME NEW hkd, NEW hks
  PROVE  /\ \A f \in Function : RegionOf(hkd, hks, f) \in SUBSET Address
         /\ \A f, g \in Function : f # g => RegionOf(hkd, hks, f) \cap RegionOf(hkd, hks, g) = {}
         /\ \A f, g \in Function : f \notin hkd => RegionOf(hkd, hks, g) \cap Trampoline(f) = {}
         /\ \A f \in Function, p \in Parties :
              hks[p] # f => RegionOf(hkd, hks, f) \cap Allocated(p) = {}
  <1>1. ASSUME NEW f \in Function, NEW g \in Function, f # g, NEW a \in Address,
               a \in RegionOf(hkd, hks, f), a \in RegionOf(hkd, hks, g)
        PROVE  FALSE
    <2>1. CASE \E p \in Parties : hks[p] = f /\ a \in Allocated(p)
      BY <1>1, <2>1, AddressesDiffer DEF RegionOf
    <2>2. CASE \E p \in Parties : hks[p] = g /\ a \in Allocated(p)
      BY <1>1, <2>2, AddressesDiffer DEF RegionOf
    <2>3. CASE a \in Code(f) \cup Trampoline(f) /\ a \in Code(g) \cup Trampoline(g)
      BY <1>1, <2>3, AddressesDiffer
    <2> QED BY <1>1, <2>1, <2>2, <2>3 DEF RegionOf
  <1>2. \A f \in Function : RegionOf(hkd, hks, f) \in SUBSET Address
    BY DEF RegionOf
  <1>3. ASSUME NEW f \in Function, NEW g \in Function, f \notin hkd, NEW a \in Trampoline(f)
        PROVE  a \notin RegionOf(hkd, hks, g)
    BY <1>3, AddressesDiffer DEF RegionOf
  <1>4. ASSUME NEW f \in Function, NEW p \in Parties, hks[p] # f, NEW a \in Allocated(p)
        PROVE  a \notin RegionOf(hkd, hks, f)
    BY <1>4, AddressesDiffer DEF RegionOf
  <1> QED BY <1>1, <1>2, <1>3, <1>4

\* The code of its owners is in a function's region.
LEMMA CodeInRegion ==
  ASSUME NEW hkd, NEW hks, NEW f \in Function, NEW x \in Owners(hks, f)
  PROVE  Code(x) \subseteq RegionOf(hkd, hks, f)
  <1>1. CASE x = f
    BY <1>1, AddressesDiffer DEF RegionOf
  <1>2. CASE x \in Parties /\ hks[x] = f
    <2>1. Code(x) \subseteq Allocated(x) /\ Allocated(x) \subseteq Address
      BY <1>2, AddressesDiffer DEF Allocated
    <2> QED BY <1>2, <2>1 DEF RegionOf
  <1> QED BY <1>1, <1>2 DEF Owners

\* A place for a jump in a function's region is an entry, or the mod's.
LEMMA HeadOfRegion ==
  ASSUME NEW hkd, NEW hks, NEW f \in Function, NEW a \in RegionOf(hkd, hks, f), a \in Heads
  PROVE  \/ \E x \in Owners(hks, f) : a = Entry(x)
         \/ f \in hkd /\ a = Protection(f)
  <1>1. a = Entry(a[1]) \/ a = Protection(a[1])
    BY DEF Heads, Entry, Protection
  <1>2. a[2] \in {"entry", "protection"}
    BY <1>1 DEF Entry, Protection
  <1>3. CASE a \in Code(f)
    <2>1. a[1] = f /\ a[2] = "entry"
      BY <1>2, <1>3, Belongs, Names
    <2> QED BY <1>1, <2>1 DEF Owners, Protection, Entry
  <1>4. CASE f \in hkd /\ a \in Trampoline(f)
    <2>1. a[1] = f /\ a[2] = "protection"
      BY <1>2, <1>4, Belongs
    <2> QED BY <1>1, <1>4, <2>1 DEF Entry, Protection
  <1>5. ASSUME NEW p \in Parties, hks[p] = f, a \in Allocated(p)
        PROVE  \E x \in Owners(hks, f) : a = Entry(x)
    <2>1. a[1] = p /\ a[2] = "entry"
      BY <1>2, <1>5, Belongs, Names
    <2> QED BY <1>1, <1>5, <2>1 DEF Owners, Protection, Entry
  <1> QED BY <1>3, <1>4, <1>5 DEF RegionOf

\* A chain, and what its code keeps, depend on its region only.
LEMMA SameChains ==
  ASSUME NEW mem, NEW mem2, NEW R \in SUBSET Address, NEW f \in Function, NEW who, NEW end,
         \A a \in R : mem2[a] = mem[a], Chained(mem, R, f, who, end)
  PROVE  Chained(mem2, R, f, who, end)
  <1>1. PICK len \in Nat : \E w : IsChain(mem, R, f, who, end, len, w)
    BY DEF Chained
  <1>2. PICK w : IsChain(mem, R, f, who, end, len, w)
    BY <1>1
  <1>3. IsChain(mem2, R, f, who, end, len, w)
    BY <1>2, SameChain
  <1> QED BY <1>3 DEF Chained

LEMMA SameCode ==
  ASSUME NEW mem, NEW mem2, NEW hkd, NEW hks, NEW f \in Function,
         \A a \in RegionOf(hkd, hks, f) : mem2[a] = mem[a], CodeKept(mem, hks, f)
  PROVE  CodeKept(mem2, hks, f)
  <1> SUFFICES ASSUME NEW x \in Owners(hks, f), mem2[Entry(x)].jump = "none"
               PROVE  /\ mem2[Entry(x)].runs # Nothing
                      /\ \A kind \in Jumps : mem2[Behind(Entry(x), kind)] = mem2[Entry(x)]
    BY DEF CodeKept
  <1>1. \A a \in Code(x) : mem2[a] = mem[a]
    BY CodeInRegion
  <1>2. mem2[Entry(x)] = mem[Entry(x)]
    BY <1>1, Names
  <1>3. \A kind \in Jumps : mem2[Behind(Entry(x), kind)] = mem[Behind(Entry(x), kind)]
    BY <1>1, Names
  <1> QED BY <1>2, <1>3 DEF CodeKept

\* In a new process each function is its own chain.
LEMMA ChainedUnhooked == AllChained(Unhooked, {}, [p \in Parties |-> NoFunction], {})
  <1> DEFINE hks == [p \in Parties |-> NoFunction]
  <1> SUFFICES ASSUME NEW f \in Function
               PROVE  /\ Chained(Unhooked, RegionOf({}, hks, f), f, InterestedOf({}, hks, f), Caller)
                      /\ CodeKept(Unhooked, hks, f)
    BY DEF AllChained, EndOf
  <1> DEFINE w == [i \in 0 .. 0 |-> Entry(f)]
             R == RegionOf({}, hks, f)
             who == InterestedOf({}, hks, f)
  <1>0. NoFunction \notin Function /\ NoFunction # f
    BY DEF NoFunction, Function
  <1>1. \A a \in Code(f) : Unhooked[a] = Runs(Game, Caller)
    BY AddressesDiffer DEF Unhooked
  <1>2. Entry(f) \in R /\ Unhooked[Entry(f)] = Runs(Game, Caller)
    BY <1>1, Names, AddressesDiffer DEF RegionOf
  <1>3. \A i \in 0 .. 0 : i = 0 /\ w[i] = Entry(f)
    OBVIOUS
  <1>4. Listed(0, w) = {Entry(f)}
    BY <1>3 DEF Listed
  <1>5. who = {Game}
    BY <1>0 DEF InterestedOf
  <1>6. CodeKept(Unhooked, hks, f)
    <2>1. Owners(hks, f) = {f}
      BY <1>0 DEF Owners
    <2> HIDE DEF hks
    <2> QED BY <2>1, <1>1, Names, RunnersDiffer DEF CodeKept, Runs
  <1> HIDE DEF R, who
  <1>7. w \in [0 .. 0 -> R] /\ w[0] = Entry(f)
    BY <1>2
  <1> HIDE DEF w
  <1>8. Linked(Unhooked, R, f, 0, w, Caller)
    <2>1. \A i \in 0 .. 0 - 1 : FALSE
      OBVIOUS
    <2> QED BY <1>2, <1>3, <1>7, <2>1 DEF Linked, Runs
  <1>9. RunsOnce(Unhooked, Listed(0, w), who) /\ RunsAll(Unhooked, Listed(0, w), who)
    BY <1>2, <1>4, <1>5 DEF RunsOnce, RunsAll, Runs
  <1>10. HeadsFirst(Unhooked, 0, w)
    <2>1. \A i \in 0 .. 0 - 1 : FALSE
      OBVIOUS
    <2>2. Entry(f) \in Heads
      BY DEF Heads
    <2>3. OnWay(Unhooked, w, 0) /\ Unhooked[w[0]].jump = "none"
      BY <1>2, <1>3, <2>1, <2>2 DEF OnWay, Runs
    <2> QED BY <1>3, <2>3 DEF HeadsFirst
  <1>11. IsChain(Unhooked, R, f, who, Caller, 0, w)
    BY <1>8, <1>9, <1>10 DEF IsChain
  <1>12. Chained(Unhooked, R, f, who, Caller)
    BY <1>11 DEF Chained
  <1> QED BY <1>6, <1>12 DEF R, who

HookPlaces(mem, f, kinds) == {Entry(f), End(mem, Entry(f), kinds)}

\* Where a hook lets its blocks in: at a block of the function's chain, with only
\* jumps on the way to it.
LEMMA HookedWhere ==
  ASSUME NEW mem, GoesOn(mem), NEW R \in SUBSET Address, NEW f \in Function, NEW who,
         NEW end \in Ends, NEW len \in Nat, NEW w,
         IsChain(mem, R, f, who, end, len, w), NEW kinds \in SUBSET Jumps,
         NEW a \in HookPlaces(mem, f, kinds)
  PROVE  /\ \E k \in 0 .. len : a = w[k] /\ OnWay(mem, w, k)
         /\ a \in R /\ a \in Heads
         /\ a = End(mem, Entry(f), kinds) => mem[a].jump \notin kinds
  <1>1. PICK j : IsFirst(mem, len, w, kinds, j) /\ End(mem, Entry(f), kinds) = w[j]
    BY EndIs
  <1>2. j \in 0 .. len /\ OnWay(mem, w, j) /\ mem[w[j]].jump \notin kinds
    BY <1>1 DEF IsFirst, OnWay
  <1>3. w[0] = Entry(f) /\ \A i \in 0 .. len : w[i] \in R
    BY DEF IsChain, Linked
  <1>4. 0 \in 0 .. len /\ OnWay(mem, w, 0)
    <2>1. \A i \in 0 .. 0 : i = 0
      OBVIOUS
    <2>2. \A i \in 0 .. 0 - 1 : FALSE
      OBVIOUS
    <2>3. Entry(f) \in Heads
      BY DEF Heads
    <2> QED BY <1>3, <2>1, <2>2, <2>3 DEF OnWay
  <1>5. \E k \in 0 .. len : a = w[k] /\ OnWay(mem, w, k)
    BY <1>1, <1>2, <1>3, <1>4 DEF HookPlaces
  <1>6. a \in R /\ a \in Heads
    <2>1. PICK k \in 0 .. len : a = w[k] /\ OnWay(mem, w, k)
      BY <1>5
    <2>2. k \in 0 .. k
      OBVIOUS
    <2> QED BY <2>1, <2>2, <1>3 DEF OnWay
  <1> QED BY <1>1, <1>2, <1>5, <1>6

LEMMA EndInRegion ==
  ASSUME NEW mem, GoesOn(mem), NEW R \in SUBSET Address, NEW f \in Function, NEW who,
         NEW end \in Ends, Chained(mem, R, f, who, end), NEW kinds \in SUBSET Jumps
  PROVE  /\ End(mem, Entry(f), kinds) \in R /\ End(mem, Entry(f), kinds) \in Heads
         /\ mem[End(mem, Entry(f), kinds)].jump \notin kinds
  <1>1. PICK len \in Nat : \E w : IsChain(mem, R, f, who, end, len, w)
    BY DEF Chained
  <1>2. PICK w : IsChain(mem, R, f, who, end, len, w)
    BY <1>1
  <1> DEFINE a == End(mem, Entry(f), kinds)
  <1>3. a \in HookPlaces(mem, f, kinds)
    BY DEF HookPlaces
  <1> HIDE DEF a
  <1>4. a \in R /\ a \in Heads /\ (a = End(mem, Entry(f), kinds) => mem[a].jump \notin kinds)
    BY <1>2, <1>3, HookedWhere
  <1> QED BY <1>4 DEF a

LetsInAt(mem, mem2, C, a, m, new, r, x) ==
  /\ \A b \in C : b # a => mem2[b] = mem[b]
  /\ mem2[a].next = new[1] /\ mem2[a].runs = Nothing
  /\ \A i \in 1 .. m - 1 : mem2[new[i]].next = new[i + 1]
  /\ \A i \in 1 .. m - 1 : mem2[new[i]].runs = IF i = r THEN x ELSE Nothing
  /\ mem2[new[m]] = mem[a]

\* A hook there lengthens the chain.
LEMMA ChainedLetIn ==
  ASSUME NEW mem, NEW mem2, NEW R \in SUBSET Address, NEW f \in Function,
         NEW end, NEW len \in Nat, NEW w, Linked(mem, R, f, len, w, end),
         NEW who, RunsOnce(mem, Listed(len, w), who),
         end = Caller => RunsAll(mem, Listed(len, w), who),
         NEW k \in 0 .. len, OnWay(mem, w, k),
         NEW m, NEW r, NEW N, NEW new, AreNew(Listed(len, w), N, m, new, r),
         NEW x, x \notin who \cup {Nothing},
         LetsInAt(mem, mem2, Listed(len, w), w[k], m, new, r, x),
         new[1] \in Heads, mem2[new[1]].jump = "none", mem2[w[k]].jump \in Jumps,
         NEW R2, R \cup N \subseteq R2
  PROVE  Chained(mem2, R2, f, who \cup {x}, end)
  <1> DEFINE C == Listed(len, w)
  <1>1. Linked(mem, C, f, len, w, end) /\ C \subseteq R
    BY LinkedWithin
  <1>2. C \in SUBSET Address /\ C \cup N \subseteq R2
    BY <1>1
  <1>3. LetsIn(mem, mem2, len, w, k, m, new, r, x)
    <2>1. \A i \in 0 .. len : i # k => w[i] \in C /\ w[i] # w[k]
      BY DEF Linked, Listed
    <2>2. \A i \in 0 .. len : i # k => mem2[w[i]] = mem[w[i]]
      BY <2>1 DEF LetsInAt
    <2> QED BY <2>2 DEF LetsIn, LetsInAt
  <1> HIDE DEF C
  <1>4. RunsOnce(mem, Listed(len, w), who) /\ AreNew(C, N, m, new, r)
    BY DEF C
  <1>5. Chained(mem2, C \cup N, f, who \cup {x}, end)
    BY <1>1, <1>2, <1>3, <1>4, ChainedLonger
  <1> QED BY <1>2, <1>5, ChainedWider

-----------------------------------------------------------------------------
(* A hook that is placed in one step keeps the chains.                     *)

\* What PlaceHook makes of the blocks, with its jump at a.
WithHook(mem, f, a) ==
  [mem EXCEPT ![Protection(f)] = Runs(Nothing, Detour(f)),
              ![Detour(f)] = Runs(Mod, Copy(f)),
              ![Copy(f)] = Displaced(mem[a], a),
              ![a] = Jump("relative", Protection(f))]

LEMMA WithHookIs ==
  ASSUME NEW mem \in [Address -> Block], NEW f \in Function, NEW a \in Address, a \notin Trampoline(f)
  PROVE  /\ WithHook(mem, f, a)[Protection(f)] = Runs(Nothing, Detour(f))
         /\ WithHook(mem, f, a)[Detour(f)] = Runs(Mod, Copy(f))
         /\ WithHook(mem, f, a)[Copy(f)] = Displaced(mem[a], a)
         /\ WithHook(mem, f, a)[a] = Jump("relative", Protection(f))
         /\ \A b \in Address : b # a /\ b \notin Trampoline(f) => WithHook(mem, f, a)[b] = mem[b]
  <1>1. /\ Protection(f) # Detour(f) /\ Protection(f) # Copy(f) /\ Detour(f) # Copy(f)
        /\ {Protection(f), Detour(f), Copy(f)} \subseteq Address
    BY AddressesDiffer DEF Trampoline
  <1> QED BY <1>1 DEF WithHook, Trampoline

\* What it displaces is code, or a jump that it does not follow.
LEMMA DisplacedIs ==
  ASSUME NEW b \in Block, b.jump \notin Followed, NEW a
  PROVE  /\ b.jump = "none" => Displaced(b, a).runs = Nothing /\ Displaced(b, a).next = Behind(a, "relative")
         /\ b.jump = "far" => Displaced(b, a) = b
         /\ b.jump = "unrecognised" => /\ Displaced(b, a) = Moved(b)
                                       /\ Moved(b).runs = Nothing /\ Moved(b).next = Wild
         /\ b.jump \in {"none", "far", "unrecognised"}
         /\ Displaced(b, a).jump = b.jump
  <1>1. /\ b.jump \in {"relative", "indirect", "far", "unrecognised", "none"}
        /\ b = [jump |-> b.jump, runs |-> b.runs, next |-> b.next]
    BY DEF Block, Jumps, Recognised
  <1>2. b.jump \in {"none", "far", "unrecognised"}
    BY <1>1 DEF Followed
  <1>3. /\ b.jump = "far" => Moved(b) = b
        /\ b.jump # "far" => Moved(b).jump = b.jump /\ Moved(b).runs = Nothing /\ Moved(b).next = Wild
        /\ b.jump # "far" => Moved(b) = [jump |-> b.jump, runs |-> Nothing, next |-> Wild]
    BY <1>1 DEF Moved
  <1>4. CASE b.jump = "none"
    BY <1>3, <1>4 DEF Displaced, Returning
  <1>5. CASE b.jump = "far"
    BY <1>3, <1>5 DEF Displaced, Returning
  <1>6. CASE b.jump = "unrecognised"
    BY <1>3, <1>6 DEF Displaced, Returning
  <1> QED BY <1>2, <1>4, <1>5, <1>6

\* The mod's hook leaves its function chained, and where it ended unless an
\* unrecognised jump was moved.
LEMMA HookChained ==
  ASSUME NEW mem \in [Address -> Block], NEW hkd, NEW hks, NEW f \in Function, f \notin hkd,
         NEW end \in Ends,
         Chained(mem, RegionOf(hkd, hks, f), f, InterestedOf(hkd, hks, f), end),
         CodeKept(mem, hks, f), NEW a, a = AddressToHook(mem, f)
  PROVE  Chained(WithHook(mem, f, a), RegionOf(hkd, hks, f) \cup Trampoline(f), f,
                 InterestedOf(hkd, hks, f) \cup {Mod},
                 IF mem[a].jump = "unrecognised" THEN Wild ELSE end)
  <1> DEFINE mem2 == WithHook(mem, f, a)
             R == RegionOf(hkd, hks, f)
             who == InterestedOf(hkd, hks, f)
             R2 == R \cup Trampoline(f)
  <1>1. GoesOn(mem)
    BY DEF GoesOn, Block
  <1>2. PICK len \in Nat : \E w : IsChain(mem, R, f, who, end, len, w)
    BY DEF Chained
  <1>3. PICK w : IsChain(mem, R, f, who, end, len, w)
    BY <1>2
  <1>4. R \in SUBSET Address /\ R \cap Trampoline(f) = {}
    BY RegionsApart
  <1>5. /\ Linked(mem, R, f, len, w, end) /\ RunsOnce(mem, Listed(len, w), who)
        /\ end = Caller => RunsAll(mem, Listed(len, w), who)
    BY <1>3 DEF IsChain
  <1>6. a = End(mem, Entry(f), Followed) /\ Followed \in SUBSET Jumps
        /\ a \in HookPlaces(mem, f, Followed)
    BY DEF AddressToHook, Followed, Jumps, Recognised, HookPlaces
  <1>7. /\ \E k \in 0 .. len : a = w[k] /\ OnWay(mem, w, k)
        /\ a \in R /\ a \in Heads /\ mem[a].jump \notin Followed
    <2> HIDE DEF R, who
    <2> QED BY <1>1, <1>3, <1>4, <1>6, HookedWhere
  <1>8. PICK k \in 0 .. len : a = w[k] /\ OnWay(mem, w, k)
    BY <1>7
  <1>9. a \in Address /\ a \notin Trampoline(f) /\ mem[a] \in Block
    BY <1>4, <1>7
  <1>10. /\ mem2[Protection(f)] = Runs(Nothing, Detour(f))
         /\ mem2[Detour(f)] = Runs(Mod, Copy(f))
         /\ mem2[Copy(f)] = Displaced(mem[a], a)
         /\ mem2[a] = Jump("relative", Protection(f))
         /\ \A b \in Address : b # a /\ b \notin Trampoline(f) => mem2[b] = mem[b]
    BY <1>9, WithHookIs
  <1>11. /\ Listed(len, w) \subseteq R /\ a \in Listed(len, w)
    BY <1>5, <1>8 DEF Linked, Listed
  <1>12. Mod \notin who \cup {Nothing}
    BY RunnersDiffer DEF InterestedOf
  <1>13. Protection(f) \in Heads /\ mem2[Protection(f)].jump = "none" /\ mem2[a].jump \in Jumps
    BY <1>10 DEF Heads, Runs, Jump, Jumps, Recognised
  <1>14. /\ Protection(f) # Detour(f) /\ Protection(f) # Copy(f) /\ Detour(f) # Copy(f)
         /\ Trampoline(f) = {Protection(f), Detour(f), Copy(f)} /\ Trampoline(f) \subseteq Address
    BY AddressesDiffer DEF Trampoline
  <1>15. R \in SUBSET Address /\ R \cup Trampoline(f) \subseteq R2
    BY <1>4
  <1> HIDE DEF mem2, R, who, R2
  <1> DEFINE C == Listed(len, w)
  <1>16. CASE mem[a].jump = "none"
    <2> DEFINE b == Behind(a, "relative")
               new == <<Protection(f), Detour(f), Copy(f), b>>
               N == Trampoline(f) \cup {b}
    <2>1. PICK x \in Owners(hks, f) : a = Entry(x)
      BY <1>7, HeadOfRegion DEF R
    <2>2. b \in R /\ b # a /\ mem[b] = mem[a] /\ mem[a].runs # Nothing
      <3>1. "relative" \in Jumps
        BY DEF Jumps, Recognised
      <3>2. b \in Code(x) /\ b # a
        BY <2>1, <3>1, Names DEF Entry
      <3>3. b \in R
        BY <3>2, CodeInRegion DEF R
      <3>4. mem[b] = mem[a] /\ mem[a].runs # Nothing
        BY <1>16, <2>1, <3>1 DEF CodeKept
      <3> QED BY <3>2, <3>3, <3>4
    <2>3. b \notin C
      BY <1>5, <1>11, <2>2 DEF RunsOnce
    <2>4. b \in Address /\ b \notin Trampoline(f) /\ mem2[b] = mem[a]
      BY <1>4, <1>10, <2>2
    <2> HIDE DEF b
    <2>5. new[1] = Protection(f) /\ new[2] = Detour(f) /\ new[3] = Copy(f) /\ new[4] = b
      OBVIOUS
    <2>6. AreNew(C, N, 4, new, 2)
      <3>1. new \in [1 .. 4 -> N]
        BY <1>14
      <3>2. C \cap N = {} /\ N \in SUBSET Address
        BY <1>4, <1>11, <1>14, <2>3, <2>4
      <3>3. \A i, j \in 1 .. 4 : new[i] = new[j] => i = j
        <4>1. \A i \in 1 .. 4 : i = 1 \/ i = 2 \/ i = 3 \/ i = 4
          OBVIOUS
        <4>2. b # Protection(f) /\ b # Detour(f) /\ b # Copy(f)
          BY <1>14, <2>4
        <4> HIDE DEF new
        <4> QED BY <1>14, <2>5, <4>1, <4>2
      <3> QED BY <3>1, <3>2, <3>3 DEF AreNew
    <2>7. LetsInAt(mem, mem2, C, a, 4, new, 2, Mod)
      <3>1. \A i \in 1 .. 4 - 1 : i = 1 \/ i = 2 \/ i = 3
        OBVIOUS
      <3>2. \A d \in C : d # a => mem2[d] = mem[d]
        BY <1>4, <1>10, <1>11
      <3>3. mem2[Copy(f)].runs = Nothing /\ mem2[Copy(f)].next = b
        BY <1>7, <1>9, <1>10, <1>16, DisplacedIs DEF b
      <3> HIDE DEF new, C
      <3> QED BY <1>10, <2>4, <2>5, <3>1, <3>2, <3>3 DEF LetsInAt, Runs, Jump
    <2>8. R \cup N \subseteq R2
      BY <1>15, <2>2
    <2> HIDE DEF new, N
    <2>9. Chained(mem2, R2, f, who \cup {Mod}, end)
      BY <1>4, <1>5, <1>8, <1>12, <1>13, <2>5, <2>6, <2>7, <2>8, ChainedLetIn
    <2> QED BY <1>16, <2>9 DEF mem2, R2, who, R
  <1> DEFINE new == <<Protection(f), Detour(f), Copy(f)>>
             N == Trampoline(f)
  <1>17. new[1] = Protection(f) /\ new[2] = Detour(f) /\ new[3] = Copy(f)
    OBVIOUS
  <1>18. ASSUME NEW D, D \subseteq R PROVE AreNew(D, N, 3, new, 2)
    <2>1. new \in [1 .. 3 -> N]
      BY <1>14
    <2>2. D \cap N = {} /\ N \in SUBSET Address
      BY <1>4, <1>14, <1>18
    <2>3. \A i, j \in 1 .. 3 : new[i] = new[j] => i = j
      <3>1. \A i \in 1 .. 3 : i = 1 \/ i = 2 \/ i = 3
        OBVIOUS
      <3> HIDE DEF new
      <3> QED BY <1>14, <1>17, <3>1
    <2> QED BY <2>1, <2>2, <2>3 DEF AreNew
  <1>19. ASSUME NEW mem1, NEW D, D \subseteq R, \A d \in D : d # a => mem1[d] = mem[d],
                mem1[a] = Displaced(mem[a], a)
         PROVE  LetsInAt(mem1, mem2, D, a, 3, new, 2, Mod)
    <2>1. \A i \in 1 .. 3 - 1 : i = 1 \/ i = 2
      OBVIOUS
    <2>2. \A d \in D : d # a => mem2[d] = mem1[d]
      BY <1>4, <1>10, <1>19
    <2> HIDE DEF new
    <2> QED BY <1>10, <1>17, <1>19, <2>1, <2>2 DEF LetsInAt, Runs, Jump
  <1> HIDE DEF new
  <1>20. CASE mem[a].jump = "far"
    <2>1. mem[a] = Displaced(mem[a], a)
      BY <1>7, <1>9, <1>20, DisplacedIs
    <2>2. AreNew(C, N, 3, new, 2) /\ LetsInAt(mem, mem2, C, a, 3, new, 2, Mod)
      BY <1>11, <1>18, <1>19, <2>1
    <2> HIDE DEF N
    <2>3. Chained(mem2, R2, f, who \cup {Mod}, end)
      BY <1>4, <1>5, <1>8, <1>12, <1>13, <1>15, <1>17, <2>2, ChainedLetIn DEF N
    <2> QED BY <1>20, <2>3 DEF mem2, R2, who, R
  <1>21. CASE mem[a].jump = "unrecognised"
    <2> DEFINE mem1 == [mem EXCEPT ![a] = Displaced(mem[a], a)]
    <2>1. mem1[a] = Displaced(mem[a], a) /\ \A d \in Address : d # a => mem1[d] = mem[d]
      BY <1>9
    <2>2. mem1[a].runs = Nothing /\ mem1[a].next = Wild
      BY <1>7, <1>9, <1>21, <2>1, DisplacedIs
    <2> HIDE DEF mem1
    <2>3. \A i \in 0 .. k - 1 : mem1[w[i]] = mem[w[i]]
      <3>1. \A i \in 0 .. k - 1 : i \in 0 .. len /\ i # k
        OBVIOUS
      <3>2. \A i \in 0 .. len : w[i] \in Address /\ (i # k => w[i] # w[k])
        BY <1>4, <1>5 DEF Linked
      <3> QED BY <1>8, <2>1, <3>1, <3>2
    <2>4. PICK v : /\ Linked(mem1, R, f, k, v, Wild) /\ RunsOnce(mem1, Listed(k, v), who)
                   /\ \A i \in 0 .. k : v[i] = w[i]
                   /\ Listed(k, v) \subseteq Listed(len, w)
      BY <1>4, <1>5, <1>8, <2>2, <2>3, ListCut
    <2>5. k \in Nat /\ k \in 0 .. k /\ v[k] = a /\ OnWay(mem1, v, k)
      BY <1>8, <2>3, <2>4 DEF OnWay
    <2>6. AreNew(Listed(k, v), N, 3, new, 2)
      BY <1>11, <1>18, <2>4
    <2>7. LetsInAt(mem1, mem2, Listed(k, v), a, 3, new, 2, Mod)
      BY <1>4, <1>11, <1>19, <2>1, <2>4
    <2>8. Linked(mem1, R, f, k, v, Wild) /\ RunsOnce(mem1, Listed(k, v), who)
          /\ (Wild = Caller => RunsAll(mem1, Listed(k, v), who))
      BY <2>4, CallerIsNoBlock
    <2> HIDE DEF N
    <2>9. Chained(mem2, R2, f, who \cup {Mod}, Wild)
      BY <1>4, <1>12, <1>13, <1>15, <1>17, <2>5, <2>6, <2>7, <2>8, ChainedLetIn DEF N
    <2> QED BY <1>21, <2>9 DEF mem2, R2, who, R
  <1>22. mem[a].jump \in {"none", "far", "unrecognised"}
    BY <1>7, <1>9, DisplacedIs
  <1> QED BY <1>16, <1>20, <1>21, <1>22

\* What a party p makes of the blocks, with its jump at a.
WithParty(mem, p, kind, a) ==
  [b \in Address |->
     CASE b \in Code(p) -> Runs(p, Copy(p))
       [] b = Copy(p) -> Taken(mem, a, kind)
       [] b = a -> Jump(kind, Entry(p))
       [] b \in Overrun(a, kind) -> Unused
       [] OTHER -> mem[b]]

\* A jump overruns code of the one whose entry it is at, and no place for jumps.
LEMMA OverrunIs ==
  ASSUME NEW a, NEW kind \in Jumps
  PROVE  /\ \A b \in Overrun(a, kind) : /\ a = Entry(a[1]) /\ b \in Code(a[1]) /\ b # a
                                        /\ \E k \in Jumps : b = Behind(a, k)
         /\ Overrun(a, kind) \cap Heads = {}
         /\ a \in Address /\ a = Entry(a[1]) => Behind(a, kind) \notin Overrun(a, kind)
  <1>1. ASSUME NEW b \in Overrun(a, kind)
        PROVE  /\ a = Entry(a[1]) /\ b \in Code(a[1]) /\ b # a /\ b \notin Heads
               /\ \E k \in Jumps : b = Behind(a, k)
    <2>1. PICK k \in Jumps : b = Behind(a, k) /\ a = Entry(a[1])
      BY DEF Overrun
    <2>2. b \in Code(a[1])
      BY <2>1, Names
    <2>3. b[2] = k /\ b[2] # "entry" /\ b[2] # "protection" /\ a[2] = "entry"
      BY <2>1, Names DEF Behind, Entry
    <2>4. b \notin Heads /\ b # a
      BY <2>3 DEF Heads, Entry, Protection
    <2> QED BY <2>1, <2>2, <2>4
  <1>2. ASSUME a \in Address, a = Entry(a[1]) PROVE Behind(a, kind) \notin Overrun(a, kind)
    <2>1. a[1] \in Function \cup Parties
      BY <1>2 DEF Address
    <2>2. /\ Clearance[a[1]] \in [Jumps -> Nat] /\ Clearance[a[1]][kind] >= Length[kind]
          /\ Length[kind] \in Nat
      <3>1. /\ Clearance \in [Function \cup Parties -> [Jumps -> Nat]]
            /\ \A x \in Function \cup Parties, how \in Jumps : Clearance[x][how] >= Length[how]
            /\ UnknownLength \in Nat
        BY HookChainAssumption
      <3> QED BY <2>1, <3>1 DEF Length, Jumps, Recognised
    <2>3. \A k \in Jumps : Behind(a, k) = Behind(a, kind) => k = kind
      BY DEF Behind
    <2>4. ~(Clearance[a[1]][kind] < Length[kind])
      BY <2>2
    <2> QED BY <2>3, <2>4 DEF Overrun
  <1> QED BY <1>1, <1>2

LEMMA WithPartyIs ==
  ASSUME NEW mem, NEW p \in Parties, NEW kind \in Jumps, NEW a \in Address, a \notin Allocated(p)
  PROVE  /\ \A b \in Code(p) : WithParty(mem, p, kind, a)[b] = Runs(p, Copy(p))
         /\ WithParty(mem, p, kind, a)[Copy(p)] = Taken(mem, a, kind)
         /\ WithParty(mem, p, kind, a)[a] = Jump(kind, Entry(p))
         /\ \A b \in Overrun(a, kind) : b \in Address => WithParty(mem, p, kind, a)[b] = Unused
         /\ \A b \in Address : b # a /\ b \notin Allocated(p) /\ b \notin Overrun(a, kind)
                                 => WithParty(mem, p, kind, a)[b] = mem[b]
  <1>1. Allocated(p) \subseteq Address /\ Copy(p) \notin Code(p)
    BY AddressesDiffer
  <1>2. Code(p) \subseteq Address /\ Copy(p) \in Address /\ a \notin Code(p) /\ a # Copy(p)
    BY <1>1 DEF Allocated
  <1>3. ASSUME NEW b \in Overrun(a, kind) PROVE b # a /\ b \notin Code(p) /\ b # Copy(p)
    <2>1. b \in Code(a[1]) /\ a = Entry(a[1]) /\ b # a
      BY OverrunIs
    <2>2. a[1] # p
      BY <1>2, <2>1, Names
    <2>3. b[1] = a[1]
      BY <2>1, Belongs
    <2>4. \A c \in Allocated(p) : c[1] = p
      BY Belongs
    <2> QED BY <2>1, <2>2, <2>3, <2>4 DEF Allocated
  <1> HIDE DEF Overrun
  <1>4. \A b \in Address :
          WithParty(mem, p, kind, a)[b] =
            CASE b \in Code(p) -> Runs(p, Copy(p))
              [] b = Copy(p) -> Taken(mem, a, kind)
              [] b = a -> Jump(kind, Entry(p))
              [] b \in Overrun(a, kind) -> Unused
              [] OTHER -> mem[b]
    BY DEF WithParty
  <1>5. \A b \in Code(p) : WithParty(mem, p, kind, a)[b] = Runs(p, Copy(p))
    BY <1>1, <1>2, <1>3, <1>4
  <1>6. WithParty(mem, p, kind, a)[Copy(p)] = Taken(mem, a, kind)
    BY <1>1, <1>2, <1>3, <1>4
  <1>7. WithParty(mem, p, kind, a)[a] = Jump(kind, Entry(p))
    BY <1>2, <1>3, <1>4
  <1>8. \A b \in Overrun(a, kind) : b \in Address => WithParty(mem, p, kind, a)[b] = Unused
    BY <1>3, <1>4
  <1>9. \A b \in Address : b # a /\ b \notin Allocated(p) /\ b \notin Overrun(a, kind)
                             => WithParty(mem, p, kind, a)[b] = mem[b]
    BY <1>4 DEF Allocated
  <1> QED BY <1>5, <1>6, <1>7, <1>8, <1>9

\* So does the hook of another overlay, with any kind of jump, unless that jump is
\* put over code that a call gets to.
LEMMA PartyChained ==
  ASSUME NEW mem \in [Address -> Block], NEW hkd, NEW hks, NEW f \in Function,
         NEW p \in Parties, hks[p] # f,
         NEW end \in Ends,
         Chained(mem, RegionOf(hkd, hks, f), f, InterestedOf(hkd, hks, f), end),
         CodeKept(mem, hks, f), NEW kind \in Jumps,
         NEW a \in HookPlaces(mem, f, Jumps)
  PROVE  Chained(WithParty(mem, p, kind, a), RegionOf(hkd, hks, f) \cup Allocated(p), f,
                 InterestedOf(hkd, hks, f) \cup {p},
                 IF Overrun(a, kind) \cap Passed(mem, f) # {} THEN Wild ELSE end)
  <1> DEFINE mem2 == WithParty(mem, p, kind, a)
             R == RegionOf(hkd, hks, f)
             who == InterestedOf(hkd, hks, f)
             R2 == R \cup Allocated(p)
  <1>1. GoesOn(mem)
    BY DEF GoesOn, Block
  <1>2. PICK len \in Nat : \E w : IsChain(mem, R, f, who, end, len, w)
    BY DEF Chained
  <1>3. PICK w : IsChain(mem, R, f, who, end, len, w)
    BY <1>2
  <1>4. R \in SUBSET Address /\ R \cap Allocated(p) = {}
    BY RegionsApart
  <1>5. /\ Linked(mem, R, f, len, w, end) /\ RunsOnce(mem, Listed(len, w), who)
        /\ end = Caller => RunsAll(mem, Listed(len, w), who)
    BY <1>3 DEF IsChain
  <1>6. PICK kinds \in SUBSET Jumps : kinds = Jumps
    OBVIOUS
  <1>7. (\E k \in 0 .. len : a = w[k] /\ OnWay(mem, w, k)) /\ a \in R /\ a \in Heads
    <2> HIDE DEF R, who
    <2>1. /\ GoesOn(mem) /\ R \in SUBSET Address /\ f \in Function /\ end \in Ends
          /\ len \in Nat /\ IsChain(mem, R, f, who, end, len, w) /\ kinds \in SUBSET Jumps
          /\ a \in HookPlaces(mem, f, kinds)
      BY <1>1, <1>3, <1>4, <1>6
    <2> QED BY ONLY <2>1, HookedWhere
  <1>8. PICK k \in 0 .. len : a = w[k] /\ OnWay(mem, w, k)
    BY <1>7
  <1>9. a \in Address /\ a \notin Allocated(p) /\ mem[a] \in Block
    BY <1>4, <1>7
  <1> DEFINE Gone == Overrun(a, kind)
  <1>10. /\ \A b \in Code(p) : mem2[b] = Runs(p, Copy(p))
         /\ mem2[Copy(p)] = Taken(mem, a, kind)
         /\ mem2[a] = Jump(kind, Entry(p))
         /\ \A b \in Gone : b \in Address => mem2[b] = Unused
         /\ \A b \in Address : b # a /\ b \notin Allocated(p) /\ b \notin Gone => mem2[b] = mem[b]
    BY <1>9, WithPartyIs
  <1>11. /\ \A b \in Gone : /\ a = Entry(a[1]) /\ b \in Code(a[1]) /\ b # a
                            /\ \E how \in Jumps : b = Behind(a, how)
         /\ Gone \cap Heads = {}
         /\ a = Entry(a[1]) => Behind(a, kind) \notin Gone
    BY <1>9, OverrunIs
  <1>12. Listed(len, w) \subseteq R /\ a \in Listed(len, w)
    BY <1>5, <1>8 DEF Linked, Listed
  <1>13. p \notin who \cup {Nothing}
    BY RunnersDiffer DEF InterestedOf
  <1>14. /\ Entry(p) \in Code(p) /\ Code(p) \subseteq Allocated(p) /\ Copy(p) \in Allocated(p)
         /\ Entry(p) # Copy(p) /\ Allocated(p) \subseteq Address
    BY Names, AddressesDiffer DEF Allocated
  <1>15. /\ mem2[Entry(p)].runs = p /\ mem2[Entry(p)].next = Copy(p)
         /\ mem2[a].runs = Nothing /\ mem2[a].next = Entry(p)
    BY <1>10, <1>14 DEF Runs, Jump
  <1>16. Entry(p) \in Heads /\ mem2[Entry(p)].jump = "none" /\ mem2[a].jump \in Jumps
    BY <1>10, <1>14 DEF Heads, Runs, Jump
  <1>17. R \in SUBSET Address /\ R \cup Allocated(p) \subseteq R2
    BY <1>4
  <1>18. Gone \cap Passed(mem, f) # {} <=> Gone \cap Listed(len, w) # {}
    <2>1. Passed(mem, f) = Listed(len, w) \cup {end}
      <3> HIDE DEF mem2, R, who, R2, Gone
      <3>1. Linked(mem, R, f, len, w, end)
        BY <1>5
      <3> QED BY <1>1, <1>4, <3>1, PassedLinked
    <2>2. end \notin Gone /\ end \in Ends
      <3>1. \A b \in Gone : b = <<a[1], b[2]>>
        BY <1>11 DEF Behind
      <3>2. \A b \in Gone : b \in Address
        <4>1. a[1] \in Function \cup Parties
          BY <1>9 DEF Address
        <4>2. \A b \in Gone : b \in Code(a[1])
          BY <1>11
        <4> QED BY <4>1, <4>2, AddressesDiffer DEF Allocated
      <3> QED BY <3>2, CallerIsNoBlock DEF Ends
    <2> QED BY <2>1, <2>2
  <1> HIDE DEF mem2, R, who, R2, Gone
  <1> DEFINE C == Listed(len, w)
             ended == IF Gone \cap Passed(mem, f) # {} THEN Wild ELSE end
             OverCode == a = Entry(a[1]) /\ mem[a].jump = "none"
  <1>19. CASE OverCode
    <2> DEFINE b == Behind(a, kind)
               new == <<Entry(p), Copy(p), b>>
               N == Allocated(p) \cup {b}
    <2>1. PICK x \in Owners(hks, f) : a = Entry(x) /\ x = a[1]
      <3>1. a[2] = "entry"
        BY <1>19 DEF Entry
      <3>2. a # Protection(f)
        BY <3>1 DEF Protection
      <3>3. PICK x \in Owners(hks, f) : a = Entry(x)
        BY <1>7, <3>2, HeadOfRegion DEF R
      <3> QED BY <3>3, Names
    <2>2. /\ mem[a].runs # Nothing
          /\ \A how \in Jumps : mem[Behind(a, how)] = mem[a] /\ Behind(a, how) # a
      <3>1. \A how \in Jumps : Behind(a, how) # a
        BY <2>1, Names DEF Entry
      <3> QED BY <1>19, <2>1, <3>1 DEF CodeKept
    <2>3. \A how \in Jumps : Behind(a, how) \notin C
      BY <1>5, <1>12, <2>2 DEF RunsOnce
    <2>4. Gone \cap C = {}
      BY <1>11, <2>3
    <2>5. b \in R
      <3>1. b \in Code(x)
        BY <2>1, Names
      <3> QED BY <3>1, CodeInRegion DEF R
    <2>6. b \in Address /\ b \notin Allocated(p) /\ b # a /\ b \notin Gone
      BY <1>4, <1>11, <1>19, <2>2, <2>5
    <2>7. mem2[b] = mem[a] /\ b \notin C
      BY <1>10, <2>2, <2>3, <2>6
    <2>8. mem2[Copy(p)].runs = Nothing /\ mem2[Copy(p)].next = b
      <3>1. Taken(mem, a, kind) = Runs(Nothing, b)
        BY <1>19 DEF Taken
      <3> QED BY <1>10, <3>1 DEF Runs
    <2> HIDE DEF b
    <2>9. new[1] = Entry(p) /\ new[2] = Copy(p) /\ new[3] = b
      OBVIOUS
    <2>10. AreNew(C, N, 3, new, 1)
      <3>1. new \in [1 .. 3 -> N]
        BY <1>14
      <3>2. C \cap N = {} /\ N \in SUBSET Address
        BY <1>4, <1>12, <1>14, <2>6, <2>7
      <3>3. \A i, j \in 1 .. 3 : new[i] = new[j] => i = j
        <4>1. \A i \in 1 .. 3 : i = 1 \/ i = 2 \/ i = 3
          OBVIOUS
        <4>2. b # Entry(p) /\ b # Copy(p)
          BY <1>14, <2>6
        <4> HIDE DEF new
        <4> QED BY <1>14, <2>9, <4>1, <4>2
      <3> QED BY <3>1, <3>2, <3>3 DEF AreNew
    <2>11. LetsInAt(mem, mem2, C, a, 3, new, 1, p)
      <3>1. \A i \in 1 .. 3 - 1 : i = 1 \/ i = 2
        OBVIOUS
      <3>2. \A d \in C : d # a => mem2[d] = mem[d]
        BY <1>4, <1>10, <1>12, <2>4
      <3> HIDE DEF new, C
      <3> QED BY <1>15, <2>7, <2>8, <2>9, <3>1, <3>2 DEF LetsInAt
    <2>12. R \cup N \subseteq R2
      BY <1>17, <2>5
    <2> HIDE DEF new, N
    <2>13. Chained(mem2, R2, f, who \cup {p}, end)
      BY <1>4, <1>5, <1>8, <1>13, <1>16, <2>9, <2>10, <2>11, <2>12, ChainedLetIn
    <2>14. ended = end
      BY <1>18, <2>4
    <2> QED BY <2>13, <2>14 DEF mem2, R2, who, R, Gone
  <1> DEFINE new == <<Entry(p), Copy(p)>>
             N == Allocated(p)
  <1>20. new[1] = Entry(p) /\ new[2] = Copy(p)
    OBVIOUS
  <1>21. ASSUME NEW D, D \subseteq R PROVE AreNew(D, N, 2, new, 1)
    <2>1. new \in [1 .. 2 -> N]
      BY <1>14
    <2>2. D \cap N = {} /\ N \in SUBSET Address
      BY <1>4, <1>14, <1>21
    <2>3. \A i, j \in 1 .. 2 : new[i] = new[j] => i = j
      <3>1. \A i \in 1 .. 2 : i = 1 \/ i = 2
        OBVIOUS
      <3> HIDE DEF new
      <3> QED BY <1>14, <1>20, <3>1
    <2> QED BY <2>1, <2>2, <2>3 DEF AreNew
  <1>22. ASSUME ~OverCode, NEW mem1, mem1[a] = mem[a],
                NEW D, D \subseteq R, \A d \in D : d # a => mem2[d] = mem1[d]
         PROVE  LetsInAt(mem1, mem2, D, a, 2, new, 1, p)
    <2>1. \A i \in 1 .. 2 - 1 : i = 1
      OBVIOUS
    <2>2. mem2[Copy(p)] = mem1[a]
      BY <1>10, <1>22 DEF Taken
    <2> HIDE DEF new
    <2> QED BY <1>15, <1>20, <1>22, <2>1, <2>2 DEF LetsInAt
  <1> HIDE DEF new, OverCode
  <1>23. CASE ~OverCode /\ Gone \cap C = {}
    <2>1. \A d \in C : d # a => mem2[d] = mem[d]
      BY <1>4, <1>10, <1>12, <1>23
    <2>2. AreNew(C, N, 2, new, 1) /\ LetsInAt(mem, mem2, C, a, 2, new, 1, p)
      BY <1>12, <1>21, <1>22, <1>23, <2>1
    <2> HIDE DEF N
    <2>3. Chained(mem2, R2, f, who \cup {p}, end)
      BY <1>4, <1>5, <1>8, <1>13, <1>16, <1>17, <1>20, <2>2, ChainedLetIn DEF N
    <2>4. ended = end
      BY <1>18, <1>23
    <2> QED BY <2>3, <2>4 DEF mem2, R2, who, R, Gone
  <1>24. CASE ~OverCode /\ Gone \cap C # {}
    <2> DEFINE T == {i \in 0 .. len : w[i] \in Gone}
               mem1 == [d \in Address |-> IF d \in Gone THEN Unused ELSE mem[d]]
    <2>1. PICK j \in 0 .. len : j \in T /\ \A i \in T : j <= i
      <3>1. T \in SUBSET Nat /\ T \subseteq 0 .. len
        OBVIOUS
      <3>2. T # {}
        BY <1>24 DEF Listed
      <3> HIDE DEF T
      <3> QED BY <3>1, <3>2, Smallest
    <2>2. w[j] \in Gone /\ \A i \in 0 .. j - 1 : i \in 0 .. len /\ w[i] \notin Gone
      BY <2>1
    <2> HIDE DEF T
    <2>3. \A i \in 0 .. len : w[i] \in Address
      BY <1>4, <1>5 DEF Linked
    <2>4. \A d \in Address : mem1[d] = IF d \in Gone THEN Unused ELSE mem[d]
      OBVIOUS
    <2> HIDE DEF mem1
    <2>5. k < j
      <3>1. \A i \in 0 .. k : w[i] \notin Gone
        BY <1>8, <1>11 DEF OnWay
      <3> QED BY <2>2, <3>1
    <2>6. mem1[w[j]].next = Wild /\ mem1[w[j]].runs = Nothing
      BY <2>2, <2>3, <2>4 DEF Unused, Runs
    <2>7. \A i \in 0 .. j - 1 : mem1[w[i]] = mem[w[i]]
      BY <2>2, <2>3, <2>4
    <2>8. PICK v : /\ Linked(mem1, R, f, j, v, Wild) /\ RunsOnce(mem1, Listed(j, v), who)
                   /\ \A i \in 0 .. j : v[i] = w[i]
                   /\ Listed(j, v) \subseteq Listed(len, w)
      BY <1>4, <1>5, <2>2, <2>6, <2>7, ListCut
    <2>9. j \in Nat /\ k \in 0 .. j /\ v[k] = a /\ OnWay(mem1, v, k)
      <3>1. \A i \in 0 .. k : i \in 0 .. j /\ i \in 0 .. j - 1
        BY <2>2, <2>5
      <3>2. \A i \in 0 .. k : v[i] = w[i] /\ mem1[w[i]] = mem[w[i]]
        BY <2>7, <2>8, <3>1
      <3>3. \A i \in 0 .. k - 1 : i \in 0 .. k
        OBVIOUS
      <3> QED BY <1>8, <2>2, <2>5, <3>2, <3>3 DEF OnWay
    <2>10. mem1[a] = mem[a]
      BY <1>9, <1>11, <2>4
    <2>11. Listed(j, v) \subseteq R
      BY <1>12, <2>8
    <2>12. \A d \in Listed(j, v) : d # a => mem2[d] = mem1[d]
      BY <1>4, <1>10, <2>4, <2>11
    <2>13. AreNew(Listed(j, v), N, 2, new, 1) /\ LetsInAt(mem1, mem2, Listed(j, v), a, 2, new, 1, p)
      BY <1>21, <1>22, <1>24, <2>10, <2>11, <2>12
    <2>14. Linked(mem1, R, f, j, v, Wild) /\ RunsOnce(mem1, Listed(j, v), who)
           /\ (Wild = Caller => RunsAll(mem1, Listed(j, v), who))
      BY <2>8, CallerIsNoBlock
    <2> HIDE DEF N
    <2>15. Chained(mem2, R2, f, who \cup {p}, Wild)
      BY <1>4, <1>13, <1>16, <1>17, <1>20, <2>9, <2>13, <2>14, ChainedLetIn DEF N
    <2>16. ended = Wild
      BY <1>18, <1>24
    <2> QED BY <2>15, <2>16 DEF mem2, R2, who, R, Gone
  <1> QED BY <1>19, <1>23, <1>24

\* The hook of another function changes nothing of this one's chain.
LEMMA ChainedElsewhere ==
  ASSUME NEW mem, NEW mem2, NEW hkd, NEW hks, NEW hkd2, NEW hks2, NEW ast, NEW ast2,
         AllChained(mem, hkd, hks, ast), NEW g \in Function,
         \A b \in RegionOf(hkd, hks, g) : mem2[b] = mem[b],
         g \in hkd2 <=> g \in hkd, \A q \in Parties : hks2[q] = g <=> hks[q] = g,
         g \in ast2 <=> g \in ast
  PROVE  /\ Chained(mem2, RegionOf(hkd2, hks2, g), g, InterestedOf(hkd2, hks2, g), EndOf(ast2, g))
         /\ CodeKept(mem2, hks2, g)
  <1> DEFINE R == RegionOf(hkd, hks, g)
             who == InterestedOf(hkd, hks, g)
             end == EndOf(ast, g)
  <1>1. R \in SUBSET Address /\ Chained(mem, R, g, who, end) /\ CodeKept(mem, hks, g)
    BY RegionsApart DEF AllChained
  <1>2. R = RegionOf(hkd2, hks2, g) /\ who = InterestedOf(hkd2, hks2, g) /\ end = EndOf(ast2, g)
    BY DEF RegionOf, InterestedOf, EndOf
  <1>3. Owners(hks, g) = Owners(hks2, g)
    BY DEF Owners
  <1>4. CodeKept(mem2, hks, g)
    BY <1>1, SameCode
  <1>5. CodeKept(mem2, hks2, g)
    BY <1>3, <1>4 DEF CodeKept
  <1>6. \A b \in R : mem2[b] = mem[b]
    OBVIOUS
  <1> HIDE DEF R, who, end
  <1>7. Chained(mem2, R, g, who, end)
    BY <1>1, <1>6, SameChains
  <1> QED BY <1>2, <1>5, <1>7

\* The code in f's region is what it was but at a, where there is a jump now, and
\* where that overruns code.
KeptBut(mem, mem2, hks, f, a, gone) ==
  /\ mem2[a].jump \in Jumps
  /\ \A b \in gone : a = Entry(a[1]) /\ b \in Code(a[1])
  /\ \A x \in Owners(hks, f) : \A b \in Code(x) : b # a /\ b \notin gone => mem2[b] = mem[b]

\* The code of a new owner runs from anywhere.
NewCode(mem2, hks, hks2, f) ==
  \A x \in Owners(hks2, f) \ Owners(hks, f) :
    mem2[Entry(x)].runs # Nothing /\ \A b \in Code(x) : mem2[b] = mem2[Entry(x)]

\* Code that a jump is put over is code no more; what else is left of the owners'
\* code is as it was.
LEMMA CodeKeptAfter ==
  ASSUME NEW mem, NEW mem2, NEW hks, NEW hks2, NEW f \in Function,
         CodeKept(mem, hks, f), NEW a \in Heads,
         NEW gone, KeptBut(mem, mem2, hks, f, a, gone), NewCode(mem2, hks, hks2, f)
  PROVE  CodeKept(mem2, hks2, f)
  <1> SUFFICES ASSUME NEW x \in Owners(hks2, f), mem2[Entry(x)].jump = "none"
               PROVE  /\ mem2[Entry(x)].runs # Nothing
                      /\ \A kind \in Jumps : mem2[Behind(Entry(x), kind)] = mem2[Entry(x)]
    BY DEF CodeKept
  <1>1. Entry(x) \in Code(x) /\ \A kind \in Jumps : Behind(Entry(x), kind) \in Code(x)
    BY Names
  <1>2. CASE x \notin Owners(hks, f)
    BY <1>1, <1>2 DEF NewCode
  <1>3. CASE x \in Owners(hks, f)
    <2>1. Entry(x) # a
      BY DEF KeptBut, Jumps, Recognised
    <2>2. ASSUME NEW kind \in Jumps PROVE Behind(Entry(x), kind) # a
      <3>1. a[2] \in {"entry", "protection"}
        BY DEF Heads, Entry, Protection
      <3>2. Behind(Entry(x), kind)[2] = kind
        BY Names
      <3> QED BY <3>1, <3>2, Names
    <2>3. \A b \in Code(x) : b \notin gone
      BY <2>1, Belongs DEF KeptBut
    <2>4. mem2[Entry(x)] = mem[Entry(x)]
      BY <1>1, <1>3, <2>1, <2>3 DEF KeptBut
    <2>5. mem[Entry(x)].runs # Nothing
          /\ \A kind \in Jumps : mem[Behind(Entry(x), kind)] = mem[Entry(x)]
      BY <1>3, <2>4 DEF CodeKept
    <2>6. \A kind \in Jumps : mem2[Behind(Entry(x), kind)] = mem[Behind(Entry(x), kind)]
      BY <1>1, <1>3, <2>2, <2>3 DEF KeptBut
    <2> QED BY <2>4, <2>5, <2>6
  <1> QED BY <1>2, <1>3

\* Who goes astray when the mod displaces the block b, and when a party's jump
\* overruns some of what a call passes.
AstrayHook(ast, f, b) == ast \cup {g \in {f} : b.jump = "unrecognised"}
AstrayParty(ast, f, gone, passed) == ast \cup {g \in {f} : gone \cap passed # {}}

\* The mod's hook, placed in one step, leaves every function chained.
LEMMA ChainedAfterHook ==
  ASSUME NEW mem \in [Address -> Block], NEW hkd, NEW hks, NEW ast,
         AllChained(mem, hkd, hks, ast), NEW f \in Function, f \notin hkd,
         NEW a, a = AddressToHook(mem, f)
  PROVE  AllChained(WithHook(mem, f, a), hkd \cup {f}, hks,
                    AstrayHook(ast, f, mem[a]))
  <1> DEFINE mem2 == WithHook(mem, f, a)
             ast2 == AstrayHook(ast, f, mem[a])
             hkd2 == hkd \cup {f}
             R == RegionOf(hkd, hks, f)
             end == EndOf(ast, f)
  <1>1. /\ Chained(mem, R, f, InterestedOf(hkd, hks, f), end)
        /\ CodeKept(mem, hks, f)
    BY DEF AllChained
  <1>2. end \in Ends
    BY DEF EndOf, Ends
  <1>3. GoesOn(mem) /\ Followed \in SUBSET Jumps
    BY DEF GoesOn, Block, Followed, Jumps, Recognised
  <1>4. /\ R \in SUBSET Address /\ R \cap Trampoline(f) = {}
        /\ \A g \in Function : RegionOf(hkd, hks, g) \cap Trampoline(f) = {}
        /\ \A g \in Function : RegionOf(hkd, hks, g) \in SUBSET Address
        /\ \A g \in Function : g # f => RegionOf(hkd, hks, g) \cap R = {}
    BY RegionsApart
  <1>5. a \in R /\ a \in Heads
    <2> HIDE DEF R, end
    <2> QED BY <1>1, <1>2, <1>3, <1>4, EndInRegion DEF AddressToHook
  <1>6. Chained(mem2, R \cup Trampoline(f), f, InterestedOf(hkd, hks, f) \cup {Mod},
                IF mem[a].jump = "unrecognised" THEN Wild ELSE end)
    <2> HIDE DEF end
    <2> QED BY <1>1, <1>2, HookChained
  <1>7. /\ mem2[a] = Jump("relative", Protection(f))
        /\ \A b \in Address : b # a /\ b \notin Trampoline(f) => mem2[b] = mem[b]
    BY <1>4, <1>5, WithHookIs
  <1> HIDE DEF mem2
  <1>8. ASSUME NEW g \in Function, g # f
        PROVE  /\ Chained(mem2, RegionOf(hkd2, hks, g), g, InterestedOf(hkd2, hks, g), EndOf(ast2, g))
               /\ CodeKept(mem2, hks, g)
    <2>1. \A b \in RegionOf(hkd, hks, g) : mem2[b] = mem[b]
      BY <1>4, <1>5, <1>7, <1>8
    <2>2. (g \in hkd2 <=> g \in hkd) /\ (g \in ast2 <=> g \in ast)
      BY <1>8 DEF AstrayHook
    <2> HIDE DEF hkd2, ast2, R, end
    <2> QED BY <2>1, <2>2, ChainedElsewhere
  <1>9. CodeKept(mem2, hks, f)
    <2>1. mem2[a].jump \in Jumps
      BY <1>7 DEF Jump, Jumps, Recognised
    <2>2. \A x \in Owners(hks, f) : \A b \in Code(x) : b # a /\ b \notin {} => mem2[b] = mem[b]
      BY <1>4, <1>7, CodeInRegion
    <2>3. KeptBut(mem, mem2, hks, f, a, {})
      BY <2>1, <2>2 DEF KeptBut
    <2>4. NewCode(mem2, hks, hks, f)
      BY DEF NewCode
    <2> HIDE DEF R, end
    <2> QED BY <1>1, <1>5, <2>3, <2>4, CodeKeptAfter
  <1>10. /\ R \cup Trampoline(f) = RegionOf(hkd2, hks, f)
         /\ InterestedOf(hkd, hks, f) \cup {Mod} = InterestedOf(hkd2, hks, f)
         /\ EndOf(ast2, f) = IF mem[a].jump = "unrecognised" THEN Wild ELSE end
    <2>1. R \cup Trampoline(f) = RegionOf(hkd2, hks, f)
      BY AddressesDiffer DEF RegionOf
    <2>2. InterestedOf(hkd, hks, f) \cup {Mod} = InterestedOf(hkd2, hks, f)
      BY DEF InterestedOf
    <2>3. EndOf(ast2, f) = IF mem[a].jump = "unrecognised" THEN Wild ELSE end
      BY DEF EndOf, AstrayHook
    <2> QED BY <2>1, <2>2, <2>3
  <1> HIDE DEF R, hkd2, ast2, end
  <1>11. AllChained(mem2, hkd2, hks, ast2)
    BY <1>6, <1>8, <1>9, <1>10 DEF AllChained
  <1> QED BY <1>11 DEF mem2, hkd2, ast2

\* A party's jump is put in the function's region, and what it overruns is there too.
LEMMA HookPlaceInRegion ==
  ASSUME NEW mem, GoesOn(mem), NEW hkd, NEW hks, NEW ast, AllChained(mem, hkd, hks, ast),
         NEW f \in Function, NEW a \in HookPlaces(mem, f, Jumps)
  PROVE  a \in RegionOf(hkd, hks, f) /\ a \in Heads /\ RegionOf(hkd, hks, f) \in SUBSET Address
  <1> DEFINE R == RegionOf(hkd, hks, f)
             end == EndOf(ast, f)
  <1>1. Chained(mem, R, f, InterestedOf(hkd, hks, f), end) /\ end \in Ends
    BY DEF AllChained, EndOf, Ends
  <1>2. R \in SUBSET Address
    BY RegionsApart
  <1>3. Entry(f) \in Heads /\ Entry(f) \in R
    BY AddressesDiffer, Names DEF RegionOf, Heads
  <1>4. PICK kinds \in SUBSET Jumps : kinds = Jumps
    OBVIOUS
  <1> HIDE DEF R, end
  <1>5. End(mem, Entry(f), kinds) \in R /\ End(mem, Entry(f), kinds) \in Heads
    BY <1>1, <1>2, EndInRegion
  <1>6. a \in R /\ a \in Heads
    BY <1>3, <1>4, <1>5 DEF HookPlaces
  <1> QED BY <1>2, <1>6 DEF R

LEMMA OverrunWithin ==
  ASSUME NEW hkd, NEW hks, NEW f \in Function, NEW a \in RegionOf(hkd, hks, f), a \in Heads,
         NEW kind \in Jumps
  PROVE  Overrun(a, kind) \subseteq RegionOf(hkd, hks, f)
  <1> SUFFICES ASSUME NEW b \in Overrun(a, kind) PROVE b \in RegionOf(hkd, hks, f)
    OBVIOUS
  <1>1. a = Entry(a[1]) /\ b \in Code(a[1])
    BY OverrunIs
  <1>2. a # Protection(f)
    BY <1>1 DEF Entry, Protection
  <1>3. PICK x \in Owners(hks, f) : a = Entry(x)
    BY <1>2, HeadOfRegion
  <1>4. a[1] = x
    BY <1>3, Names
  <1> QED BY <1>1, <1>3, <1>4, CodeInRegion

\* So does a party's.
LEMMA ChainedAfterParty ==
  ASSUME NEW mem \in [Address -> Block], NEW hkd,
         NEW hks \in [Parties -> Function \cup {NoFunction}], NEW ast,
         AllChained(mem, hkd, hks, ast),
         NEW f \in Function, NEW p \in Parties, hks[p] = NoFunction, NEW kind \in Jumps,
         NEW a \in HookPlaces(mem, f, Jumps)
  PROVE  AllChained(WithParty(mem, p, kind, a), hkd, [hks EXCEPT ![p] = f],
                    AstrayParty(ast, f, Overrun(a, kind), Passed(mem, f)))
  <1> DEFINE mem2 == WithParty(mem, p, kind, a)
             Gone == Overrun(a, kind)
             ast2 == AstrayParty(ast, f, Gone, Passed(mem, f))
             hks2 == [hks EXCEPT ![p] = f]
             R == RegionOf(hkd, hks, f)
             end == EndOf(ast, f)
  <1>1. /\ Chained(mem, R, f, InterestedOf(hkd, hks, f), end)
        /\ CodeKept(mem, hks, f)
    BY DEF AllChained
  <1>2. end \in Ends
    BY DEF EndOf, Ends
  <1>3. GoesOn(mem) /\ NoFunction \notin Function /\ NoFunction # f
    BY DEF GoesOn, Block, NoFunction, Function
  <1>4. /\ \A g \in Function : RegionOf(hkd, hks, g) \in SUBSET Address
        /\ \A g \in Function : g # f => RegionOf(hkd, hks, g) \cap R = {}
        /\ \A g \in Function : RegionOf(hkd, hks, g) \cap Allocated(p) = {}
    BY <1>3, RegionsApart
  <1>5. a \in R /\ a \in Heads
    BY <1>3, HookPlaceInRegion
  <1>6. Chained(mem2, R \cup Allocated(p), f, InterestedOf(hkd, hks, f) \cup {p},
                IF Gone \cap Passed(mem, f) # {} THEN Wild ELSE end)
    <2>1. hks[p] # f
      BY <1>3
    <2> HIDE DEF end
    <2> QED BY <1>1, <1>2, <2>1, PartyChained
  <1>7. a \in Address /\ a \notin Allocated(p)
    BY <1>4, <1>5
  <1>8. /\ \A b \in Code(p) : mem2[b] = Runs(p, Copy(p))
        /\ mem2[a] = Jump(kind, Entry(p))
        /\ \A b \in Address : b # a /\ b \notin Allocated(p) /\ b \notin Gone => mem2[b] = mem[b]
    BY <1>7, WithPartyIs
  <1>9. \A b \in Gone : a = Entry(a[1]) /\ b \in Code(a[1])
    BY OverrunIs
  <1>10. Gone \subseteq R
    BY <1>5, OverrunWithin
  <1>11. hks2[p] = f /\ \A q \in Parties : q # p => hks2[q] = hks[q]
    OBVIOUS
  <1> HIDE DEF mem2, Gone, hks2
  <1>12. ASSUME NEW g \in Function, g # f
         PROVE  /\ Chained(mem2, RegionOf(hkd, hks2, g), g, InterestedOf(hkd, hks2, g), EndOf(ast2, g))
                /\ CodeKept(mem2, hks2, g)
    <2>1. \A b \in RegionOf(hkd, hks, g) : mem2[b] = mem[b]
      <3>1. \A b \in RegionOf(hkd, hks, g) : b \in Address /\ b \notin R /\ b \notin Allocated(p)
        BY <1>4, <1>12
      <3> HIDE DEF R
      <3> QED BY <1>5, <1>8, <1>10, <3>1
    <2>2. \A q \in Parties : hks2[q] = g <=> hks[q] = g
      BY <1>3, <1>11, <1>12
    <2>3. g \in ast2 <=> g \in ast
      BY <1>12 DEF AstrayParty
    <2> HIDE DEF ast2, R, end
    <2> QED BY <2>1, <2>2, <2>3, ChainedElsewhere
  <1>13. CodeKept(mem2, hks2, f)
    <2>1. mem2[a].jump \in Jumps
      BY <1>8 DEF Jump
    <2>2. \A x \in Owners(hks, f) : \A b \in Code(x) : b # a /\ b \notin Gone => mem2[b] = mem[b]
      BY <1>4, <1>8, CodeInRegion
    <2>3. \A x \in Owners(hks2, f) \ Owners(hks, f) : x = p
      BY <1>11 DEF Owners
    <2>4. mem2[Entry(p)].runs # Nothing /\ \A b \in Code(p) : mem2[b] = mem2[Entry(p)]
      BY <1>8, Names, RunnersDiffer DEF Runs
    <2>5. KeptBut(mem, mem2, hks, f, a, Gone)
      BY <1>9, <2>1, <2>2 DEF KeptBut
    <2>6. NewCode(mem2, hks, hks2, f)
      BY <2>3, <2>4 DEF NewCode
    <2> HIDE DEF R, end
    <2> QED BY <1>1, <1>5, <2>5, <2>6, CodeKeptAfter
  <1>14. /\ R \cup Allocated(p) = RegionOf(hkd, hks2, f)
         /\ InterestedOf(hkd, hks, f) \cup {p} = InterestedOf(hkd, hks2, f)
         /\ EndOf(ast2, f) = IF Gone \cap Passed(mem, f) # {} THEN Wild ELSE end
    <2>1. R \cup Allocated(p) = RegionOf(hkd, hks2, f)
      BY <1>3, <1>11, AddressesDiffer DEF RegionOf
    <2>2. InterestedOf(hkd, hks, f) \cup {p} = InterestedOf(hkd, hks2, f)
      BY <1>3, <1>11 DEF InterestedOf
    <2>3. EndOf(ast2, f) = IF Gone \cap Passed(mem, f) # {} THEN Wild ELSE end
      BY DEF EndOf, AstrayParty
    <2> QED BY <2>1, <2>2, <2>3
  <1> HIDE DEF R, ast2, end
  <1>15. AllChained(mem2, hkd, hks2, ast2)
    BY <1>6, <1>12, <1>13, <1>14 DEF AllChained
  <1> QED BY <1>15 DEF mem2, hks2, ast2, Gone

\* What PlaceHook finds, and what a call passes, depends on the function's region
\* only.
LEMMA SameAddressToHook ==
  ASSUME NEW mem, NEW mem2, NEW hkd, NEW hks, NEW ast, NEW f \in Function,
         AllChained(mem, hkd, hks, ast), GoesOn(mem), GoesOn(mem2),
         \A a \in RegionOf(hkd, hks, f) : mem2[a] = mem[a]
  PROVE  /\ AddressToHook(mem2, f) = AddressToHook(mem, f)
         /\ HookPlaces(mem2, f, Jumps) = HookPlaces(mem, f, Jumps)
         /\ Passed(mem2, f) = Passed(mem, f)
  <1> DEFINE R == RegionOf(hkd, hks, f)
             who == InterestedOf(hkd, hks, f)
             end == EndOf(ast, f)
  <1>1. /\ R \in SUBSET Address /\ Chained(mem, R, f, who, end)
        /\ \A a \in R : mem2[a] = mem[a]
    BY RegionsApart DEF AllChained
  <1>2. Followed \in SUBSET Jumps /\ Jumps \in SUBSET Jumps /\ end \in Ends
    BY DEF Followed, Jumps, Recognised, EndOf, Ends
  <1> HIDE DEF R, who, end
  <1>3. /\ \A kinds \in SUBSET Jumps : End(mem2, Entry(f), kinds) = End(mem, Entry(f), kinds)
        /\ Passed(mem2, f) = Passed(mem, f)
    BY <1>1, <1>2, SameEnd
  <1> QED BY <1>2, <1>3 DEF AddressToHook, HookPlaces

\* A call of a function whose blocks are chained runs nobody but those interested,
\* and if it does not go astray, everybody once and returns.
Reaches(mem, f, who, ast) ==
  LET passed == Passed(mem, f)
      blocks == passed \ {Caller}
  IN  /\ Caller \in passed <=> f \notin ast
      /\ Runners(mem, f) \subseteq who
      /\ f \notin ast =>
           /\ {mem[a].runs : a \in blocks} \ {Nothing} = who
           /\ \A a, b \in blocks :
                mem[a].runs = mem[b].runs => a = b \/ mem[a].runs = Nothing
           /\ \A a \in blocks : mem[a].next = Caller => mem[a].runs = Game

LEMMA ChainedReaches ==
  ASSUME NEW mem, GoesOn(mem), NEW R \in SUBSET Address, NEW f \in Function,
         NEW who, Nothing \notin who, NEW ast, Chained(mem, R, f, who, EndOf(ast, f))
  PROVE  Reaches(mem, f, who, ast)
  <1> DEFINE end == EndOf(ast, f)
  <1>1. PICK len \in Nat : \E w : IsChain(mem, R, f, who, end, len, w)
    BY DEF Chained
  <1>2. PICK w : IsChain(mem, R, f, who, end, len, w)
    BY <1>1
  <1> DEFINE C == Listed(len, w)
  <1>3. end \in Ends /\ (end = Caller <=> f \notin ast)
    BY CallerIsNoBlock DEF EndOf, Ends
  <1> HIDE DEF end
  <1>4. /\ Linked(mem, R, f, len, w, end)
        /\ RunsOnce(mem, C, who) /\ (end = Caller => RunsAll(mem, C, who))
    BY <1>2 DEF IsChain
  <1>5. Passed(mem, f) = C \cup {end}
    BY <1>3, <1>4, PassedLinked
  <1>6. C \subseteq Address
    BY <1>4 DEF Linked, Listed
  <1> HIDE DEF C
  <1>7. /\ Caller \in Passed(mem, f) <=> f \notin ast
        /\ f \notin ast => Passed(mem, f) \ {Caller} = C
        /\ Passed(mem, f) \cap Address = C
    BY <1>3, <1>5, <1>6, CallerIsNoBlock DEF Ends
  <1>8. \A a \in C : mem[a].runs \in who \cup {Nothing}
    BY <1>4 DEF RunsOnce
  <1>9. Runners(mem, f) \subseteq who
    BY <1>7, <1>8 DEF Runners
  <1>10. f \notin ast => {mem[a].runs : a \in C} \ {Nothing} = who
    <2>1. f \notin ast => \A x \in who : \E a \in C : mem[a].runs = x
      BY <1>3, <1>4 DEF RunsAll
    <2> QED BY <1>8, <2>1
  <1>11. /\ \A a, b \in C : mem[a].runs = mem[b].runs => a = b \/ mem[a].runs = Nothing
         /\ \A a \in C : mem[a].next = Caller => mem[a].runs = Game
    BY <1>4 DEF RunsOnce
  <1> QED BY <1>7, <1>9, <1>10, <1>11 DEF Reaches

-----------------------------------------------------------------------------
(* The inductive invariant, as an operator of the state, so that it says   *)
(* the same of this state and the next.                                    *)

SettledOf(mem, hkd, thr) ==
  [a \in Address |->
    IF \E f \in Function \ hkd : a \in Trampoline(f)
    THEN Unused
    ELSE IF mem[a] = Torn
    THEN thr[CHOOSE t \in Thread : thr[t].at = "jump" /\ thr[t].a = a].was
    ELSE mem[a]]

\* Settled as a function of the state, before and after a step.
LEMMA SettledIsOf ==
  Settled = SettledOf(memory, hooked, thread) /\ Settled' = SettledOf(memory', hooked', thread')
  BY DEF Settled, SettledOf, Tearing, Trampoline

States == [at : Placing \cup {"rest", "register"}, f : Function \cup {NoFunction},
           a : Address \cup {Caller}, was : Block]

\* The functions a thread hooks, none of which is hooked while it is at work on it.
WorksOn(t) == IF t = "hook" THEN {"Present", "ResizeBuffers"} ELSE {"ExecuteCommandLists"}

AtWork(t, c, hkd) ==
  /\ c.at \in Placing => c.f \in WorksOn(t) /\ c.f \notin hkd
  /\ t = "present" => c.at # "register"
  /\ t = "hook" /\ (c.at = "register" \/ (c.at \in Placing /\ c.f = "Present"))
       => hkd \cap WorksOn("hook") = {}

\* What PlaceHook has stored before each step.
Stored(c, mem, S) ==
  /\ c.at \in Placing \ {"follow"} => c.a = AddressToHook(S, c.f)
  /\ c.at \in Placing \ {"follow", "copy"} => c.was = S[c.a]
  /\ c.at \in {"detour", "back"} => mem[Copy(c.f)] = Moved(S[c.a])
  /\ c.at \in {"back", "return", "tear", "jump"} =>
       mem[Protection(c.f)] = Runs(Nothing, Detour(c.f))
  /\ c.at \in {"return", "tear", "jump"} => mem[Copy(c.f)] = Displaced(S[c.a], c.a)
  /\ c.at \in {"tear", "jump"} => mem[Detour(c.f)] = Runs(Mod, Copy(c.f))
  /\ c.at = "jump" => mem[c.a] = Torn

Types(mem, hkd, hks, thr) ==
  /\ mem \in [Address -> Block \cup {Torn}]
  /\ hkd \subseteq Function
  /\ hks \in [Parties -> Function \cup {NoFunction}]
  /\ thr \in [Thread -> States]

\* S is what the memory is when the trampolines being built do not count.
Sound(mem, hkd, hks, ast, thr, S) ==
  /\ Types(mem, hkd, hks, thr)
  /\ S \in [Address -> Block]
  /\ AllChained(S, hkd, hks, ast)
  /\ \A f \in Function \ hkd : \A a \in Trampoline(f) : S[a] = Unused
  /\ \A a \in Address : (\A f \in Function \ hkd : a \notin Trampoline(f)) /\ mem[a] # Torn
                          => S[a] = mem[a]
  /\ \A a \in Address : mem[a] = Torn => \E t \in Thread : thr[t].at = "jump" /\ thr[t].a = a
  /\ \A t \in Thread : AtWork(t, thr[t], hkd) /\ Stored(thr[t], mem, S)

\* Only one memory has what Sound asks of S: the one Settled makes.
LEMMA SoundIsSettled ==
  ASSUME NEW mem, NEW hkd, NEW hks, NEW ast, NEW thr, NEW S, Sound(mem, hkd, hks, ast, thr, S)
  PROVE  S = SettledOf(mem, hkd, thr)
  <1> DEFINE Other == SettledOf(mem, hkd, thr)
  <1> SUFFICES ASSUME NEW a \in Address PROVE S[a] = Other[a]
    <2>1. S = [a \in Address |-> S[a]] /\ Other = [a \in Address |-> Other[a]]
      BY DEF Sound, SettledOf
    <2> HIDE DEF Other
    <2>2. S = Other
      BY <2>1
    <2> QED BY <2>2 DEF Other
  <1>1. CASE \E f \in Function \ hkd : a \in Trampoline(f)
    BY <1>1 DEF Sound, SettledOf
  <1>2. CASE (\A f \in Function \ hkd : a \notin Trampoline(f)) /\ mem[a] # Torn
    BY <1>2 DEF Sound, SettledOf
  <1>3. CASE (\A f \in Function \ hkd : a \notin Trampoline(f)) /\ mem[a] = Torn
    <2> DEFINE Tears(t) == t \in Thread /\ thr[t].at = "jump" /\ thr[t].a = a
               tearing == CHOOSE t \in Thread : thr[t].at = "jump" /\ thr[t].a = a
    <2>1. Tears(tearing)
      BY <1>3 DEF Sound
    <2>2. Other[a] = thr[tearing].was
      BY <1>3 DEF SettledOf
    <2> HIDE DEF tearing, Other
    <2>3. Stored(thr[tearing], mem, S)
      BY <2>1 DEF Sound
    <2>4. thr[tearing].was = S[a]
      BY <2>1, <2>3 DEF Stored, Placing
    <2> QED BY <2>2, <2>4
  <1> QED BY <1>1, <1>2, <1>3

-----------------------------------------------------------------------------
(* The steps of PlaceHook, and those of others, keep it.                   *)

\* Two threads never place a hook at one function.
LEMMA AtWorkApart ==
  ASSUME NEW mem, NEW hkd, NEW hks, NEW ast, NEW thr, NEW S, Sound(mem, hkd, hks, ast, thr, S),
         NEW t \in Thread, thr[t].at \in Placing
  PROVE  /\ thr[t].f \in Function /\ thr[t].f \notin hkd
         /\ \A u \in Thread : u # t /\ thr[u].at \in Placing => thr[u].f # thr[t].f
  <1>1. \A u \in Thread : AtWork(u, thr[u], hkd)
    BY DEF Sound
  <1> QED BY <1>1 DEF AtWork, WorksOn, Thread, Function

\* A thread still works at the end of its function's jumps, where it looked.
LEMMA PlacedWhere ==
  ASSUME NEW mem, NEW hkd, NEW hks, NEW ast, NEW thr, NEW S, Sound(mem, hkd, hks, ast, thr, S),
         NEW t \in Thread, thr[t].at \in Placing \ {"follow"}
  PROVE  /\ thr[t].a = AddressToHook(S, thr[t].f)
         /\ thr[t].a \in RegionOf(hkd, hks, thr[t].f)
         /\ thr[t].a \in Address
         /\ S[thr[t].a].jump \notin Followed
  <1> DEFINE f == thr[t].f
             R == RegionOf(hkd, hks, f)
             who == InterestedOf(hkd, hks, f)
             end == EndOf(ast, f)
  <1>1. f \in Function /\ thr[t].a = AddressToHook(S, f)
    <2>1. Stored(thr[t], mem, S)
      BY DEF Sound
    <2>2. f \in Function
      BY AtWorkApart
    <2> QED BY <2>1, <2>2 DEF Stored
  <1>2. GoesOn(S)
    BY DEF Sound, GoesOn, Block
  <1>3. R \in SUBSET Address /\ Chained(S, R, f, who, end) /\ end \in Ends
    BY <1>1, RegionsApart DEF Sound, AllChained, EndOf, Ends
  <1>4. Followed \in SUBSET Jumps
    BY DEF Followed, Jumps, Recognised
  <1> HIDE DEF f, R, who, end
  <1>5. AddressToHook(S, f) \in R /\ S[AddressToHook(S, f)].jump \notin Followed
    BY <1>1, <1>2, <1>3, <1>4, EndInRegion DEF AddressToHook
  <1> QED BY <1>1, <1>3, <1>5 DEF f, R

\* No block of a function is torn but while the jump is written that hooks it.
LEMMA RegionWhole ==
  ASSUME NEW mem, NEW hkd, NEW hks, NEW ast, NEW thr, NEW S, Sound(mem, hkd, hks, ast, thr, S),
         NEW f \in Function, \A t \in Thread : thr[t].at = "jump" => thr[t].f # f
  PROVE  \A a \in RegionOf(hkd, hks, f) : mem[a] # Torn /\ mem[a] = S[a]
  <1> SUFFICES ASSUME NEW a \in RegionOf(hkd, hks, f)
               PROVE  mem[a] # Torn /\ mem[a] = S[a]
    OBVIOUS
  <1>1. a \in Address /\ \A g \in Function \ hkd : a \notin Trampoline(g)
    BY RegionsApart
  <1>2. mem[a] # Torn
    <2> SUFFICES ASSUME mem[a] = Torn PROVE FALSE
      OBVIOUS
    <2>1. PICK t \in Thread : thr[t].at = "jump" /\ thr[t].a = a
      BY <1>1 DEF Sound
    <2>2. thr[t].at \in Placing \ {"follow"} /\ thr[t].f # f
      BY <2>1 DEF Placing
    <2>3. a \in RegionOf(hkd, hks, thr[t].f)
      BY <2>1, <2>2, PlacedWhere
    <2>4. thr[t].f \in Function
      BY <2>2, AtWorkApart
    <2> QED BY <2>2, <2>3, <2>4, RegionsApart
  <1> QED BY <1>1, <1>2 DEF Sound

\* A store into a trampoline changes nothing that is settled.
LEMMA StoreSound ==
  ASSUME NEW mem, NEW hkd, NEW hks, NEW ast, NEW thr, NEW S, Sound(mem, hkd, hks, ast, thr, S),
         NEW t \in Thread, thr[t].at \in {"copy", "detour", "back", "return"},
         NEW c \in States, c.at \in {"detour", "back", "return", "tear"},
         c.f = thr[t].f, c.a = thr[t].a,
         NEW a \in Trampoline(thr[t].f), NEW b \in Block,
         Stored(c, [mem EXCEPT ![a] = b], S)
  PROVE  Sound([mem EXCEPT ![a] = b], hkd, hks, ast,
               [thr EXCEPT ![t] = c], S)
  <1> DEFINE f == thr[t].f
             mem2 == [mem EXCEPT ![a] = b]
             thr2 == [thr EXCEPT ![t] = c]
  <1>1. /\ f \in Function /\ f \notin hkd
        /\ \A u \in Thread : u # t /\ thr[u].at \in Placing => thr[u].f # f
    <2>1. thr[t].at \in Placing
      BY DEF Placing
    <2> QED BY <2>1, AtWorkApart
  <1>2. /\ mem \in [Address -> Block \cup {Torn}] /\ thr \in [Thread -> States]
        /\ a \in Address
    BY <1>1, AddressesDiffer DEF Sound, Types
  <1>3. mem2[a] = b /\ \A d \in Address : d # a => mem2[d] = mem[d]
    BY <1>2
  <1>4. /\ thr2[t] = c /\ c.f = f /\ c.a = thr[t].a
        /\ \A u \in Thread : u # t => thr2[u] = thr[u]
    BY <1>2 DEF States
  <1>5. Types(mem2, hkd, hks, thr2)
    <2>1. mem2 \in [Address -> Block \cup {Torn}]
      BY <1>2
    <2>2. thr2 \in [Thread -> States]
      BY <1>2
    <2> QED BY <2>1, <2>2 DEF Sound, Types
  <1> HIDE DEF mem2, thr2
  <1>6. b # Torn
    BY DEF Block, Torn, Jumps, Recognised
  <1>7. \A d \in Address : mem2[d] = Torn => \E u \in Thread : thr2[u].at = "jump" /\ thr2[u].a = d
    <2> SUFFICES ASSUME NEW d \in Address, mem2[d] = Torn
                 PROVE  \E u \in Thread : thr2[u].at = "jump" /\ thr2[u].a = d
      OBVIOUS
    <2>1. mem[d] = Torn
      BY <1>3, <1>6
    <2>2. PICK u \in Thread : thr[u].at = "jump" /\ thr[u].a = d
      BY <2>1 DEF Sound
    <2>3. u # t
      BY <2>2
    <2> QED BY <2>2, <2>3, <1>4
  <1>8. ASSUME NEW u \in Thread
        PROVE  AtWork(u, thr2[u], hkd) /\ Stored(thr2[u], mem2, S)
    <2>1. AtWork(u, thr[u], hkd) /\ Stored(thr[u], mem, S)
      BY DEF Sound
    <2>2. CASE u = t
      <3>1. Stored(thr2[u], mem2, S)
        BY <2>2, <1>4 DEF mem2
      <3>2. AtWork(u, thr2[u], hkd)
        BY <2>1, <2>2, <1>4 DEF AtWork, Placing
      <3> QED BY <3>1, <3>2
    <2>3. CASE u # t /\ thr[u].at \notin Placing \ {"follow"}
      <3>1. Stored(thr[u], mem2, S)
        BY <2>3 DEF Stored, Placing
      <3> QED BY <2>1, <2>3, <3>1, <1>4
    <2>4. CASE u # t /\ thr[u].at \in Placing \ {"follow"}
      <3>1. thr[u].f \in Function /\ thr[u].f \notin hkd /\ thr[u].f # f
        BY <2>4, <1>1, AtWorkApart
      <3>2. a \notin Trampoline(thr[u].f) /\ Trampoline(thr[u].f) \subseteq Address
        BY <1>1, <3>1, AddressesDiffer
      <3>3. thr[u].a # a /\ thr[u].a \in Address
        <4>1. thr[u].a \in RegionOf(hkd, hks, thr[u].f) /\ thr[u].a \in Address
          BY <2>4, PlacedWhere
        <4>2. RegionOf(hkd, hks, thr[u].f) \cap Trampoline(f) = {}
          BY <1>1, <3>1, RegionsApart
        <4> QED BY <4>1, <4>2
      <3>4. /\ mem2[thr[u].a] = mem[thr[u].a]
            /\ mem2[Copy(thr[u].f)] = mem[Copy(thr[u].f)]
            /\ mem2[Detour(thr[u].f)] = mem[Detour(thr[u].f)]
            /\ mem2[Protection(thr[u].f)] = mem[Protection(thr[u].f)]
        BY <1>3, <3>2, <3>3 DEF Trampoline
      <3>5. Stored(thr[u], mem2, S)
        BY <2>1, <3>4 DEF Stored
      <3> QED BY <2>1, <2>4, <3>5, <1>4
    <2> QED BY <2>2, <2>3, <2>4
  <1>9. \A d \in Address : (\A g \in Function \ hkd : d \notin Trampoline(g)) /\ mem2[d] # Torn
                             => S[d] = mem2[d]
    BY <1>1, <1>3 DEF Sound
  <1>10. Sound(mem2, hkd, hks, ast, thr2, S)
    BY <1>5, <1>7, <1>8, <1>9 DEF Sound
  <1> QED BY <1>10 DEF mem2, thr2

Agree(mem, mem2, A) == \A a \in A : mem2[a] = mem[a]

\* What a thread has built stays while others change other regions.
LEMMA StoredElsewhere ==
  ASSUME NEW mem, NEW hkd, NEW hks, NEW ast, NEW thr, NEW S, Sound(mem, hkd, hks, ast, thr, S),
         NEW u \in Thread, NEW mem2, NEW S2 \in [Address -> Block],
         Agree(S, S2, RegionOf(hkd, hks, thr[u].f)),
         Agree(mem, mem2, RegionOf(hkd, hks, thr[u].f)),
         Agree(mem, mem2, Trampoline(thr[u].f))
  PROVE  Stored(thr[u], mem2, S2)
  <1>1. Stored(thr[u], mem, S)
    BY DEF Sound
  <1>2. CASE thr[u].at \notin Placing \ {"follow"}
    BY <1>2 DEF Stored, Placing
  <1>3. CASE thr[u].at \in Placing \ {"follow"}
    <2> DEFINE f == thr[u].f
               a == thr[u].a
    <2>1. f \in Function
      BY <1>3, AtWorkApart
    <2>2. a = AddressToHook(S, f) /\ a \in RegionOf(hkd, hks, f)
      BY <1>3, PlacedWhere
    <2>3. GoesOn(S) /\ GoesOn(S2) /\ AllChained(S, hkd, hks, ast)
      BY DEF Sound, GoesOn, Block
    <2> HIDE DEF f, a
    <2>4. \A d \in RegionOf(hkd, hks, f) : S2[d] = S[d] /\ mem2[d] = mem[d]
      BY DEF f, Agree
    <2>5. AddressToHook(S2, f) = AddressToHook(S, f)
      BY <2>1, <2>3, <2>4, SameAddressToHook
    <2>6. /\ mem2[Copy(f)] = mem[Copy(f)]
          /\ mem2[Detour(f)] = mem[Detour(f)]
          /\ mem2[Protection(f)] = mem[Protection(f)]
      BY DEF f, Trampoline, Agree
    <2>7. S2[a] = S[a] /\ mem2[a] = mem[a]
      BY <2>2, <2>4
    <2> QED BY <1>1, <2>2, <2>5, <2>6, <2>7 DEF Stored, f, a
  <1> QED BY <1>2, <1>3

\* A thread goes on elsewhere.
LEMMA GoesSound ==
  ASSUME NEW mem, NEW hkd, NEW hks, NEW ast, NEW thr, NEW S, Sound(mem, hkd, hks, ast, thr, S),
         NEW t \in Thread, thr[t].at # "jump",
         NEW c \in States, c.at # "jump", AtWork(t, c, hkd), Stored(c, mem, S)
  PROVE  Sound(mem, hkd, hks, ast, [thr EXCEPT ![t] = c], S)
  <1> DEFINE thr2 == [thr EXCEPT ![t] = c]
  <1>1. thr \in [Thread -> States]
    BY DEF Sound, Types
  <1>2. thr2 \in [Thread -> States] /\ thr2[t] = c /\ \A u \in Thread : u # t => thr2[u] = thr[u]
    BY <1>1
  <1> HIDE DEF thr2
  <1>3. \A u \in Thread : AtWork(u, thr2[u], hkd) /\ Stored(thr2[u], mem, S)
    BY <1>2 DEF Sound
  <1>4. \A u \in Thread : thr[u].at = "jump" => thr2[u] = thr[u]
    BY <1>2
  <1>5. \A d \in Address : mem[d] = Torn => \E u \in Thread : thr2[u].at = "jump" /\ thr2[u].a = d
    <2> SUFFICES ASSUME NEW d \in Address, mem[d] = Torn
                 PROVE  \E u \in Thread : thr2[u].at = "jump" /\ thr2[u].a = d
      OBVIOUS
    <2>1. PICK u \in Thread : thr[u].at = "jump" /\ thr[u].a = d
      BY DEF Sound
    <2> QED BY <2>1, <1>4
  <1>6. Sound(mem, hkd, hks, ast, thr2, S)
    BY <1>2, <1>3, <1>5 DEF Sound, Types
  <1> QED BY <1>6 DEF thr2

LEMMA UnusedIsBlock == Unused \in Block
  BY DEF Unused, Runs, Block

\* A thread that follows the jumps may be on the way at once.
LEMMA FollowSound ==
  ASSUME NEW mem, NEW hkd, NEW hks, NEW ast, NEW thr, NEW S, Sound(mem, hkd, hks, ast, thr, S),
         NEW t \in Thread, thr[t].at = "follow"
  PROVE  Sound(mem, hkd, hks, ast,
               [thr EXCEPT ![t] = At("copy", thr[t].f, AddressToHook(mem, thr[t].f))], S)
  <1> DEFINE f == thr[t].f
             a == AddressToHook(mem, f)
             c == At("copy", f, a)
             R == RegionOf(hkd, hks, f)
             who == InterestedOf(hkd, hks, f)
             end == EndOf(ast, f)
  <1>1. thr[t].at \in Placing
    BY DEF Placing
  <1>2. /\ f \in Function /\ f \notin hkd
        /\ \A u \in Thread : u # t /\ thr[u].at \in Placing => thr[u].f # f
    BY <1>1, AtWorkApart
  <1>3. \A u \in Thread : thr[u].at = "jump" => thr[u].f # f
    <2>1. \A u \in Thread : thr[u].at = "jump" => thr[u].at \in Placing /\ u # t
      BY DEF Placing
    <2> QED BY <2>1, <1>2
  <1>4. \A d \in R : mem[d] = S[d]
    BY <1>2, <1>3, RegionWhole
  <1>5. GoesOn(mem) /\ GoesOn(S) /\ AllChained(S, hkd, hks, ast)
    BY DEF Sound, Types, GoesOn, Block, Torn
  <1>6. R \in SUBSET Address /\ Chained(S, R, f, who, end) /\ end \in Ends
    BY <1>2, RegionsApart DEF Sound, AllChained, EndOf, Ends
  <1>7. a = AddressToHook(S, f)
    BY <1>2, <1>4, <1>5, SameAddressToHook
  <1>8. AddressToHook(S, f) \in R
    <2>1. Followed \in SUBSET Jumps
      BY DEF Followed, Jumps, Recognised
    <2> HIDE DEF f, R, who, end
    <2> QED BY <2>1, <1>2, <1>5, <1>6, EndInRegion DEF AddressToHook
  <1>9. c \in States
    <2>1. a \in Address
      BY <1>6, <1>7, <1>8
    <2> HIDE DEF a, f
    <2>2. Unused \in Block
      BY UnusedIsBlock
    <2> HIDE DEF Unused
    <2> QED BY <1>2, <2>1, <2>2 DEF States, At, Placing
  <1>10. AtWork(t, c, hkd)
    <2>1. AtWork(t, thr[t], hkd)
      BY DEF Sound
    <2> HIDE DEF a
    <2> QED BY <2>1 DEF AtWork, At, Placing
  <1>11. Stored(c, mem, S)
    <2> HIDE DEF a, f
    <2> QED BY <1>7 DEF Stored, At
  <1>12. c.at # "jump"
    BY DEF At
  <1> HIDE DEF c
  <1>13. Sound(mem, hkd, hks, ast, [thr EXCEPT ![t] = c], S)
    BY <1>9, <1>10, <1>11, <1>12, GoesSound
  <1> QED BY <1>13 DEF c
\* The blocks that hooks are made of are blocks; a torn one is none.
LEMMA BlocksAre ==
  /\ \A f \in Function : /\ Runs(Nothing, Detour(f)) \in Block /\ Runs(Mod, Copy(f)) \in Block
                         /\ Jump("relative", Protection(f)) \in Block
  /\ \A p \in Parties, kind \in Jumps : Runs(p, Copy(p)) \in Block /\ Jump(kind, Entry(p)) \in Block
  /\ \A b \in Block : Moved(b) \in Block
  /\ \A b \in Block, a \in Address : Displaced(b, a) \in Block
  /\ Torn \notin Block
  <1>1. \A f \in Function : {Detour(f), Copy(f), Protection(f)} \subseteq Address
    BY AddressesDiffer DEF Trampoline
  <1>2. \A p \in Parties : Entry(p) \in Address /\ Copy(p) \in Address
    BY Names, AddressesDiffer DEF Allocated
  <1>3. \A a \in Address, kind \in Jumps : Behind(a, kind) \in Address
    BY DEF Behind, Address
  <1>4. \A b \in Block : Moved(b) \in Block
    BY DEF Moved, Block
  <1>5. ASSUME NEW b \in Block, NEW a \in Address PROVE Displaced(b, a) \in Block
    <2>1. Behind(a, "relative") \in Address
      BY <1>3 DEF Jumps, Recognised
    <2>2. Moved(b) \in Block
      BY <1>4
    <2> HIDE DEF Moved
    <2> QED BY <2>1, <2>2 DEF Displaced, Returning, Block
  <1>7. Torn \notin Block
    BY DEF Block, Torn, Jumps, Recognised
  <1>8. "relative" \in Jumps
    BY DEF Jumps, Recognised
  <1>9. \A f \in Function : /\ Runs(Nothing, Detour(f)) \in Block /\ Runs(Mod, Copy(f)) \in Block
                            /\ Jump("relative", Protection(f)) \in Block
    BY <1>1, <1>8 DEF Block, Runs, Jump
  <1>10. \A p \in Parties, kind \in Jumps : Runs(p, Copy(p)) \in Block /\ Jump(kind, Entry(p)) \in Block
    BY <1>2 DEF Block, Runs, Jump
  <1> QED BY <1>4, <1>5, <1>7, <1>9, <1>10

\* Tearing the entry changes nothing that is settled: what was there is known.
LEMMA TearSound ==
  ASSUME NEW mem, NEW hkd, NEW hks, NEW ast, NEW thr, NEW S, Sound(mem, hkd, hks, ast, thr, S),
         NEW t \in Thread, thr[t].at = "tear"
  PROVE  Sound([mem EXCEPT ![thr[t].a] = Torn], hkd, hks, ast,
               [thr EXCEPT ![t] = [thr[t] EXCEPT !.at = "jump"]], S)
  <1> DEFINE f == thr[t].f
             a == thr[t].a
             c2 == [thr[t] EXCEPT !.at = "jump"]
             mem2 == [mem EXCEPT ![thr[t].a] = Torn]
             thr2 == [thr EXCEPT ![t] = [thr[t] EXCEPT !.at = "jump"]]
  <1>1. thr[t].at \in Placing /\ thr[t].at \in Placing \ {"follow"}
    BY DEF Placing
  <1>2. /\ f \in Function /\ f \notin hkd
        /\ \A u \in Thread : u # t /\ thr[u].at \in Placing => thr[u].f # f
    BY <1>1, AtWorkApart
  <1>3. a \in RegionOf(hkd, hks, f) /\ a \in Address /\ a = AddressToHook(S, f)
    BY <1>1, PlacedWhere
  <1>4. /\ mem \in [Address -> Block \cup {Torn}] /\ thr \in [Thread -> States]
        /\ S \in [Address -> Block]
    BY DEF Sound, Types
  <1>5. mem2[a] = Torn /\ \A d \in Address : d # a => mem2[d] = mem[d]
    BY <1>3, <1>4
  <1>6. /\ thr2[t] = c2 /\ c2.at = "jump" /\ c2.f = f /\ c2.a = a /\ c2.was = thr[t].was
        /\ \A u \in Thread : u # t => thr2[u] = thr[u]
    BY <1>4 DEF States
  <1>7. Types(mem2, hkd, hks, thr2)
    <2>1. mem2 \in [Address -> Block \cup {Torn}]
      BY <1>4
    <2>2. c2 \in States
      BY <1>4 DEF States, Placing
    <2>3. thr2 \in [Thread -> States]
      BY <1>4, <2>2
    <2> QED BY <2>1, <2>3 DEF Sound, Types
  <1> HIDE DEF mem2, thr2, c2, f, a
  <1>8. \A d \in Address : mem2[d] = Torn => \E u \in Thread : thr2[u].at = "jump" /\ thr2[u].a = d
    <2> SUFFICES ASSUME NEW d \in Address, mem2[d] = Torn
                 PROVE  \E u \in Thread : thr2[u].at = "jump" /\ thr2[u].a = d
      OBVIOUS
    <2>1. CASE d = a
      BY <2>1, <1>6
    <2>2. CASE d # a
      <3>1. mem[d] = Torn
        BY <2>2, <1>5
      <3>2. PICK u \in Thread : thr[u].at = "jump" /\ thr[u].a = d
        BY <3>1 DEF Sound
      <3>3. u # t
        BY <3>2
      <3> QED BY <3>2, <3>3, <1>6
    <2> QED BY <2>1, <2>2
  <1>9. a \notin Trampoline(f) /\ \A g \in Function : g \notin hkd => a \notin Trampoline(g)
    BY <1>2, <1>3, RegionsApart
  <1>10. ASSUME NEW u \in Thread
         PROVE  AtWork(u, thr2[u], hkd) /\ Stored(thr2[u], mem2, S)
    <2>1. AtWork(u, thr[u], hkd) /\ Stored(thr[u], mem, S)
      BY DEF Sound
    <2>2. CASE u = t
      <3>1. mem2[Protection(f)] = mem[Protection(f)] /\ mem2[Detour(f)] = mem[Detour(f)]
            /\ mem2[Copy(f)] = mem[Copy(f)]
        BY <1>2, <1>5, <1>9, AddressesDiffer DEF Trampoline
      <3>2. Stored(c2, mem2, S)
        BY <2>1, <2>2, <3>1, <1>1, <1>3, <1>5, <1>6 DEF Stored, Placing, f, a
      <3>3. AtWork(u, thr2[u], hkd)
        BY <2>1, <2>2, <1>6 DEF AtWork, Placing, f
      <3> QED BY <2>2, <3>2, <3>3, <1>6
    <2>3. CASE u # t /\ thr[u].at \notin Placing
      <3>1. Stored(thr[u], mem2, S)
        BY <2>3 DEF Stored, Placing
      <3> QED BY <2>1, <2>3, <3>1, <1>6
    <2>4. CASE u # t /\ thr[u].at \in Placing
      <3>1. thr[u].f \in Function /\ thr[u].f \notin hkd /\ thr[u].f # f
        BY <2>4, <1>2, AtWorkApart
      <3>2. a \notin RegionOf(hkd, hks, thr[u].f) /\ RegionOf(hkd, hks, thr[u].f) \subseteq Address
        BY <1>2, <1>3, <3>1, RegionsApart
      <3>3. a \notin Trampoline(thr[u].f) /\ Trampoline(thr[u].f) \subseteq Address
        BY <1>9, <3>1, AddressesDiffer
      <3>4. Agree(S, S, RegionOf(hkd, hks, thr[u].f)) /\ Agree(mem, mem2, RegionOf(hkd, hks, thr[u].f))
        BY <1>5, <3>2 DEF Agree
      <3>5. Agree(mem, mem2, Trampoline(thr[u].f))
        BY <1>5, <3>3 DEF Agree
      <3>6. Stored(thr[u], mem2, S)
        BY <1>4, <3>4, <3>5, StoredElsewhere
      <3> QED BY <2>1, <2>4, <3>6, <1>6
    <2> QED BY <2>2, <2>3, <2>4
  <1>11. \A d \in Address : (\A g \in Function \ hkd : d \notin Trampoline(g)) /\ mem2[d] # Torn
                              => S[d] = mem2[d]
    BY <1>5 DEF Sound
  <1>12. Sound(mem2, hkd, hks, ast, thr2, S)
    BY <1>7, <1>8, <1>10, <1>11 DEF Sound
  <1> QED BY <1>12 DEF mem2, thr2

\* Once the jump is whole, the trampoline counts, and the hook is placed.
LEMMA JumpSound ==
  ASSUME NEW mem, NEW hkd, NEW hks, NEW ast, NEW thr, NEW S, Sound(mem, hkd, hks, ast, thr, S),
         NEW t \in Thread, thr[t].at = "jump"
  PROVE  /\ Sound([mem EXCEPT ![thr[t].a] = Jump("relative", Protection(thr[t].f))],
                  hkd \cup {thr[t].f}, hks,
                  AstrayHook(ast, thr[t].f, thr[t].was),
                  [thr EXCEPT ![t] = AfterHook(thr[t].f)],
                  WithHook(S, thr[t].f, AddressToHook(S, thr[t].f)))
         /\ thr[t].f \in Function /\ thr[t].f \notin hkd
         /\ thr[t].was = S[AddressToHook(S, thr[t].f)]
  <1> DEFINE f == thr[t].f
             a == thr[t].a
             j == Jump("relative", Protection(f))
             hkd2 == hkd \cup {f}
             ast2 == AstrayHook(ast, thr[t].f, thr[t].was)
             mem2 == [mem EXCEPT ![thr[t].a] = Jump("relative", Protection(thr[t].f))]
             thr2 == [thr EXCEPT ![t] = AfterHook(thr[t].f)]
             S2 == WithHook(S, f, a)
  <1>1. thr[t].at \in Placing /\ thr[t].at \in Placing \ {"follow"}
    BY DEF Placing
  <1>2. /\ f \in Function /\ f \notin hkd
        /\ \A u \in Thread : u # t /\ thr[u].at \in Placing => thr[u].f # f
    BY <1>1, AtWorkApart
  <1>3. /\ a \in RegionOf(hkd, hks, f) /\ a \in Address /\ a = AddressToHook(S, f)
        /\ S[a].jump \notin Followed
    BY <1>1, PlacedWhere
  <1>4. /\ mem \in [Address -> Block \cup {Torn}] /\ thr \in [Thread -> States]
        /\ S \in [Address -> Block] /\ AllChained(S, hkd, hks, ast)
    BY DEF Sound, Types
  <1>5. /\ mem[Protection(f)] = Runs(Nothing, Detour(f))
        /\ mem[Detour(f)] = Runs(Mod, Copy(f))
        /\ mem[Copy(f)] = Displaced(S[a], a)
        /\ thr[t].was = S[a]
    <2>1. Stored(thr[t], mem, S)
      BY DEF Sound
    <2> QED BY <2>1 DEF Stored, Placing
  <1>6. mem2[a] = j /\ \A d \in Address : d # a => mem2[d] = mem[d]
    BY <1>3, <1>4
  <1>7. AfterHook(f) \in States /\ AfterHook(f).at \in {"follow", "rest"}
    BY UnusedIsBlock DEF AfterHook, States, At, AtRest, Placing, Function
  <1>8. thr2[t] = AfterHook(f) /\ \A u \in Thread : u # t => thr2[u] = thr[u]
    BY <1>4
  <1>9. a \notin Trampoline(f) /\ \A g \in Function : g \notin hkd => a \notin Trampoline(g)
    BY <1>2, <1>3, RegionsApart
  <1>10. Protection(f) # Detour(f) /\ Protection(f) # Copy(f) /\ Detour(f) # Copy(f)
         /\ Trampoline(f) \subseteq Address
    BY <1>2, AddressesDiffer
  <1>11. /\ S2[Protection(f)] = mem[Protection(f)] /\ S2[Detour(f)] = mem[Detour(f)]
         /\ S2[Copy(f)] = mem[Copy(f)] /\ S2[a] = j
         /\ \A d \in Address : d # a /\ d \notin Trampoline(f) => S2[d] = S[d]
    <2> HIDE DEF a, f, mem2, thr2, hkd2
    <2> QED BY <1>2, <1>3, <1>4, <1>5, <1>9, WithHookIs
  <1>12. S2 \in [Address -> Block]
    <2>1. /\ Displaced(S[a], a) \in Block /\ Runs(Nothing, Detour(f)) \in Block
          /\ Runs(Mod, Copy(f)) \in Block /\ Jump("relative", Protection(f)) \in Block
      BY <1>2, <1>3, <1>4, BlocksAre
    <2> HIDE DEF a, f, mem2, thr2, hkd2
    <2> QED BY <2>1, <1>4 DEF WithHook
  <1>13. AllChained(S2, hkd2, hks, ast2)
    <2>1. AllChained(S2, hkd2, hks, AstrayHook(ast, f, S[a]))
      BY <1>2, <1>3, <1>4, ChainedAfterHook
    <2> QED BY <2>1, <1>5
  <1>14. Types(mem2, hkd2, hks, thr2)
    <2>1. mem2 \in [Address -> Block \cup {Torn}]
      BY <1>2, <1>4, BlocksAre
    <2>2. thr2 \in [Thread -> States]
      BY <1>4, <1>7
    <2> HIDE DEF mem2, thr2
    <2> QED BY <2>1, <2>2, <1>2 DEF Sound, Types
  <1> HIDE DEF mem2, thr2, f, a, S2, ast2
  <1>15. j # Torn
    BY <1>2, BlocksAre
  <1>16. \A d \in Address : mem2[d] = Torn => \E u \in Thread : thr2[u].at = "jump" /\ thr2[u].a = d
    <2> SUFFICES ASSUME NEW d \in Address, mem2[d] = Torn
                 PROVE  \E u \in Thread : thr2[u].at = "jump" /\ thr2[u].a = d
      OBVIOUS
    <2>1. d # a /\ mem[d] = Torn
      BY <1>6, <1>15
    <2>2. PICK u \in Thread : thr[u].at = "jump" /\ thr[u].a = d
      BY <2>1 DEF Sound
    <2>3. u # t
      BY <2>1, <2>2 DEF a
    <2> QED BY <2>2, <2>3, <1>8
  <1>17. \A g \in Function \ hkd2 : \A d \in Trampoline(g) : S2[d] = Unused
    <2> SUFFICES ASSUME NEW g \in Function, g \notin hkd2, NEW d \in Trampoline(g)
                 PROVE  S2[d] = Unused
      OBVIOUS
    <2>1. g \notin hkd /\ g # f
      OBVIOUS
    <2>2. d \in Address /\ d # a /\ d \notin Trampoline(f)
      BY <2>1, <1>2, <1>9, AddressesDiffer
    <2>3. S[d] = Unused
      BY <2>1 DEF Sound
    <2> QED BY <2>2, <2>3, <1>11
  <1>18. \A d \in Address : (\A g \in Function \ hkd2 : d \notin Trampoline(g)) /\ mem2[d] # Torn
                              => S2[d] = mem2[d]
    <2> SUFFICES ASSUME NEW d \in Address, \A g \in Function \ hkd2 : d \notin Trampoline(g),
                        mem2[d] # Torn
                 PROVE  S2[d] = mem2[d]
      OBVIOUS
    <2>1. CASE d = a
      BY <2>1, <1>6, <1>11
    <2>2. CASE d \in Trampoline(f)
      <3>1. d # a
        BY <2>2, <1>9
      <3> QED BY <2>2, <3>1, <1>6, <1>11 DEF Trampoline
    <2>3. CASE d # a /\ d \notin Trampoline(f)
      <3>1. \A g \in Function \ hkd : d \notin Trampoline(g)
        BY <2>3
      <3>2. mem2[d] = mem[d] /\ S2[d] = S[d]
        BY <2>3, <1>6, <1>11
      <3> QED BY <3>1, <3>2 DEF Sound
    <2> QED BY <2>1, <2>2, <2>3
  <1>19. ASSUME NEW u \in Thread
         PROVE  AtWork(u, thr2[u], hkd2) /\ Stored(thr2[u], mem2, S2)
    <2>1. AtWork(u, thr[u], hkd) /\ AtWork(t, thr[t], hkd) /\ Stored(thr[u], mem, S)
      BY DEF Sound
    <2>2. CASE u = t
      <3>1. Stored(thr2[u], mem2, S2)
        BY <2>2, <1>7, <1>8 DEF Stored, Placing
      <3>2. AtWork(u, thr2[u], hkd2)
        BY <2>1, <2>2, <1>1, <1>2, <1>8
           DEF AtWork, WorksOn, AfterHook, At, AtRest, Placing, f, Thread
      <3> QED BY <3>1, <3>2
    <2>3. CASE u # t /\ thr[u].at \notin Placing
      <3>1. Stored(thr[u], mem2, S2)
        BY <2>3 DEF Stored, Placing
      <3>2. AtWork(u, thr[u], hkd2)
        BY <2>1, <2>3, <1>1 DEF AtWork, WorksOn, f, Thread
      <3> QED BY <2>3, <3>1, <3>2, <1>8
    <2>4. CASE u # t /\ thr[u].at \in Placing
      <3>1. thr[u].f \in Function /\ thr[u].f \notin hkd /\ thr[u].f # f
        BY <2>4, <1>2, AtWorkApart
      <3>2. a \notin RegionOf(hkd, hks, thr[u].f) /\ RegionOf(hkd, hks, thr[u].f) \subseteq Address
            /\ RegionOf(hkd, hks, thr[u].f) \cap Trampoline(f) = {}
        BY <1>2, <1>3, <3>1, RegionsApart
      <3>3. a \notin Trampoline(thr[u].f) /\ Trampoline(thr[u].f) \subseteq Address
        BY <1>9, <3>1, AddressesDiffer
      <3>4. Agree(S, S2, RegionOf(hkd, hks, thr[u].f)) /\ Agree(mem, mem2, RegionOf(hkd, hks, thr[u].f))
        BY <1>6, <1>11, <3>2 DEF Agree
      <3>5. Agree(mem, mem2, Trampoline(thr[u].f))
        BY <1>6, <3>3 DEF Agree
      <3>6. Stored(thr[u], mem2, S2)
        BY <1>12, <3>4, <3>5, StoredElsewhere
      <3>7. AtWork(u, thr[u], hkd2)
        BY <2>1, <2>4, <3>1, <1>1 DEF AtWork, WorksOn, f, Thread
      <3> QED BY <2>4, <3>6, <3>7, <1>8
    <2> QED BY <2>2, <2>3, <2>4
  <1>20. Sound(mem2, hkd2, hks, ast2, thr2, S2)
    BY <1>12, <1>13, <1>14, <1>16, <1>17, <1>18, <1>19 DEF Sound
  <1>21. S2 = WithHook(S, f, AddressToHook(S, f)) /\ thr[t].was = S[AddressToHook(S, f)]
    BY <1>3, <1>5 DEF S2
  <1> QED BY <1>2, <1>20, <1>21 DEF mem2, thr2, f, ast2

LEMMA TakenIsBlock ==
  ASSUME NEW mem, NEW a \in Address, NEW kind \in Jumps, NEW b \in Block, mem[a] = b
  PROVE  Taken(mem, a, kind) \in Block
  <1>1. Behind(a, kind) \in Address
    BY DEF Behind, Address
  <1>2. Runs(Nothing, Behind(a, kind)) \in Block
    BY <1>1 DEF Runs, Block
  <1> QED BY <1>2 DEF Taken

\* Another overlay's hook at a function nobody is at work on.
LEMMA PartySound ==
  ASSUME NEW mem, NEW hkd, NEW hks, NEW ast, NEW thr, NEW S, Sound(mem, hkd, hks, ast, thr, S),
         NEW f \in Function, \A t \in Thread : thr[t].f # f,
         NEW p \in Parties, hks[p] = NoFunction, NEW kind \in Jumps,
         NEW a \in HookPlaces(mem, f, Jumps)
  PROVE  /\ Sound(WithParty(mem, p, kind, a), hkd, [hks EXCEPT ![p] = f],
                  AstrayParty(ast, f, Overrun(a, kind), Passed(mem, f)),
                  thr, WithParty(S, p, kind, a))
         /\ HookPlaces(S, f, Jumps) = HookPlaces(mem, f, Jumps)
         /\ Passed(S, f) = Passed(mem, f)
  <1> DEFINE R == RegionOf(hkd, hks, f)
             mem2 == WithParty(mem, p, kind, a)
             S2 == WithParty(S, p, kind, a)
             hks2 == [hks EXCEPT ![p] = f]
             Gone == Overrun(a, kind)
             ast2 == AstrayParty(ast, f, Gone, Passed(mem, f))
             Changed == Allocated(p) \cup {a} \cup Gone
  <1>1. /\ mem \in [Address -> Block \cup {Torn}] /\ thr \in [Thread -> States]
        /\ S \in [Address -> Block] /\ AllChained(S, hkd, hks, ast)
        /\ hks \in [Parties -> Function \cup {NoFunction}] /\ hkd \subseteq Function
    BY DEF Sound, Types
  <1>2. \A d \in R : mem[d] # Torn /\ mem[d] = S[d]
    <2>1. \A t \in Thread : thr[t].at = "jump" => thr[t].f # f
      OBVIOUS
    <2> QED BY <2>1, RegionWhole
  <1>3. GoesOn(mem) /\ GoesOn(S)
    BY <1>1 DEF GoesOn, Block, Torn
  <1>4. HookPlaces(S, f, Jumps) = HookPlaces(mem, f, Jumps) /\ Passed(S, f) = Passed(mem, f)
    <2>1. \A d \in RegionOf(hkd, hks, f) : mem[d] = S[d]
      BY <1>2
    <2>2. AllChained(S, hkd, hks, ast)
      BY <1>1
    <2> QED BY ONLY f \in Function, <1>3, <2>1, <2>2, SameAddressToHook
  <1>5. a \in R /\ a \in Heads /\ R \in SUBSET Address
    BY <1>1, <1>3, <1>4, HookPlaceInRegion
  <1>6. Gone \subseteq R /\ a \in Address /\ mem[a] = S[a] /\ mem[a] # Torn
    BY <1>2, <1>5, OverrunWithin
  <1>7. /\ Allocated(p) \subseteq Address
        /\ \A g \in Function : Allocated(p) \cap Trampoline(g) = {}
        /\ \A g \in Function : Allocated(p) \cap RegionOf(hkd, hks, g) = {}
    <2>1. NoFunction \notin Function
      BY DEF NoFunction, Function
    <2> QED BY <2>1, AddressesDiffer, RegionsApart
  <1>8. /\ \A g \in Function : g \notin hkd => Changed \cap Trampoline(g) = {}
        /\ \A g \in Function : g # f => Changed \cap RegionOf(hkd, hks, g) = {}
    <2>1. \A g \in Function : g \notin hkd => R \cap Trampoline(g) = {}
      BY RegionsApart
    <2>2. \A g \in Function : g # f => R \cap RegionOf(hkd, hks, g) = {}
      BY RegionsApart
    <2> HIDE DEF R, Gone
    <2> QED BY <1>5, <1>6, <1>7, <2>1, <2>2
  <1>9. a \notin Allocated(p)
    BY <1>5, <1>7
  <1>10. /\ \A b \in Code(p) : mem2[b] = Runs(p, Copy(p)) /\ S2[b] = Runs(p, Copy(p))
         /\ mem2[Copy(p)] = Taken(mem, a, kind) /\ S2[Copy(p)] = Taken(S, a, kind)
         /\ mem2[a] = Jump(kind, Entry(p)) /\ S2[a] = Jump(kind, Entry(p))
         /\ \A b \in Gone : b \in Address => mem2[b] = Unused /\ S2[b] = Unused
         /\ \A b \in Address : b \notin Changed => mem2[b] = mem[b] /\ S2[b] = S[b]
    <2>1. /\ \A b \in Code(p) : mem2[b] = Runs(p, Copy(p))
          /\ mem2[Copy(p)] = Taken(mem, a, kind)
          /\ mem2[a] = Jump(kind, Entry(p))
          /\ \A b \in Gone : b \in Address => mem2[b] = Unused
          /\ \A b \in Address : b \notin Changed => mem2[b] = mem[b]
      BY <1>6, <1>9, WithPartyIs
    <2>2. /\ \A b \in Code(p) : S2[b] = Runs(p, Copy(p))
          /\ S2[Copy(p)] = Taken(S, a, kind)
          /\ S2[a] = Jump(kind, Entry(p))
          /\ \A b \in Gone : b \in Address => S2[b] = Unused
          /\ \A b \in Address : b \notin Changed => S2[b] = S[b]
      BY <1>6, <1>9, WithPartyIs
    <2> HIDE DEF mem2, S2, Changed, Gone
    <2> QED BY <2>1, <2>2
  <1>11. Taken(mem, a, kind) = Taken(S, a, kind) /\ Taken(S, a, kind) \in Block
    <2>1. Taken(mem, a, kind) = Taken(S, a, kind)
      BY <1>6 DEF Taken
    <2> HIDE DEF mem2, S2, R, Changed, Gone
    <2>2. S[a] \in Block
      BY <1>1, <1>6
    <2> QED BY <1>6, <2>1, <2>2, TakenIsBlock
  <1>12. \A d \in Address : d \in Changed => mem2[d] = S2[d] /\ S2[d] \in Block
    <2>1. Runs(p, Copy(p)) \in Block /\ Jump(kind, Entry(p)) \in Block /\ Unused \in Block
      BY BlocksAre, UnusedIsBlock
    <2> HIDE DEF mem2, S2, Gone
    <2> QED BY <1>10, <1>11, <2>1 DEF Allocated
  <1>13. S2 \in [Address -> Block] /\ mem2 \in [Address -> Block \cup {Torn}]
    <2>1. S2 = [d \in Address |-> S2[d]] /\ mem2 = [d \in Address |-> mem2[d]]
      BY DEF WithParty
    <2>2. \A d \in Address : S2[d] \in Block /\ mem2[d] \in Block \cup {Torn}
      BY <1>1, <1>10, <1>12
    <2> HIDE DEF mem2, S2
    <2> QED BY <2>1, <2>2
  <1>14. AllChained(S2, hkd, hks2, ast2)
    <2>1. a \in HookPlaces(S, f, Jumps)
      BY <1>4
    <2>2. AllChained(S2, hkd, hks2, AstrayParty(ast, f, Overrun(a, kind), Passed(S, f)))
      BY <1>1, <2>1, ChainedAfterParty
    <2> QED BY <1>4, <2>2
  <1>15. Types(mem2, hkd, hks2, thr)
    BY <1>1, <1>13 DEF Types
  <1> HIDE DEF mem2, S2, hks2, ast2, R, Changed, Gone
  <1>16. \A d \in Address : mem2[d] = Torn => \E u \in Thread : thr[u].at = "jump" /\ thr[u].a = d
    <2> SUFFICES ASSUME NEW d \in Address, mem2[d] = Torn
                 PROVE  \E u \in Thread : thr[u].at = "jump" /\ thr[u].a = d
      OBVIOUS
    <2>1. mem[d] = Torn
      BY <1>10, <1>12, BlocksAre
    <2> QED BY <2>1 DEF Sound
  <1>17. \A g \in Function \ hkd : \A d \in Trampoline(g) : S2[d] = Unused
    <2> SUFFICES ASSUME NEW g \in Function, g \notin hkd, NEW d \in Trampoline(g)
                 PROVE  S2[d] = Unused
      OBVIOUS
    <2>1. d \in Address /\ d \notin Changed
      BY <1>8, AddressesDiffer
    <2> QED BY <2>1, <1>10 DEF Sound
  <1>18. \A d \in Address : (\A g \in Function \ hkd : d \notin Trampoline(g)) /\ mem2[d] # Torn
                              => S2[d] = mem2[d]
    <2> SUFFICES ASSUME NEW d \in Address, \A g \in Function \ hkd : d \notin Trampoline(g),
                        mem2[d] # Torn
                 PROVE  S2[d] = mem2[d]
      OBVIOUS
    <2>1. CASE d \in Changed
      BY <2>1, <1>12
    <2>2. CASE d \notin Changed
      <3>1. mem2[d] = mem[d] /\ S2[d] = S[d]
        BY <2>2, <1>10
      <3> QED BY <3>1 DEF Sound
    <2> QED BY <2>1, <2>2
  <1>19. ASSUME NEW u \in Thread
         PROVE  AtWork(u, thr[u], hkd) /\ Stored(thr[u], mem2, S2)
    <2>1. AtWork(u, thr[u], hkd) /\ Stored(thr[u], mem, S)
      BY DEF Sound
    <2>2. CASE thr[u].at \notin Placing
      BY <2>1, <2>2 DEF Stored, Placing
    <2>3. CASE thr[u].at \in Placing
      <3>1. thr[u].f \in Function /\ thr[u].f \notin hkd /\ thr[u].f # f
        BY <2>3, AtWorkApart
      <3>2. RegionOf(hkd, hks, thr[u].f) \subseteq Address
        BY <3>1, RegionsApart
      <3>3. Trampoline(thr[u].f) \subseteq Address
        BY <3>1, AddressesDiffer
      <3>4. Agree(S, S2, RegionOf(hkd, hks, thr[u].f)) /\ Agree(mem, mem2, RegionOf(hkd, hks, thr[u].f))
        BY <1>8, <1>10, <3>1, <3>2 DEF Agree
      <3>5. Agree(mem, mem2, Trampoline(thr[u].f))
        BY <1>8, <1>10, <3>1, <3>3 DEF Agree
      <3>6. Stored(thr[u], mem2, S2)
        BY <1>13, <3>4, <3>5, StoredElsewhere
      <3> QED BY <2>1, <3>6
    <2> QED BY <2>2, <2>3
  <1>20. Sound(mem2, hkd, hks2, ast2, thr, S2)
    BY <1>13, <1>14, <1>15, <1>16, <1>17, <1>18, <1>19 DEF Sound
  <1> QED BY <1>4, <1>20 DEF mem2, S2, hks2, ast2, Gone

\* A new process.
LEMMA NewSound ==
  Sound(Unhooked, {}, [p \in Parties |-> NoFunction], {}, [t \in Thread |-> AtRest], Unhooked)
  <1> DEFINE hks == [p \in Parties |-> NoFunction]
             thr == [t \in Thread |-> AtRest]
  <1>1. Unhooked \in [Address -> Block]
    BY DEF Unhooked, Unused, Runs, Block
  <1>2. \A a \in Address : Unhooked[a] # Torn
    BY <1>1, BlocksAre
  <1>3. \A f \in Function : \A a \in Trampoline(f) : Unhooked[a] = Unused
    BY AddressesDiffer DEF Unhooked
  <1>4. \A t \in Thread : AtWork(t, thr[t], {}) /\ Stored(thr[t], Unhooked, Unhooked)
    BY DEF AtWork, Stored, AtRest, At, Placing
  <1>5. Types(Unhooked, {}, hks, thr)
    <2>1. thr \in [Thread -> States]
      BY UnusedIsBlock DEF States, AtRest, At
    <2>2. Unhooked \in [Address -> Block \cup {Torn}]
      BY <1>1
    <2> HIDE DEF thr
    <2> QED BY <2>1, <2>2 DEF Types
  <1>6. AllChained(Unhooked, {}, hks, {})
    BY ChainedUnhooked
  <1> HIDE DEF hks, thr
  <1>7. Sound(Unhooked, {}, hks, {}, thr, Unhooked)
    BY <1>1, <1>2, <1>3, <1>4, <1>5, <1>6 DEF Sound
  <1> QED BY <1>7 DEF hks, thr

-----------------------------------------------------------------------------
(* The operators on blocks are the same in the abstract specification, and *)
(* in the one whose PartyHooks Startup uses.                               *)

\* What a party's hook makes of the blocks, in the words of the abstract specification.
WithPartyInAbstract(mem, p, kind, a) ==
  [b \in Abstract!Address |->
     CASE b \in Abstract!Code(p) -> Abstract!Runs(p, Abstract!Copy(p))
       [] b = Abstract!Copy(p) -> Abstract!Taken(mem, a, kind)
       [] b = a -> Abstract!Jump(kind, Abstract!Entry(p))
       [] b \in Abstract!Overrun(a, kind) -> Abstract!Unused
       [] OTHER -> mem[b]]

\* What a party's hook makes of the blocks, in the words of the one Startup uses.
WithPartyInChain(mem, p, kind, a) ==
  [b \in Chain!Address |->
     CASE b \in Chain!Code(p) -> Chain!Runs(p, Chain!Copy(p))
       [] b = Chain!Copy(p) -> Chain!Taken(mem, a, kind)
       [] b = a -> Chain!Jump(kind, Chain!Entry(p))
       [] b \in Chain!Overrun(a, kind) -> Chain!Unused
       [] OTHER -> mem[b]]

\* The operators of PlaceHook under the mapping are those of HookChain.
LEMMA AbstractOperators ==
  /\ Abstract!Unhooked = Unhooked
  /\ Abstract!Recognised = Recognised
  /\ Abstract!Jumps = Jumps
  /\ Abstract!NoFunction = NoFunction
  /\ Abstract!Function = Function
  /\ \A f : /\ Abstract!Entry(f) = Entry(f)
            /\ Abstract!Protection(f) = Protection(f)
            /\ Abstract!Detour(f) = Detour(f)
            /\ Abstract!Copy(f) = Copy(f)
  /\ \A what, next : Abstract!Runs(what, next) = Runs(what, next)
  /\ \A kind, next : Abstract!Jump(kind, next) = Jump(kind, next)
  /\ \A b, a : Abstract!Displaced(b, a) = Displaced(b, a)
  /\ \A a, kind : Abstract!Overrun(a, kind) = Overrun(a, kind)
  /\ \A mem, f : Abstract!Passed(mem, f) = Passed(mem, f)
  /\ \A mem, a, kinds : Abstract!End(mem, a, kinds) = End(mem, a, kinds)
  /\ \A mem, f : Abstract!AddressToHook(mem, f) = AddressToHook(mem, f)
  /\ \A mem, p, kind, a : WithPartyInAbstract(mem, p, kind, a) = WithParty(mem, p, kind, a)
  <1>1. /\ Abstract!Recognised = Recognised /\ Abstract!Jumps = Jumps /\ Abstract!Function = Function
        /\ Abstract!NoFunction = NoFunction /\ Abstract!Followed = Followed
        /\ Abstract!MaxFollowAttempts = MaxFollowAttempts /\ Abstract!Length = Length
    BY DEF Abstract!Recognised, Recognised, Abstract!Jumps, Jumps, Abstract!Function, Function,
           Abstract!NoFunction, NoFunction, Abstract!Followed, Followed,
           Abstract!MaxFollowAttempts, MaxFollowAttempts, Abstract!Length, Length
  <1>2. Abstract!Address = Address
    BY <1>1 DEF Abstract!Address, Address
  <1>3. \A f : /\ Abstract!Entry(f) = Entry(f)
               /\ Abstract!Protection(f) = Protection(f)
               /\ Abstract!Detour(f) = Detour(f)
               /\ Abstract!Copy(f) = Copy(f)
    BY DEF Abstract!Entry, Entry, Abstract!Protection, Protection, Abstract!Detour, Detour,
           Abstract!Copy, Copy
  <1>4. /\ \A what, next : Abstract!Runs(what, next) = Runs(what, next)
        /\ \A kind, next : Abstract!Jump(kind, next) = Jump(kind, next)
    BY DEF Abstract!Runs, Runs, Abstract!Jump, Jump
  <1>5. Abstract!Unused = Unused
    BY <1>4 DEF Abstract!Unused, Unused
  <1>6. \A a, kind : Abstract!Behind(a, kind) = Behind(a, kind)
    BY DEF Abstract!Behind, Behind
  <1>7. \A x : Abstract!Code(x) = Code(x)
    BY <1>1, <1>3, <1>6 DEF Abstract!Code, Code
  <1>8. Abstract!Unhooked = Unhooked
    BY <1>1, <1>2, <1>4, <1>5, <1>7 DEF Abstract!Unhooked, Unhooked
  <1>9. \A b, a : Abstract!Displaced(b, a) = Displaced(b, a)
    BY <1>6 DEF Abstract!Displaced, Displaced, Abstract!Returning, Returning, Abstract!Moved, Moved
  <1>10. \A mem, a, kind : Abstract!Taken(mem, a, kind) = Taken(mem, a, kind)
    BY <1>3, <1>4, <1>6 DEF Abstract!Taken, Taken
  <1>11. \A a, kind : Abstract!Overrun(a, kind) = Overrun(a, kind)
    BY <1>1, <1>3, <1>6 DEF Abstract!Overrun, Overrun
  <1>12. \A mem, a : Abstract!NextOf(mem, a) = NextOf(mem, a)
    BY <1>2 DEF Abstract!NextOf, NextOf
  <1>13. ASSUME NEW mem, NEW a PROVE Abstract!Path(mem, a) = Path(mem, a)
    <2> DEFINE Theirs(path) == path = [n \in Nat |-> IF n = 0 THEN a
                                                ELSE Abstract!NextOf(mem, path[n - 1])]
               Ours(path) == path = [n \in Nat |-> IF n = 0 THEN a
                                              ELSE NextOf(mem, path[n - 1])]
    <2>1. \A path : Theirs(path) <=> Ours(path)
      BY <1>12
    <2>2. /\ Abstract!Path(mem, a) = CHOOSE path : Theirs(path)
          /\ Path(mem, a) = CHOOSE path : Ours(path)
      BY Zenon DEF Abstract!Path, Path
    <2> HIDE DEF Theirs, Ours
    <2>3. (CHOOSE path : Theirs(path)) = (CHOOSE path : Ours(path))
      BY <2>1, Zenon
    <2> QED BY <2>2, <2>3
  <1>14. \A mem, a, kinds : Abstract!IsJump(mem, a, kinds) = IsJump(mem, a, kinds)
    BY <1>2 DEF Abstract!IsJump, IsJump
  <1>15. ASSUME NEW mem, NEW a, NEW kinds PROVE Abstract!End(mem, a, kinds) = End(mem, a, kinds)
    <2> DEFINE p == Path(mem, a)
               Theirs(n) == n = MaxFollowAttempts \/ ~Abstract!IsJump(mem, p[n], kinds)
               Ours(n) == n = MaxFollowAttempts \/ ~IsJump(mem, p[n], kinds)
    <2>1. /\ Abstract!End(mem, a, kinds) = p[CHOOSE n \in 0 .. MaxFollowAttempts :
                                         Theirs(n) /\ \A m \in 0 .. n - 1 : ~Theirs(m)]
          /\ End(mem, a, kinds) = p[CHOOSE n \in 0 .. MaxFollowAttempts :
                                      Ours(n) /\ \A m \in 0 .. n - 1 : ~Ours(m)]
      BY <1>1, <1>13, Zenon DEF Abstract!End, End
    <2>2. \A n : Theirs(n) <=> Ours(n)
      BY <1>14, Zenon
    <2> HIDE DEF p, Theirs, Ours
    <2>3. (CHOOSE n \in 0 .. MaxFollowAttempts : Theirs(n) /\ \A m \in 0 .. n - 1 : ~Theirs(m)) =
          (CHOOSE n \in 0 .. MaxFollowAttempts : Ours(n) /\ \A m \in 0 .. n - 1 : ~Ours(m))
      BY <2>2, Zenon
    <2> QED BY <2>1, <2>3, Zenon
  <1>16. \A mem, f : Abstract!AddressToHook(mem, f) = AddressToHook(mem, f)
    BY <1>1, <1>3, <1>15 DEF Abstract!AddressToHook, AddressToHook
  <1>17. ASSUME NEW mem, NEW f PROVE Abstract!Passed(mem, f) = Passed(mem, f)
    <2>1. Abstract!Cardinality(Address) = Cardinality(Address)
      BY Zenon DEF Abstract!Cardinality, Cardinality
    <2>2. Abstract!Path(mem, Abstract!Entry(f)) = Path(mem, Entry(f))
      BY <1>3, <1>13
    <2> QED BY <1>2, <2>1, <2>2 DEF Abstract!Passed, Passed
  <1>18. ASSUME NEW mem, NEW p, NEW kind, NEW a
         PROVE  WithPartyInAbstract(mem, p, kind, a) = WithParty(mem, p, kind, a)
    <2> DEFINE Theirs(b) == CASE b \in Abstract!Code(p) -> Abstract!Runs(p, Abstract!Copy(p))
                              [] b = Abstract!Copy(p) -> Abstract!Taken(mem, a, kind)
                              [] b = a -> Abstract!Jump(kind, Abstract!Entry(p))
                              [] b \in Abstract!Overrun(a, kind) -> Abstract!Unused
                              [] OTHER -> mem[b]
               Ours(b) == CASE b \in Code(p) -> Runs(p, Copy(p))
                            [] b = Copy(p) -> Taken(mem, a, kind)
                            [] b = a -> Jump(kind, Entry(p))
                            [] b \in Overrun(a, kind) -> Unused
                            [] OTHER -> mem[b]
    <2>1. \A b : Theirs(b) = Ours(b)
      BY <1>3, <1>4, <1>5, <1>7, <1>10, <1>11
    <2>2. /\ WithPartyInAbstract(mem, p, kind, a) = [b \in Address |-> Theirs(b)]
          /\ WithParty(mem, p, kind, a) = [b \in Address |-> Ours(b)]
      BY <1>2 DEF WithPartyInAbstract, WithParty
    <2> HIDE DEF Theirs, Ours
    <2> QED BY <2>1, <2>2
  <1> QED BY <1>1, <1>3, <1>4, <1>8, <1>9, <1>11, <1>15, <1>16, <1>17, <1>18

\* The operators PartyHooks uses are those of HookChain.
LEMMA ChainOperators ==
  /\ Chain!Unhooked = Unhooked
  /\ Chain!Recognised = Recognised
  /\ Chain!Jumps = Jumps
  /\ Chain!NoFunction = NoFunction
  /\ Chain!Function = Function
  /\ \A f : /\ Chain!Entry(f) = Entry(f)
            /\ Chain!Protection(f) = Protection(f)
            /\ Chain!Detour(f) = Detour(f)
            /\ Chain!Copy(f) = Copy(f)
  /\ \A what, next : Chain!Runs(what, next) = Runs(what, next)
  /\ \A kind, next : Chain!Jump(kind, next) = Jump(kind, next)
  /\ \A b, a : Chain!Displaced(b, a) = Displaced(b, a)
  /\ \A a, kind : Chain!Overrun(a, kind) = Overrun(a, kind)
  /\ \A mem, f : Chain!Passed(mem, f) = Passed(mem, f)
  /\ \A mem, a, kinds : Chain!End(mem, a, kinds) = End(mem, a, kinds)
  /\ \A mem, f : Chain!AddressToHook(mem, f) = AddressToHook(mem, f)
  /\ \A mem, p, kind, a : WithPartyInChain(mem, p, kind, a) = WithParty(mem, p, kind, a)
  <1>1. /\ Chain!Recognised = Recognised /\ Chain!Jumps = Jumps /\ Chain!Function = Function
        /\ Chain!NoFunction = NoFunction /\ Chain!Followed = Followed
        /\ Chain!MaxFollowAttempts = MaxFollowAttempts /\ Chain!Length = Length
    BY DEF Chain!Recognised, Recognised, Chain!Jumps, Jumps, Chain!Function, Function,
           Chain!NoFunction, NoFunction, Chain!Followed, Followed,
           Chain!MaxFollowAttempts, MaxFollowAttempts, Chain!Length, Length
  <1>2. Chain!Address = Address
    BY <1>1 DEF Chain!Address, Address
  <1>3. \A f : /\ Chain!Entry(f) = Entry(f)
               /\ Chain!Protection(f) = Protection(f)
               /\ Chain!Detour(f) = Detour(f)
               /\ Chain!Copy(f) = Copy(f)
    BY DEF Chain!Entry, Entry, Chain!Protection, Protection, Chain!Detour, Detour,
           Chain!Copy, Copy
  <1>4. /\ \A what, next : Chain!Runs(what, next) = Runs(what, next)
        /\ \A kind, next : Chain!Jump(kind, next) = Jump(kind, next)
    BY DEF Chain!Runs, Runs, Chain!Jump, Jump
  <1>5. Chain!Unused = Unused
    BY <1>4 DEF Chain!Unused, Unused
  <1>6. \A a, kind : Chain!Behind(a, kind) = Behind(a, kind)
    BY DEF Chain!Behind, Behind
  <1>7. \A x : Chain!Code(x) = Code(x)
    BY <1>1, <1>3, <1>6 DEF Chain!Code, Code
  <1>8. Chain!Unhooked = Unhooked
    BY <1>1, <1>2, <1>4, <1>5, <1>7 DEF Chain!Unhooked, Unhooked
  <1>9. \A b, a : Chain!Displaced(b, a) = Displaced(b, a)
    BY <1>6 DEF Chain!Displaced, Displaced, Chain!Returning, Returning, Chain!Moved, Moved
  <1>10. \A mem, a, kind : Chain!Taken(mem, a, kind) = Taken(mem, a, kind)
    BY <1>3, <1>4, <1>6 DEF Chain!Taken, Taken
  <1>11. \A a, kind : Chain!Overrun(a, kind) = Overrun(a, kind)
    BY <1>1, <1>3, <1>6 DEF Chain!Overrun, Overrun
  <1>12. \A mem, a : Chain!NextOf(mem, a) = NextOf(mem, a)
    BY <1>2 DEF Chain!NextOf, NextOf
  <1>13. ASSUME NEW mem, NEW a PROVE Chain!Path(mem, a) = Path(mem, a)
    <2> DEFINE Theirs(path) == path = [n \in Nat |-> IF n = 0 THEN a
                                                ELSE Chain!NextOf(mem, path[n - 1])]
               Ours(path) == path = [n \in Nat |-> IF n = 0 THEN a
                                              ELSE NextOf(mem, path[n - 1])]
    <2>1. \A path : Theirs(path) <=> Ours(path)
      BY <1>12
    <2>2. /\ Chain!Path(mem, a) = CHOOSE path : Theirs(path)
          /\ Path(mem, a) = CHOOSE path : Ours(path)
      BY Zenon DEF Chain!Path, Path
    <2> HIDE DEF Theirs, Ours
    <2>3. (CHOOSE path : Theirs(path)) = (CHOOSE path : Ours(path))
      BY <2>1, Zenon
    <2> QED BY <2>2, <2>3
  <1>14. \A mem, a, kinds : Chain!IsJump(mem, a, kinds) = IsJump(mem, a, kinds)
    BY <1>2 DEF Chain!IsJump, IsJump
  <1>15. ASSUME NEW mem, NEW a, NEW kinds PROVE Chain!End(mem, a, kinds) = End(mem, a, kinds)
    <2> DEFINE p == Path(mem, a)
               Theirs(n) == n = MaxFollowAttempts \/ ~Chain!IsJump(mem, p[n], kinds)
               Ours(n) == n = MaxFollowAttempts \/ ~IsJump(mem, p[n], kinds)
    <2>1. /\ Chain!End(mem, a, kinds) = p[CHOOSE n \in 0 .. MaxFollowAttempts :
                                         Theirs(n) /\ \A m \in 0 .. n - 1 : ~Theirs(m)]
          /\ End(mem, a, kinds) = p[CHOOSE n \in 0 .. MaxFollowAttempts :
                                      Ours(n) /\ \A m \in 0 .. n - 1 : ~Ours(m)]
      BY <1>1, <1>13, Zenon DEF Chain!End, End
    <2>2. \A n : Theirs(n) <=> Ours(n)
      BY <1>14, Zenon
    <2> HIDE DEF p, Theirs, Ours
    <2>3. (CHOOSE n \in 0 .. MaxFollowAttempts : Theirs(n) /\ \A m \in 0 .. n - 1 : ~Theirs(m)) =
          (CHOOSE n \in 0 .. MaxFollowAttempts : Ours(n) /\ \A m \in 0 .. n - 1 : ~Ours(m))
      BY <2>2, Zenon
    <2> QED BY <2>1, <2>3, Zenon
  <1>16. \A mem, f : Chain!AddressToHook(mem, f) = AddressToHook(mem, f)
    BY <1>1, <1>3, <1>15 DEF Chain!AddressToHook, AddressToHook
  <1>17. ASSUME NEW mem, NEW f PROVE Chain!Passed(mem, f) = Passed(mem, f)
    <2>1. Chain!Cardinality(Address) = Cardinality(Address)
      BY Zenon DEF Chain!Cardinality, Cardinality
    <2>2. Chain!Path(mem, Chain!Entry(f)) = Path(mem, Entry(f))
      BY <1>3, <1>13
    <2> QED BY <1>2, <2>1, <2>2 DEF Chain!Passed, Passed
  <1>18. ASSUME NEW mem, NEW p, NEW kind, NEW a
         PROVE  WithPartyInChain(mem, p, kind, a) = WithParty(mem, p, kind, a)
    <2> DEFINE Theirs(b) == CASE b \in Chain!Code(p) -> Chain!Runs(p, Chain!Copy(p))
                              [] b = Chain!Copy(p) -> Chain!Taken(mem, a, kind)
                              [] b = a -> Chain!Jump(kind, Chain!Entry(p))
                              [] b \in Chain!Overrun(a, kind) -> Chain!Unused
                              [] OTHER -> mem[b]
               Ours(b) == CASE b \in Code(p) -> Runs(p, Copy(p))
                            [] b = Copy(p) -> Taken(mem, a, kind)
                            [] b = a -> Jump(kind, Entry(p))
                            [] b \in Overrun(a, kind) -> Unused
                            [] OTHER -> mem[b]
    <2>1. \A b : Theirs(b) = Ours(b)
      BY <1>3, <1>4, <1>5, <1>7, <1>10, <1>11
    <2>2. /\ WithPartyInChain(mem, p, kind, a) = [b \in Address |-> Theirs(b)]
          /\ WithParty(mem, p, kind, a) = [b \in Address |-> Ours(b)]
      BY <1>2 DEF WithPartyInChain, WithParty
    <2> HIDE DEF Theirs, Ours
    <2> QED BY <2>1, <2>2
  <1> QED BY <1>1, <1>3, <1>4, <1>8, <1>9, <1>11, <1>15, <1>16, <1>17, <1>18

-----------------------------------------------------------------------------
(* Every step keeps the invariant, and is a step of the abstract           *)
(* specification or none.                                                  *)

SoundNow == Sound(memory, hooked, hooks, astray, thread, Settled)

Abstractly == [Abstract!Next]_(Abstract!vars)

\* A step that leaves what is settled alone is a stutter of PlaceHook.
LEMMA QuietStep ==
  ASSUME Sound(memory', hooked', hooks', astray', thread', Settled),
         UNCHANGED <<hooked, hooks, lost, astray>>
  PROVE  SoundNow' /\ Abstractly
  <1>1. Settled' = Settled
    BY SoundIsSettled, SettledIsOf
  <1>2. SoundNow'
    BY <1>1 DEF SoundNow
  <1>3. UNCHANGED Abstract!vars
    BY <1>1 DEF Abstract!vars
  <1> QED BY <1>2, <1>3 DEF Abstractly

\* What PlaceHook reads at the address it found is what is there.
LEMMA BlockFound ==
  ASSUME NEW mem, NEW hkd, NEW hks, NEW ast, NEW thr, NEW S, Sound(mem, hkd, hks, ast, thr, S),
         NEW t \in Thread, thr[t].at \in {"copy", "detour", "back", "return", "tear"}
  PROVE  /\ thr[t].a = AddressToHook(S, thr[t].f) /\ thr[t].a \in Address
         /\ mem[thr[t].a] = S[thr[t].a] /\ S[thr[t].a] \in Block
         /\ thr[t].f \in Function
  <1> DEFINE f == thr[t].f
             a == thr[t].a
  <1>1. thr[t].at \in Placing /\ thr[t].at \in Placing \ {"follow"}
    BY DEF Placing
  <1>2. /\ f \in Function
        /\ \A u \in Thread : u # t /\ thr[u].at \in Placing => thr[u].f # f
    BY <1>1, AtWorkApart
  <1>3. \A u \in Thread : thr[u].at = "jump" => thr[u].f # f
    <2>1. \A u \in Thread : thr[u].at = "jump" => thr[u].at \in Placing /\ u # t
      BY DEF Placing
    <2> QED BY <2>1, <1>2
  <1>4. a = AddressToHook(S, f) /\ a \in RegionOf(hkd, hks, f) /\ a \in Address
    BY <1>1, PlacedWhere
  <1>5. mem[a] = S[a]
    BY <1>2, <1>3, <1>4, RegionWhole
  <1>6. S[a] \in Block
    BY <1>4 DEF Sound
  <1> QED BY <1>2, <1>4, <1>5, <1>6

\* The four stores into a trampoline, one by one:
LEMMA StoreStep ==
  ASSUME SoundNow, NEW t \in Thread,
         NEW step \in {"copy", "detour", "back", "return"},
         NEW c \in States, c.at \in {"detour", "back", "return", "tear"},
         c.f = thread[t].f, c.a = thread[t].a,
         NEW a \in Trampoline(thread[t].f), NEW b \in Block,
         Stores(t, step, c, a, b),
         Stored(c, [memory EXCEPT ![a] = b], Settled)
  PROVE  SoundNow' /\ Abstractly
  <1>1. Sound(memory, hooked, hooks, astray, thread, Settled)
    BY DEF SoundNow
  <1>2. /\ thread[t].at \in {"copy", "detour", "back", "return"}
        /\ memory' = [memory EXCEPT ![a] = b]
        /\ thread' = [thread EXCEPT ![t] = c]
        /\ UNCHANGED <<hooked, hooks, lost, astray>>
    BY DEF Stores, Goes
  <1>3. Sound([memory EXCEPT ![a] = b], hooked, hooks, astray, [thread EXCEPT ![t] = c], Settled)
    BY <1>1, <1>2, StoreSound
  <1>4. Sound(memory', hooked', hooks', astray', thread', Settled)
    BY <1>2, <1>3
  <1> QED BY <1>2, <1>4, QuietStep

\* The thread looks where the jumps end; nothing is stored.
LEMMA FollowsStep ==
  ASSUME SoundNow, NEW t \in Thread, FollowsJumps(t)
  PROVE  SoundNow' /\ Abstractly
  <1>1. Sound(memory, hooked, hooks, astray, thread, Settled)
    BY DEF SoundNow
  <1>2. /\ thread[t].at = "follow"
        /\ thread' = [thread EXCEPT ![t] =
                        At("copy", thread[t].f, AddressToHook(memory, thread[t].f))]
        /\ UNCHANGED <<memory, hooked, hooks, lost, astray>>
    BY DEF FollowsJumps, Goes, chainVars
  <1>3. Sound(memory, hooked, hooks, astray, [thread EXCEPT ![t] =
                At("copy", thread[t].f, AddressToHook(memory, thread[t].f))], Settled)
    BY <1>1, <1>2, FollowSound
  <1>4. Sound(memory', hooked', hooks', astray', thread', Settled)
    BY <1>2, <1>3
  <1> QED BY <1>2, <1>4, QuietStep

\* The copy is what was displaced; code does not jump back yet.
LEMMA CopiesStep ==
  ASSUME SoundNow, NEW t \in Thread, CopiesDisplaced(t)
  PROVE  SoundNow' /\ Abstractly
  <1> DEFINE f == thread[t].f
             a == thread[t].a
             b == Moved(memory[thread[t].a])
             c2 == [thread[t] EXCEPT !.at = "detour", !.was = memory[thread[t].a]]
             mem2 == [memory EXCEPT ![Copy(f)] = b]
  <1>1. Sound(memory, hooked, hooks, astray, thread, Settled)
    BY DEF SoundNow
  <1>2. Stores(t, "copy", c2, Copy(f), b) /\ thread[t].at = "copy"
    BY DEF CopiesDisplaced, Stores
  <1>3. /\ a = AddressToHook(Settled, f) /\ f \in Function
        /\ memory[a] = Settled[a] /\ Settled[a] \in Block
    BY <1>1, <1>2, BlockFound
  <1>4. b \in Block
    BY <1>3, BlocksAre
  <1>5. Copy(f) \in Trampoline(f) /\ Copy(f) \in Address
    BY <1>3, AddressesDiffer DEF Trampoline
  <1>6. thread[t] \in States /\ memory \in [Address -> Block \cup {Torn}]
    BY <1>1 DEF Sound, Types
  <1>7. c2 \in States /\ c2.at = "detour" /\ c2.f = f /\ c2.a = a /\ c2.was = Settled[a]
    BY <1>3, <1>6 DEF States, Placing
  <1>8. mem2[Copy(f)] = Moved(Settled[a])
    BY <1>3, <1>5, <1>6
  <1> HIDE DEF c2, mem2, b, f, a
  <1>9. Stored(c2, mem2, Settled)
    BY <1>3, <1>7, <1>8 DEF Stored
  <1> QED BY <1>2, <1>4, <1>5, <1>7, <1>9, StoreStep DEF mem2, f, a

\* The room for other hooks leads to the mod's function.
LEMMA DetourStep ==
  ASSUME SoundNow, NEW t \in Thread, PlacesDetour(t)
  PROVE  SoundNow' /\ Abstractly
  <1> DEFINE f == thread[t].f
             a == thread[t].a
             b == Runs(Nothing, Detour(f))
             c2 == [thread[t] EXCEPT !.at = "back"]
             mem2 == [memory EXCEPT ![Protection(f)] = b]
  <1>1. Sound(memory, hooked, hooks, astray, thread, Settled)
    BY DEF SoundNow
  <1>2. Stores(t, "detour", c2, Protection(f), b) /\ thread[t].at = "detour"
    BY DEF PlacesDetour, Stores
  <1>3. a = AddressToHook(Settled, f) /\ f \in Function
    BY <1>1, <1>2, BlockFound
  <1>4. b \in Block
    BY <1>3, BlocksAre
  <1>5. /\ Protection(f) \in Trampoline(f) /\ Protection(f) # Copy(f)
        /\ Protection(f) \in Address /\ Copy(f) \in Address
    BY <1>3, AddressesDiffer DEF Trampoline
  <1>6. thread[t] \in States /\ memory \in [Address -> Block \cup {Torn}]
    BY <1>1 DEF Sound, Types
  <1>7. /\ c2 \in States /\ c2.at = "back" /\ c2.f = f /\ c2.a = a
        /\ c2.was = thread[t].was
    BY <1>6 DEF States, Placing
  <1>8. mem2[Protection(f)] = b /\ mem2[Copy(f)] = memory[Copy(f)]
    BY <1>5, <1>6
  <1>9. memory[Copy(f)] = Moved(Settled[a]) /\ thread[t].was = Settled[a]
    BY <1>1, <1>2 DEF Sound, Stored, Placing
  <1> HIDE DEF c2, mem2, f, a
  <1>10. Stored(c2, mem2, Settled)
    BY <1>3, <1>7, <1>8, <1>9 DEF Stored
  <1> QED BY <1>2, <1>4, <1>5, <1>7, <1>10, StoreStep DEF mem2, f, a

\* A copy of code gets its jump back.
LEMMA BackStep ==
  ASSUME SoundNow, NEW t \in Thread, PlacesBack(t)
  PROVE  SoundNow' /\ Abstractly
  <1> DEFINE f == thread[t].f
             a == thread[t].a
             b == Returning(memory[Copy(f)], a)
             c2 == [thread[t] EXCEPT !.at = "return"]
             mem2 == [memory EXCEPT ![Copy(f)] = b]
  <1>1. Sound(memory, hooked, hooks, astray, thread, Settled)
    BY DEF SoundNow
  <1>2. Stores(t, "back", c2, Copy(f), b) /\ thread[t].at = "back"
    BY DEF PlacesBack, Stores
  <1>3. /\ a = AddressToHook(Settled, f) /\ f \in Function /\ a \in Address
        /\ Settled[a] \in Block
    BY <1>1, <1>2, BlockFound
  <1>4. /\ memory[Copy(f)] = Moved(Settled[a]) /\ thread[t].was = Settled[a]
        /\ memory[Protection(f)] = Runs(Nothing, Detour(f))
    BY <1>1, <1>2 DEF Sound, Stored, Placing
  <1>5. b = Displaced(Settled[a], a)
    BY <1>4 DEF Displaced
  <1>6. /\ Copy(f) \in Trampoline(f) /\ Protection(f) # Copy(f)
        /\ Protection(f) \in Address /\ Copy(f) \in Address
    BY <1>3, AddressesDiffer DEF Trampoline
  <1>7. thread[t] \in States /\ memory \in [Address -> Block \cup {Torn}]
    BY <1>1 DEF Sound, Types
  <1>8. /\ c2 \in States /\ c2.at = "return" /\ c2.f = f /\ c2.a = a
        /\ c2.was = thread[t].was
    BY <1>7 DEF States, Placing
  <1> HIDE DEF b
  <1>9. mem2[Copy(f)] = b /\ mem2[Protection(f)] = memory[Protection(f)]
    BY <1>6, <1>7
  <1>10. b \in Block
    BY <1>3, <1>5, BlocksAre
  <1> HIDE DEF c2, mem2, f, a
  <1>11. Stored(c2, mem2, Settled)
    BY <1>3, <1>4, <1>5, <1>8, <1>9 DEF Stored
  <1> QED BY <1>2, <1>6, <1>8, <1>10, <1>11, StoreStep DEF mem2, f, a

\* The mod's function goes on at the copy.
LEMMA ReturnStep ==
  ASSUME SoundNow, NEW t \in Thread, SetsReturn(t)
  PROVE  SoundNow' /\ Abstractly
  <1> DEFINE f == thread[t].f
             a == thread[t].a
             b == Runs(Mod, Copy(f))
             c2 == [thread[t] EXCEPT !.at = "tear"]
             mem2 == [memory EXCEPT ![Detour(f)] = b]
  <1>1. Sound(memory, hooked, hooks, astray, thread, Settled)
    BY DEF SoundNow
  <1>2. Stores(t, "return", c2, Detour(f), b) /\ thread[t].at = "return"
    BY DEF SetsReturn, Stores, ReturnsTo
  <1>3. a = AddressToHook(Settled, f) /\ f \in Function
    BY <1>1, <1>2, BlockFound
  <1>4. b \in Block
    BY <1>3, BlocksAre
  <1>5. /\ Detour(f) \in Trampoline(f) /\ Detour(f) # Copy(f) /\ Detour(f) # Protection(f)
        /\ Detour(f) \in Address /\ Copy(f) \in Address /\ Protection(f) \in Address
    BY <1>3, AddressesDiffer DEF Trampoline
  <1>6. thread[t] \in States /\ memory \in [Address -> Block \cup {Torn}]
    BY <1>1 DEF Sound, Types
  <1>7. /\ c2 \in States /\ c2.at = "tear" /\ c2.f = f /\ c2.a = a
        /\ c2.was = thread[t].was
    BY <1>6 DEF States, Placing
  <1>8. /\ mem2[Detour(f)] = b /\ mem2[Copy(f)] = memory[Copy(f)]
        /\ mem2[Protection(f)] = memory[Protection(f)]
    BY <1>5, <1>6
  <1>9. /\ memory[Copy(f)] = Displaced(Settled[a], a) /\ thread[t].was = Settled[a]
        /\ memory[Protection(f)] = Runs(Nothing, Detour(f))
    BY <1>1, <1>2 DEF Sound, Stored, Placing
  <1> HIDE DEF c2, mem2, f, a
  <1>10. Stored(c2, mem2, Settled)
    BY <1>3, <1>7, <1>8, <1>9 DEF Stored, b
  <1> QED BY <1>2, <1>4, <1>5, <1>7, <1>10, StoreStep DEF mem2, f, a

\* The entry is torn.
LEMMA TearStep ==
  ASSUME SoundNow, NEW t \in Thread, TearsEntry(t)
  PROVE  SoundNow' /\ Abstractly
  <1>1. Sound(memory, hooked, hooks, astray, thread, Settled)
    BY DEF SoundNow
  <1>2. /\ thread[t].at = "tear"
        /\ memory' = [memory EXCEPT ![thread[t].a] = Torn]
        /\ thread' = [thread EXCEPT ![t] = [thread[t] EXCEPT !.at = "jump"]]
        /\ UNCHANGED <<hooked, hooks, lost, astray>>
    BY DEF TearsEntry, Stores, Goes
  <1>3. Sound([memory EXCEPT ![thread[t].a] = Torn], hooked, hooks, astray,
              [thread EXCEPT ![t] = [thread[t] EXCEPT !.at = "jump"]], Settled)
    BY <1>1, <1>2, TearSound
  <1>4. Sound(memory', hooked', hooks', astray', thread', Settled)
    BY <1>2, <1>3
  <1> QED BY <1>2, <1>4, QuietStep

\* The jump is written: here the hook is placed.
LEMMA JumpStep ==
  ASSUME SoundNow, NEW t \in Thread, PlacesJump(t)
  PROVE  SoundNow' /\ Abstractly
  <1> DEFINE f == thread[t].f
             was == thread[t].was
             a == AddressToHook(Settled, f)
             S2 == WithHook(Settled, f, a)
  <1>1. Sound(memory, hooked, hooks, astray, thread, Settled)
    BY DEF SoundNow
  <1>2. /\ thread[t].at = "jump"
        /\ memory' = [memory EXCEPT ![thread[t].a] = Jump("relative", Protection(f))]
        /\ hooked' = hooked \cup {f}
        /\ lost' = lost \cup ({was.jump} \cap Recognised)
        /\ astray' = AstrayHook(astray, f, was)
        /\ thread' = [thread EXCEPT ![t] = AfterHook(f)]
        /\ hooks' = hooks
    BY DEF PlacesJump, Goes, JumpsTo, AstrayHook
  <1>3. /\ Sound([memory EXCEPT ![thread[t].a] = Jump("relative", Protection(f))],
                 hooked \cup {f}, hooks, AstrayHook(astray, f, was),
                 [thread EXCEPT ![t] = AfterHook(f)], S2)
        /\ f \in Function /\ f \notin hooked
        /\ was = Settled[a]
    <2>1. thread[t].at = "jump"
      BY <1>2
    <2> QED BY ONLY t \in Thread, <1>1, <2>1, JumpSound
  <1>4. Sound(memory', hooked', hooks', astray', thread', S2)
    BY <1>2, <1>3
  <1>5. Settled' = S2
    <2> HIDE DEF S2
    <2> QED BY <1>4, SoundIsSettled, SettledIsOf
  <1>6. SoundNow'
    BY <1>4, <1>5 DEF SoundNow
  <1>7. Abstract!PlaceHook(f)
    <2>1. Abstract!AddressToHook(Settled, f) = a
      BY AbstractOperators
    <2>2. /\ lost' = lost \cup ({Settled[a].jump} \cap Abstract!Recognised)
          /\ astray' = astray \cup {g \in {f} : Settled[a].jump = "unrecognised"}
      <3> HIDE DEF f, a, was
      <3> QED BY <1>2, <1>3, AbstractOperators DEF AstrayHook
    <2>3. Settled' = [Settled EXCEPT
                        ![Abstract!Protection(f)] = Abstract!Runs(Nothing, Abstract!Detour(f)),
                        ![Abstract!Detour(f)] = Abstract!Runs(Mod, Abstract!Copy(f)),
                        ![Abstract!Copy(f)] = Abstract!Displaced(Settled[a], a),
                        ![a] = Abstract!Jump("relative", Abstract!Protection(f))]
      <3> HIDE DEF f, a
      <3>1. Settled' = WithHook(Settled, f, a)
        BY <1>5
      <3> QED BY <3>1, AbstractOperators DEF WithHook
    <2> HIDE DEF f, a
    <2> QED BY <1>2, <1>3, <2>1, <2>2, <2>3 DEF Abstract!PlaceHook
  <1>8. Abstract!Next
    <2>1. f \in Abstract!Function
      BY <1>3, AbstractOperators
    <2> HIDE DEF f
    <2> QED BY <2>1, <1>7 DEF Abstract!Next
  <1> QED BY <1>6, <1>8 DEF Abstractly

\* Another overlay's hook is one of PlaceHook's.
LEMMA PartyStep ==
  ASSUME SoundNow, NEW p \in Parties, NEW f \in Function, PartyHooks(p, f)
  PROVE  SoundNow' /\ Abstractly
  <1>1. Sound(memory, hooked, hooks, astray, thread, Settled)
    BY DEF SoundNow
  <1>2. /\ \A t \in Thread : thread[t].f # f
        /\ hooks[p] = NoFunction
        /\ hooks' = [hooks EXCEPT ![p] = f]
        /\ UNCHANGED <<hooked, lost, thread>>
    BY ChainOperators DEF PartyHooks, Chain!PartyHooks
  <1>3. PICK kind \in Jumps, a \in HookPlaces(memory, f, Jumps) :
          /\ memory' = WithParty(memory, p, kind, a)
          /\ astray' = AstrayParty(astray, f, Overrun(a, kind), Passed(memory, f))
    <2>1. PICK kind \in Chain!Jumps,
               a \in {Chain!Entry(f), Chain!End(memory, Chain!Entry(f), Chain!Jumps)} :
            /\ memory' = WithPartyInChain(memory, p, kind, a)
            /\ astray' = astray \cup
                 {g \in {f} : Chain!Overrun(a, kind) \cap Chain!Passed(memory, f) # {}}
      BY DEF PartyHooks, Chain!PartyHooks, WithPartyInChain
    <2>2. /\ Chain!Jumps = Jumps /\ Chain!Entry(f) = Entry(f)
          /\ Chain!End(memory, Entry(f), Jumps) = End(memory, Entry(f), Jumps)
      BY ChainOperators
    <2>3. kind \in Jumps /\ a \in HookPlaces(memory, f, Jumps)
      BY <2>2 DEF HookPlaces
    <2>4. /\ WithPartyInChain(memory, p, kind, a) = WithParty(memory, p, kind, a)
          /\ Chain!Overrun(a, kind) = Overrun(a, kind)
          /\ Chain!Passed(memory, f) = Passed(memory, f)
      BY ChainOperators
    <2> QED BY <2>1, <2>3, <2>4 DEF AstrayParty
  <1> DEFINE S2 == WithParty(Settled, p, kind, a)
             ast2 == AstrayParty(astray, f, Overrun(a, kind), Passed(memory, f))
  <1>4. /\ Sound(WithParty(memory, p, kind, a), hooked, [hooks EXCEPT ![p] = f], ast2, thread, S2)
        /\ HookPlaces(Settled, f, Jumps) = HookPlaces(memory, f, Jumps)
        /\ Passed(Settled, f) = Passed(memory, f)
    <2>1. hooks[p] = NoFunction /\ \A t \in Thread : thread[t].f # f
      BY <1>2
    <2> QED BY ONLY p \in Parties, f \in Function, kind \in Jumps,
                    a \in HookPlaces(memory, f, Jumps), <1>1, <2>1, PartySound
  <1>5. Sound(memory', hooked', hooks', astray', thread', S2)
    BY <1>2, <1>3, <1>4
  <1>6. Settled' = S2
    <2> HIDE DEF S2
    <2> QED BY <1>5, SoundIsSettled, SettledIsOf
  <1>7. SoundNow'
    BY <1>5, <1>6 DEF SoundNow
  <1>8. Abstract!PartyHooks(p, f)
    <2>1. a \in {Abstract!Entry(f), Abstract!End(Settled, Abstract!Entry(f), Abstract!Jumps)}
      <3>1. a \in {Entry(f), End(Settled, Entry(f), Jumps)}
        BY <1>4 DEF HookPlaces
      <3> QED BY <3>1, AbstractOperators
    <2>2. Settled' = WithPartyInAbstract(Settled, p, kind, a)
      BY <1>6, AbstractOperators
    <2>3. kind \in Abstract!Jumps /\ hooks[p] = Abstract!NoFunction
      BY <1>2, AbstractOperators
    <2>4. astray' = astray \cup
            {g \in {f} : Abstract!Overrun(a, kind) \cap Abstract!Passed(Settled, f) # {}}
      <3>1. /\ Abstract!Overrun(a, kind) = Overrun(a, kind)
            /\ Abstract!Passed(Settled, f) = Passed(memory, f)
        BY <1>4, AbstractOperators
      <3> QED BY <1>3, <3>1 DEF AstrayParty
    <2> QED BY <1>2, <2>1, <2>2, <2>3, <2>4 DEF Abstract!PartyHooks, WithPartyInAbstract
  <1>9. Abstract!Next
    <2>1. f \in Abstract!Function
      BY AbstractOperators
    <2> QED BY <2>1, <1>8 DEF Abstract!Next
  <1> QED BY <1>7, <1>9 DEF Abstractly

\* A process that ends leaves the functions unhooked.
LEMMA ExitStep ==
  ASSUME Exit
  PROVE  SoundNow' /\ Abstractly
  <1>1. /\ memory' = Unhooked /\ hooked' = {} /\ lost' = {} /\ astray' = {}
        /\ hooks' = [p \in Parties |-> NoFunction]
        /\ thread' = [t \in Thread |-> AtRest]
    BY DEF Exit, NewProcess
  <1>2. Sound(memory', hooked', hooks', astray', thread', Unhooked)
    BY <1>1, NewSound
  <1>3. Settled' = Unhooked
    BY <1>2, SoundIsSettled, SettledIsOf
  <1>4. SoundNow'
    BY <1>2, <1>3 DEF SoundNow
  <1>5. Abstract!Exit
    BY <1>1, <1>3, AbstractOperators DEF Abstract!Exit
  <1> QED BY <1>4, <1>5 DEF Abstractly, Abstract!Next

\* The initial states map to initial states.
LEMMA InitSound ==
  ASSUME Init
  PROVE  SoundNow /\ Abstract!Init
  <1>1. /\ memory = Unhooked /\ hooked = {} /\ lost = {} /\ astray = {}
        /\ hooks = [p \in Parties |-> NoFunction]
        /\ thread = [t \in Thread |-> AtRest]
    BY DEF Init
  <1>2. Sound(memory, hooked, hooks, astray, thread, Unhooked)
    BY <1>1, NewSound
  <1>3. Settled = Unhooked
    BY <1>2, SoundIsSettled, SettledIsOf
  <1> QED BY <1>1, <1>2, <1>3, AbstractOperators DEF SoundNow, Abstract!Init

-----------------------------------------------------------------------------
(* The whole invariant: what the settings are, and how far the hook thread *)
(* got with what they ask for.                                             *)

\* No start changes what the user wrote; the mod runs with what was read.
SettingsInv ==
  /\ \A k \in Key : wish[k] = IF file[k] = Absent THEN Default ELSE file[k]
  /\ running => enabled = {s \in Switches : wish[s] = "good"}

\* Before the hook thread places a hook, it has registered what is switched on.
RegisterInv ==
  /\ ~running => hooked = {} /\ thread = [t \in Thread |-> AtRest] /\ renderCallbacks = {}
  /\ renderCallbacks \subseteq enabled \cap Overlays
  /\ thread["hook"].at = "register" => HookDirectX \in enabled
  /\ thread["hook"].at \in Placing \/ "Present" \in hooked =>
       /\ HookDirectX \in enabled
       /\ enabled \cap Overlays \subseteq renderCallbacks
       /\ callbackGetCommandQueue
  /\ "Present" \in hooked => running

IInv == TypeOK /\ SoundNow /\ SettingsInv /\ RegisterInv

\* Every step keeps Sound, and is a step of PlaceHook or a stutter.
LEMMA StepSound ==
  ASSUME IInv, [Next]_vars
  PROVE  SoundNow' /\ Abstractly
  <1>1. Sound(memory, hooked, hooks, astray, thread, Settled)
    BY DEF IInv, SoundNow
  <1>2. ASSUME UNCHANGED <<chainVars, thread>> PROVE SoundNow' /\ Abstractly
    <2>1. Sound(memory', hooked', hooks', astray', thread', Settled)
      BY <1>1, <1>2 DEF chainVars
    <2> QED BY <1>2, <2>1, QuietStep DEF chainVars
  <1>3. ASSUME NEW t \in Thread, thread[t].at # "jump", NEW c \in States, c.at \notin Placing \ {"follow"},
               AtWork(t, c, hooked), UNCHANGED chainVars, Goes(t, c)
        PROVE  SoundNow' /\ Abstractly
    <2>1. Stored(c, memory, Settled) /\ c.at # "jump"
      BY <1>3 DEF Stored, Placing
    <2>2. Sound(memory, hooked, hooks, astray, [thread EXCEPT ![t] = c], Settled)
      BY <1>1, <1>3, <2>1, GoesSound
    <2>3. Sound(memory', hooked', hooks', astray', thread', Settled)
      BY <1>3, <2>2 DEF chainVars, Goes
    <2> QED BY <1>3, <2>3, QuietStep DEF chainVars
  <1>4. \A t \in Thread : AtWork(t, thread[t], hooked)
    BY <1>1 DEF Sound
  <1>5. "hook" \in Thread /\ "present" \in Thread
    BY DEF Thread
  <1>6. CASE UserEdits
    BY <1>2, <1>6 DEF UserEdits
  <1>7. CASE OnAttach
    <2>1. hooked = {} /\ thread["hook"].at # "jump" /\ UNCHANGED chainVars
      BY <1>5, <1>7 DEF OnAttach, IInv, RegisterInv, AtRest, At
    <2>2. CASE HookDirectX \in enabled'
      <3> DEFINE c == At("register", NoFunction, Caller)
      <3>1. Goes("hook", c)
        BY <1>7, <2>2 DEF OnAttach, Goes
      <3>2. c \in States /\ c.at \notin Placing \ {"follow"} /\ AtWork("hook", c, hooked)
        BY <2>1, UnusedIsBlock DEF States, At, Placing, AtWork
      <3> HIDE DEF c
      <3> QED BY <1>3, <1>5, <2>1, <3>1, <3>2
    <2>3. CASE HookDirectX \notin enabled'
      BY <1>2, <1>7, <2>1, <2>3 DEF OnAttach
    <2> QED BY <2>2, <2>3
  <1>8. CASE Exit
    BY <1>8, ExitStep
  <1>9. CASE \E o \in Overlays : AddRenderCallback(o)
    BY <1>2, <1>9 DEF AddRenderCallback
  <1>10. CASE Hook
    <2> DEFINE c == At("follow", "Present", Caller)
    <2>1. Goes("hook", c) /\ UNCHANGED chainVars /\ thread["hook"].at = "register"
      BY <1>10 DEF Hook
    <2>2. AtWork("hook", c, hooked)
      BY <1>4, <1>5, <2>1 DEF AtWork, At, Placing, WorksOn
    <2>3. c \in States /\ c.at \notin Placing \ {"follow"}
      BY UnusedIsBlock DEF States, At, Placing, Function
    <2> HIDE DEF c
    <2> QED BY <1>3, <1>5, <2>1, <2>2, <2>3
  <1>11. ASSUME NEW t \in Thread, PlacesHook(t) PROVE SoundNow' /\ Abstractly
    <2>1. SoundNow
      BY DEF IInv
    <2> QED BY <2>1, <1>11, FollowsStep, CopiesStep, DetourStep, BackStep, ReturnStep, TearStep,
               JumpStep DEF PlacesHook
  <1>12. CASE GetCommandQueue
    <2> DEFINE c == At("follow", "ExecuteCommandLists", Caller)
    <2>1. /\ Goes("present", c) /\ UNCHANGED chainVars /\ thread["present"] = AtRest
          /\ "ExecuteCommandLists" \notin hooked
      BY <1>12 DEF GetCommandQueue
    <2>2. AtWork("present", c, hooked) /\ thread["present"].at # "jump"
      BY <2>1 DEF AtWork, At, AtRest, Placing, WorksOn
    <2>3. c \in States /\ c.at \notin Placing \ {"follow"}
      BY UnusedIsBlock DEF States, At, Placing, Function
    <2> HIDE DEF c
    <2> QED BY <1>3, <1>5, <2>1, <2>2, <2>3
  <1>13. CASE \E p \in Parties, f \in Function : PartyHooks(p, f)
    BY <1>13, PartyStep DEF IInv
  <1>14. CASE UNCHANGED vars
    BY <1>2, <1>14 DEF vars
  <1> QED BY <1>6, <1>7, <1>8, <1>9, <1>10, <1>11, <1>12, <1>13, <1>14 DEF Next

\* A function nobody tears is called through a whole chain, or one that goes astray.
LEMMA CallableReached ==
  ASSUME SoundNow, NEW f \in Callable
  PROVE  Reaches(memory, f, Interested(f), astray)
  <1> DEFINE R == RegionOf(hooked, hooks, f)
             who == InterestedOf(hooked, hooks, f)
             end == EndOf(astray, f)
  <1>1. Sound(memory, hooked, hooks, astray, thread, Settled)
    BY DEF SoundNow
  <1>2. f \in Function /\ \A t \in Thread : thread[t].at = "jump" => thread[t].f # f
    BY DEF Callable
  <1>3. \A a \in R : memory[a] = Settled[a]
    BY <1>1, <1>2, RegionWhole
  <1>4. R \in SUBSET Address /\ Chained(Settled, R, f, who, end) /\ GoesOn(memory)
    BY <1>1, <1>2, RegionsApart DEF Sound, AllChained, Types, GoesOn, Block, Torn
  <1>5. Nothing \notin who
    BY RunnersDiffer DEF InterestedOf
  <1>6. who = Interested(f)
    BY DEF Interested, InterestedOf
  <1> HIDE DEF R, who, end
  <1>7. Chained(memory, R, f, who, end)
    BY <1>2, <1>3, <1>4, SameChains
  <1>8. Reaches(memory, f, who, astray)
    BY <1>2, <1>4, <1>5, <1>7, ChainedReaches DEF end
  <1> QED BY <1>6, <1>8

\* A frame runs into the renderer only after Present is hooked.
LEMMA RunsModIsHooked ==
  ASSUME SoundNow, RunsMod("Present")
  PROVE  "Present" \in hooked
  <1>1. Reaches(memory, "Present", Interested("Present"), astray)
    BY CallableReached DEF RunsMod
  <1>2. Mod \in Interested("Present")
    BY <1>1 DEF Reaches, RunsMod
  <1> QED BY <1>2, RunnersDiffer DEF Interested

LEMMA RestIs == AtRest.at = "rest"
  BY DEF AtRest, At

\* Placing a hook is all that a thread does meanwhile.
LEMMA PlacesHookGoes ==
  ASSUME thread \in [Thread -> States], NEW t \in Thread, PlacesHook(t)
  PROVE  /\ thread[t].at \in Placing
         /\ \A u \in Thread : u # t => thread'[u] = thread[u]
         /\ thread'[t].at # "register"
         /\ UNCHANGED <<settingsVars, running, rendererVars>>
         /\ hooked' = hooked \/ hooked' = hooked \cup {thread[t].f}
  <1> DEFINE Goal == /\ thread[t].at \in Placing
                     /\ \A u \in Thread : u # t => thread'[u] = thread[u]
                     /\ thread'[t].at # "register"
                     /\ UNCHANGED <<settingsVars, running, rendererVars>>
                     /\ hooked' = hooked \/ hooked' = hooked \cup {thread[t].f}
  <1>1. ASSUME NEW c, c.at # "register", Goes(t, c)
        PROVE  /\ \A u \in Thread : u # t => thread'[u] = thread[u]
               /\ thread'[t].at # "register"
    BY <1>1 DEF Goes
  <1>2. CASE FollowsJumps(t)
    <2> DEFINE c == At("copy", thread[t].f, AddressToHook(memory, thread[t].f))
    <2>1. c.at # "register"
      BY DEF At
    <2>2. Goes(t, c) /\ thread[t].at = "follow" /\ UNCHANGED chainVars /\ Keeps
      BY <1>2 DEF FollowsJumps
    <2> HIDE DEF c
    <2> QED BY <1>1, <2>1, <2>2 DEF Keeps, chainVars, Placing
  <1>3. ASSUME NEW step \in Placing, NEW c, c.at # "register", NEW a, NEW b, Stores(t, step, c, a, b)
        PROVE  Goal
    BY <1>1, <1>3 DEF Stores, Keeps
  <1>4. ASSUME NEW next \in Placing
        PROVE  /\ [thread[t] EXCEPT !.at = next].at # "register"
               /\ \A b : [thread[t] EXCEPT !.at = next, !.was = b].at # "register"
    BY DEF States, Placing
  <1>5. {"copy", "detour", "back", "return", "tear", "jump"} \subseteq Placing
    BY DEF Placing
  <1>6. CASE CopiesDisplaced(t)
    BY <1>3, <1>4, <1>5, <1>6 DEF CopiesDisplaced
  <1>7. CASE PlacesDetour(t)
    BY <1>3, <1>4, <1>5, <1>7 DEF PlacesDetour
  <1>8. CASE PlacesBack(t)
    BY <1>3, <1>4, <1>5, <1>8 DEF PlacesBack
  <1>9. CASE SetsReturn(t)
    BY <1>3, <1>4, <1>5, <1>9 DEF SetsReturn
  <1>10. CASE TearsEntry(t)
    BY <1>3, <1>4, <1>5, <1>10 DEF TearsEntry
  <1>11. CASE PlacesJump(t)
    <2>1. AfterHook(thread[t].f).at # "register"
      BY RestIs DEF AfterHook, At
    <2> QED BY <1>1, <1>5, <1>11, <2>1 DEF PlacesJump, Keeps
  <1> QED BY <1>2, <1>6, <1>7, <1>8, <1>9, <1>10, <1>11 DEF PlacesHook

\* In what order the hook thread gets to its hooks.
LEMMA RegisterStep ==
  ASSUME IInv, [Next]_vars, SoundNow'
  PROVE  RegisterInv'
  <1>1. /\ RegisterInv /\ TypeOK /\ \A t \in Thread : AtWork(t, thread[t], hooked)
        /\ thread \in [Thread -> States]
    BY DEF IInv, SoundNow, Sound, Types
  <1>2. "hook" \in Thread /\ "present" \in Thread
    BY DEF Thread
  <1>3. CASE UserEdits
    BY <1>1, <1>3 DEF UserEdits, UserWrites, RegisterInv, chainVars, rendererVars
  <1>4. CASE OnAttach
    <2>1. /\ hooked' = {} /\ renderCallbacks' = {} /\ running'
          /\ thread = [t \in Thread |-> AtRest]
      BY <1>1, <1>4 DEF OnAttach, RegisterInv, chainVars, rendererVars
    <2>2. thread'["hook"].at \in {"rest", "register"}
          /\ (thread'["hook"].at = "register" => HookDirectX \in enabled')
      BY <1>1, <1>2, <1>4, <2>1 DEF OnAttach, At, AtRest
    <2> QED BY <2>1, <2>2 DEF RegisterInv, Placing
  <1>5. CASE Exit
    BY <1>1, <1>2, <1>5, RestIs DEF Exit, NewProcess, RegisterInv, Placing, settingsVars
  <1>6. ASSUME NEW o \in Overlays, AddRenderCallback(o) PROVE RegisterInv'
    <2>1. running
      BY <1>1, <1>2, <1>6, RestIs DEF AddRenderCallback, RegisterInv
    <2> QED BY <1>1, <1>2, <1>6, <2>1
            DEF AddRenderCallback, RegisterInv, chainVars, settingsVars, Placing
  <1>7. CASE Hook
    <2>1. running
      BY <1>1, <1>2, <1>7, RestIs DEF Hook, RegisterInv
    <2>2. thread'["hook"].at = "follow"
      BY <1>1, <1>2, <1>7 DEF Hook, Goes, At
    <2> QED BY <1>1, <1>2, <1>7, <2>1, <2>2
            DEF Hook, HasRegistered, RegisterInv, chainVars, settingsVars, Placing
  <1>8. ASSUME NEW t \in Thread, PlacesHook(t) PROVE RegisterInv'
    <2>1. /\ thread[t].at \in Placing
          /\ \A u \in Thread : u # t => thread'[u] = thread[u]
          /\ thread'[t].at # "register"
          /\ UNCHANGED <<settingsVars, running, rendererVars>>
      BY <1>1, <1>8, PlacesHookGoes
    <2>2. hooked' = hooked \/ hooked' = hooked \cup {thread[t].f}
      BY <1>1, <1>8, PlacesHookGoes
    <2>3. running
      BY <1>1, <2>1, RestIs DEF RegisterInv, Placing
    <2>4. "Present" \in hooked' => "Present" \in hooked \/ t = "hook"
      BY <1>1, <2>1, <2>2 DEF AtWork, WorksOn
    <2>5. thread'["hook"].at \in Placing => thread["hook"].at \in Placing
      BY <1>2, <2>1
    <2>6. thread'["hook"].at # "register" \/ thread["hook"].at = "register"
      BY <1>2, <2>1
    <2> QED BY <1>1, <2>1, <2>3, <2>4, <2>5, <2>6 DEF RegisterInv, settingsVars, rendererVars
  <1>9. CASE GetCommandQueue
    <2>1. running
      <3>1. "Present" \in hooked
        BY <1>9, RunsModIsHooked DEF GetCommandQueue, IInv
      <3> QED BY <3>1, <1>1 DEF RegisterInv
    <2> QED BY <1>1, <1>2, <1>9, <2>1
            DEF GetCommandQueue, Goes, RegisterInv, chainVars, settingsVars, rendererVars
  <1>10. CASE \E p \in Parties, f \in Function : PartyHooks(p, f)
    BY <1>1, <1>10, ChainOperators
       DEF PartyHooks, Chain!PartyHooks, RegisterInv, settingsVars, rendererVars
  <1>11. CASE UNCHANGED vars
    BY <1>1, <1>11 DEF vars, chainVars, settingsVars, rendererVars, RegisterInv
  <1> QED BY <1>3, <1>4, <1>5, <1>6, <1>7, <1>8, <1>9, <1>10, <1>11 DEF Next

\* Placing a hook writes no settings; it may lose jumps, and its function go astray.
LEMMA PlacesHookKeeps ==
  ASSUME NEW t \in Thread, PlacesHook(t)
  PROVE  /\ Keeps
         /\ lost' = lost \/ \E some : lost' = lost \cup (some \cap Recognised)
         /\ \/ astray' = astray
            \/ thread[t].at = "jump" /\ astray' \subseteq astray \cup {thread[t].f}
  <1>1. CASE FollowsJumps(t)
    BY <1>1 DEF FollowsJumps, chainVars
  <1>2. ASSUME NEW step, NEW next, NEW a, NEW b, Stores(t, step, next, a, b)
        PROVE  Keeps /\ lost' = lost /\ astray' = astray
    BY <1>2 DEF Stores
  <1>3. CASE CopiesDisplaced(t)
    BY <1>2, <1>3 DEF CopiesDisplaced
  <1>4. CASE PlacesDetour(t)
    BY <1>2, <1>4 DEF PlacesDetour
  <1>5. CASE PlacesBack(t)
    BY <1>2, <1>5 DEF PlacesBack
  <1>6. CASE SetsReturn(t)
    BY <1>2, <1>6 DEF SetsReturn
  <1>7. CASE TearsEntry(t)
    BY <1>2, <1>7 DEF TearsEntry
  <1>8. CASE PlacesJump(t)
    BY <1>8 DEF PlacesJump
  <1> QED BY <1>1, <1>3, <1>4, <1>5, <1>6, <1>7, <1>8 DEF PlacesHook

\* Who writes the settings, and who starts and ends a process.
LEMMA SettingsWritten ==
  ASSUME [Next]_vars
  PROVE  UserEdits \/ OnAttach \/ Exit \/ UNCHANGED <<settingsVars, running>>
  <1>1. ASSUME NEW o \in Overlays, AddRenderCallback(o)
        PROVE  UNCHANGED <<settingsVars, running>>
    BY <1>1 DEF AddRenderCallback
  <1>2. Hook => UNCHANGED <<settingsVars, running>>
    BY DEF Hook
  <1>3. ASSUME NEW t \in Thread, PlacesHook(t) PROVE UNCHANGED <<settingsVars, running>>
    BY <1>3, PlacesHookKeeps DEF Keeps
  <1>4. GetCommandQueue => UNCHANGED <<settingsVars, running>>
    BY DEF GetCommandQueue
  <1>5. ASSUME NEW p \in Parties, NEW f \in Function, PartyHooks(p, f)
        PROVE  UNCHANGED <<settingsVars, running>>
    BY <1>5 DEF PartyHooks
  <1>6. UNCHANGED vars => UNCHANGED <<settingsVars, running>>
    BY DEF vars
  <1> QED BY <1>1, <1>2, <1>3, <1>4, <1>5, <1>6 DEF Next

\* The settings a process uses are what was wished and could be read.
LEMMA SettingsStep ==
  ASSUME IInv, [Next]_vars
  PROVE  SettingsInv'
  <1>1. SettingsInv /\ SettingsTypeOK
    BY DEF IInv, TypeOK
  <1>2. Absent \notin Value /\ Default \in Value /\ Switches \subseteq Key
    BY DEF Absent, Value, Default, Key
  <1>3. CASE UserEdits
    <2>1. PICK k \in Key, v \in Value \cup {Absent} : UserWrites(k, v)
      BY <1>3 DEF UserEdits
    <2>2. ~running /\ running' = running
      BY <1>3 DEF UserEdits
    <2>3. /\ \A i \in Key : file'[i] = IF i = k THEN v ELSE file[i]
          /\ \A i \in Key : wish'[i] = IF i = k THEN (IF v = Absent THEN Default ELSE v) ELSE wish[i]
      BY <1>1, <2>1 DEF UserWrites, SettingsTypeOK
    <2> QED BY <1>1, <2>2, <2>3 DEF SettingsInv
  <1>4. CASE OnAttach
    <2>1. /\ \A k \in Key : file'[k] = IF file[k] = Absent THEN Default ELSE file[k]
          /\ enabled' = {s \in Switches : file'[s] = "good"}
          /\ wish' = wish
      BY <1>4 DEF OnAttach, ParseFPSIni, IniParseLine
    <2>2. \A k \in Key : file'[k] = wish[k]
      BY <1>1, <2>1 DEF SettingsInv
    <2>3. \A k \in Key : wish[k] \in Value
      BY <1>1 DEF SettingsTypeOK
    <2>4. \A k \in Key : wish'[k] = IF file'[k] = Absent THEN Default ELSE file'[k]
      BY <1>2, <2>1, <2>2, <2>3
    <2>5. enabled' = {s \in Switches : wish'[s] = "good"}
      BY <1>2, <2>1, <2>2
    <2> QED BY <2>4, <2>5 DEF SettingsInv
  <1>5. CASE Exit
    BY <1>1, <1>5 DEF Exit, SettingsInv, settingsVars
  <1>6. CASE UNCHANGED <<settingsVars, running>>
    BY <1>1, <1>6 DEF SettingsInv, settingsVars
  <1>7. \/ UserEdits \/ OnAttach \/ Exit \/ UNCHANGED <<settingsVars, running>>
    BY SettingsWritten
  <1> QED BY <1>3, <1>4, <1>5, <1>6, <1>7

\* Types are kept by every step.
LEMMA TypeStep ==
  ASSUME IInv, [Next]_vars, SoundNow'
  PROVE  TypeOK'
  <1>1. TypeOK
    BY DEF IInv
  <1>2. /\ memory' \in [Address -> Block \cup {Torn}] /\ hooked' \subseteq Function
        /\ hooks' \in [Parties -> Function \cup {NoFunction}] /\ thread' \in [Thread -> States]
    BY DEF SoundNow, Sound, Types
  <1>3. SettingsTypeOK'
    <2>1. CASE UserEdits
      <3>1. PICK k \in Key, v \in Value \cup {Absent} : UserWrites(k, v)
        BY <2>1 DEF UserEdits
      <3>2. Default \in Value
        BY DEF Default, Value
      <3> QED BY <1>1, <3>1, <3>2 DEF UserWrites, TypeOK, SettingsTypeOK
    <2>2. CASE OnAttach
      <3>1. \A k \in Key : IniParseLine(file[k]) \in Value
        BY <1>1 DEF TypeOK, SettingsTypeOK, IniParseLine, Default, Value, Absent
      <3>2. /\ file' = [k \in Key |-> IniParseLine(file[k])]
            /\ enabled' \subseteq Switches /\ wish' = wish
        BY <2>2 DEF OnAttach, ParseFPSIni
      <3> QED BY <1>1, <3>1, <3>2 DEF TypeOK, SettingsTypeOK
    <2>3. CASE UNCHANGED settingsVars
      BY <1>1, <2>3 DEF TypeOK, SettingsTypeOK, settingsVars
    <2>4. \/ UserEdits \/ OnAttach \/ UNCHANGED settingsVars
      BY SettingsWritten DEF Exit
    <2> QED BY <2>1, <2>2, <2>3, <2>4
  <1>4. /\ lost' \subseteq Recognised /\ astray' \subseteq Function /\ running' \in BOOLEAN /\ renderCallbacks' \subseteq Overlays
        /\ callbackGetCommandQueue' \in BOOLEAN
    <2> DEFINE Typed == /\ lost' \subseteq Recognised /\ astray' \subseteq Function
                        /\ running' \in BOOLEAN
                        /\ renderCallbacks' \subseteq Overlays
                        /\ callbackGetCommandQueue' \in BOOLEAN
    <2>1. /\ lost \subseteq Recognised /\ astray \subseteq Function /\ running \in BOOLEAN /\ renderCallbacks \subseteq Overlays
          /\ callbackGetCommandQueue \in BOOLEAN
      BY <1>1 DEF TypeOK
    <2>2. CASE UserEdits
      BY <2>1, <2>2 DEF UserEdits, chainVars, rendererVars
    <2>3. CASE OnAttach
      BY <2>1, <2>3 DEF OnAttach, chainVars, rendererVars
    <2>4. CASE Exit
      BY <2>4 DEF Exit, NewProcess
    <2>5. ASSUME NEW o \in Overlays, AddRenderCallback(o) PROVE Typed
      BY <2>1, <2>5 DEF AddRenderCallback, chainVars
    <2>6. CASE Hook
      BY <2>1, <2>6 DEF Hook, chainVars
    <2>7. ASSUME NEW t \in Thread, PlacesHook(t) PROVE Typed
      <3>1. thread[t].at = "jump" => thread[t].f \in Function
        <4>1. Sound(memory, hooked, hooks, astray, thread, Settled)
          BY DEF IInv, SoundNow
        <4>2. thread[t].at = "jump" => thread[t].at \in Placing
          BY DEF Placing
        <4> QED BY ONLY t \in Thread, <4>1, <4>2, AtWorkApart
      <3> QED BY <2>1, <2>7, <3>1, PlacesHookKeeps DEF Keeps, rendererVars
    <2>8. CASE GetCommandQueue
      BY <2>1, <2>8 DEF GetCommandQueue, chainVars, rendererVars
    <2>9. ASSUME NEW p \in Parties, NEW f \in Function, PartyHooks(p, f) PROVE Typed
      BY <2>1, <2>9 DEF PartyHooks, Chain!PartyHooks, rendererVars
    <2>10. CASE UNCHANGED vars
      BY <2>1, <2>10 DEF vars, chainVars, rendererVars
    <2> QED BY <2>2, <2>3, <2>4, <2>5, <2>6, <2>7, <2>8, <2>9, <2>10 DEF Next
  <1> QED BY <1>2, <1>3, <1>4 DEF TypeOK, States

\* The initial states.
LEMMA Initially == Init => IInv /\ Abstract!Init
  <1> SUFFICES ASSUME Init PROVE IInv /\ Abstract!Init
    OBVIOUS
  <1>1. SoundNow /\ Abstract!Init
    BY InitSound
  <1>2. SettingsInv
    BY DEF Init, SettingsInit, SettingsInv
  <1>3. RegisterInv
    BY RestIs DEF Init, RegisterInv, Thread, Placing
  <1>4. TypeOK
    <2>1. /\ memory \in [Address -> Block \cup {Torn}] /\ hooked \subseteq Function
          /\ hooks \in [Parties -> Function \cup {NoFunction}] /\ thread \in [Thread -> States]
      BY <1>1 DEF SoundNow, Sound, Types
    <2>2. SettingsTypeOK
      BY DEF Init, SettingsInit, SettingsTypeOK, Default, Value
    <2> QED BY <2>1, <2>2 DEF TypeOK, States, Init
  <1> QED BY <1>1, <1>2, <1>3, <1>4 DEF IInv

\* All steps.
LEMMA Inductively == IInv /\ [Next]_vars => IInv' /\ Abstractly
  <1> SUFFICES ASSUME IInv, [Next]_vars PROVE IInv' /\ Abstractly
    OBVIOUS
  <1>1. SoundNow' /\ Abstractly
    BY StepSound
  <1>2. SettingsInv' /\ RegisterInv' /\ TypeOK'
    BY <1>1, SettingsStep, RegisterStep, TypeStep
  <1> QED BY <1>1, <1>2 DEF IInv

\* IInv holds in every state, for all other overlays.
THEOREM InductiveInvariant == Spec => []IInv
  BY Initially, Inductively, PTL DEF Spec

\* The types: whatever the other overlays are and do, no thread's state and no
\* block in memory is other than TypeOK says.
THEOREM StartupTypeCorrect == Spec => []TypeOK
  <1>1. IInv => TypeOK
    BY DEF IInv
  <1> QED BY <1>1, InductiveInvariant, PTL

\* Whatever other overlays there are, with jumps of any kind, at or behind the jumps
\* they find: a call of a function runs everybody who hooked it once and comes
\* back to its caller, but for one whose unrecognised jump PlaceHook moved, or that
\* a party put a longer jump into than an earlier one made room for.
THEOREM CallsAlwaysReach == Spec => []CallsReach
  <1>1. ASSUME IInv PROVE CallsReach
    <2>1. ASSUME NEW f \in Callable PROVE Reaches(memory, f, Interested(f), astray)
      BY <1>1, CallableReached DEF IInv
    <2> QED BY <2>1 DEF CallsReach, Reaches
  <1> QED BY <1>1, InductiveInvariant, PTL

\* Frames that run into the renderer find the overlays the settings ask for.
THEOREM DrawsAsAsked == Spec => []DrawsWhatWasAsked
  <1>1. ASSUME IInv, RunsMod("Present")
        PROVE  /\ renderCallbacks = {o \in Overlays : wish[o] = "good"}
               /\ wish[HookDirectX] = "good"
               /\ callbackGetCommandQueue
    <2>1. "Present" \in hooked
      BY <1>1, RunsModIsHooked DEF IInv
    <2>2. /\ HookDirectX \in enabled /\ callbackGetCommandQueue
          /\ renderCallbacks = enabled \cap Overlays /\ running
      BY <1>1, <2>1 DEF IInv, RegisterInv
    <2>3. enabled = {s \in Switches : wish[s] = "good"}
      BY <1>1, <2>2 DEF IInv, SettingsInv
    <2> QED BY <2>2, <2>3 DEF Switches
  <1>2. IInv => DrawsWhatWasAsked
    BY <1>1 DEF DrawsWhatWasAsked
  <1> QED BY <1>2, InductiveInvariant, PTL

\* The stores of PlaceHook amount to hooks placed in one step: at the last of
\* them the hook is placed where the jumps end at that time, and the others
\* change nothing a call can run into.
THEOREM StartupImplements == Spec => ImplementsPlaceHook
  <1>1. Init => Abstract!Init
    BY Initially
  <1>2. IInv /\ [Next]_vars => [Abstract!Next]_(Abstract!vars)
    BY Inductively DEF Abstractly
  <1> QED BY <1>1, <1>2, InductiveInvariant, PTL DEF Spec, ImplementsPlaceHook, Abstract!Spec
=============================================================================
