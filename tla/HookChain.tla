----------------------------- MODULE HookChain ------------------------------
(***************************************************************************)
(* Hooked code as blocks of memory: a block runs something, or is a jump   *)
(* of some kind, and goes on at another block.  A far jump says where its  *)
(* target is, the others how far away, so a copy of one leads elsewhere.   *)
(*                                                                         *)
(* An address is named for what is there: the entry of a function, the     *)
(* code behind the instructions that a jump at the entry displaces, a part *)
(* of the trampoline the mod allocates, and the same of what another       *)
(* overlay, a party, allocates for the one function it hooks.              *)
(***************************************************************************)
EXTENDS FiniteSets, Integers

CONSTANTS
  Parties,        \* other overlays
  Game, Mod,      \* what a function's own code and the mod's run
  Nothing,        \* what a jump, and padding, runs
  Caller,         \* where a function returns to
  Wild,           \* where nothing is
  Clearance,      \* bytes of whole instructions that a jump of each kind
                  \* displaces at each entry
  UnknownLength   \* bytes of a jump that IsAddressHooked does not recognise: six
                  \* of FF 25 with a displacement, two of EB

Function == {"Present", "ResizeBuffers", "ExecuteCommandLists"}
Entry(x) == <<x, "entry">>

\* IsAddressHooked recognises three kinds of jumps.  It takes the others, an
\* indirect jump without the prefix or a short one, for code like any other.
Recognised == {"relative", "indirect", "far"}

\* MUTANT of Followed: an indirect jump is taken for one that works anywhere.
FollowedRelative == {"relative"}

Followed == {"relative", "indirect"}
Jumps == Recognised \cup {"unrecognised"}

\* The bytes a jump overwrites.
Length == [relative |-> 5, unrecognised |-> UnknownLength, indirect |-> 7, far |-> 14]

\* What follows the instructions that a jump of a kind displaces at an entry:
\* there a copy of them jumps back to.
Behind(a, kind) == <<a[1], kind>>
Code(x) == {Entry(x)} \cup {Behind(Entry(x), kind) : kind \in Jumps}

\* The trampoline: room for other hooks, the jump to the mod's function
\* together with that function, and the instructions displaced.
Protection(f) == <<f, "protection">>
Detour(f) == <<f, "detour">>
Copy(x) == <<x, "copy">>

Address == Function \X ({"entry", "protection", "detour", "copy"} \cup Jumps)
             \cup Parties \X ({"entry", "copy"} \cup Jumps)

\* Where hooks place their jumps.
Heads == {Entry(x) : x \in Function \cup Parties} \cup {Protection(f) : f \in Function}

\* How many jumps PlaceHook follows before it gives up.
MaxFollowAttempts == 50

\* PlaceHook gets to the end of the jumps it follows: were there more of them, it
\* could give up before and displace a jump whose target depends on its place.
ASSUME HookChainAssumption ==
  /\ IsFiniteSet(Parties)
  /\ Parties \cap {Game, Mod, Nothing} = {}
  /\ Parties \cap Function = {}
  /\ Cardinality({Game, Mod, Nothing}) = 3
  /\ Caller # Wild
  /\ Address \cap {Caller, Wild} = {}
  /\ Cardinality(Heads) < MaxFollowAttempts
  /\ UnknownLength \in Nat
  /\ Clearance \in [Function \cup Parties -> [Jumps -> Nat]]
  /\ \A x \in Function \cup Parties, kind \in Jumps : Clearance[x][kind] >= Length[kind]

Block == [jump : Jumps \cup {"none"}, runs : Parties \cup {Game, Mod, Nothing},
          next : Address \cup {Caller, Wild}]

Runs(what, next) == [jump |-> "none", runs |-> what, next |-> next]
Jump(kind, next) == [jump |-> kind, runs |-> Nothing, next |-> next]
Unused == Runs(Nothing, Wild)

\* No function is hooked; its own code runs from its entry or from behind it.
Unhooked ==
  [a \in Address |-> IF \E f \in Function : a \in Code(f)
                     THEN Runs(Game, Caller) ELSE Unused]

\* Where a call goes on after a.
NextOf(mem, a) == IF a \in Address THEN mem[a].next ELSE a

\* Where it is after n blocks.
Path(mem, a) ==
  LET path[n \in Nat] == IF n = 0 THEN a ELSE NextOf(mem, path[n - 1])
  IN  path

IsJump(mem, a, kinds) == a \in Address /\ mem[a].jump \in kinds

\* The address a chain of jumps of these kinds leads to from a.
End(mem, a, kinds) ==
  LET path == Path(mem, a)
      Stops(n) == n = MaxFollowAttempts \/ ~IsJump(mem, path[n], kinds)
  IN  path[CHOOSE n \in 0 .. MaxFollowAttempts :
             Stops(n) /\ \A m \in 0 .. n - 1 : ~Stops(m)]

\* A far jump is recognised but not followed, and ends the search after its 50
\* attempts.
AddressToHook(mem, f) == End(mem, Entry(f), Followed)

\* PlaceHook's copy of the block b at a: a far jump works anywhere, the others
\* lead from the copy to no one knows where, and code needs a jump back.
Moved(b) == IF b.jump = "far" THEN b ELSE [b EXCEPT !.runs = Nothing, !.next = Wild]
Returning(b, a) == IF b.jump = "none" THEN [b EXCEPT !.next = Behind(a, "relative")] ELSE b
Displaced(b, a) == Returning(Moved(b), a)

\* A party's copy of the block at a, where its jump of this kind goes.  It
\* adapts a jump, and there is room for any jump in what PlaceHook pads.
Taken(mem, a, kind) ==
  IF a = Entry(a[1]) /\ mem[a].jump = "none" THEN Runs(Nothing, Behind(a, kind)) ELSE mem[a]

\* What a jump at an entry overwrites where copies of fewer instructions, made
\* for a shorter jump, return to.
Overrun(a, kind) ==
  {Behind(a, k) : k \in {k \in Jumps : a = Entry(a[1]) /\ Clearance[a[1]][k] < Length[kind]}}

-----------------------------------------------------------------------------
\* The addresses a call of f passes.  One that comes back to its Caller passes
\* no block twice, so as many steps as there are blocks tell whether it does.
Passed(mem, f) ==
  LET path == Path(mem, Entry(f))
  IN  {path[n] : n \in 0 .. Cardinality(Address)}

\* Who a call of f runs.
Runners(mem, f) ==
  {mem[a].runs : a \in Passed(mem, f) \cap Address} \ {Nothing}
=============================================================================
