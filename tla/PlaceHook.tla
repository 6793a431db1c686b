----------------------------- MODULE PlaceHook ------------------------------
(***************************************************************************)
(* What PlaceHook promises among the hooks of other overlays: a hook is    *)
(* placed in one step, at the end of the jumps it follows.  A party        *)
(* overwrites the first block it finds, or follows jumps as the mod does,  *)
(* and keeps what it overwrote working.  Startup shows how the mod's       *)
(* threads place their hooks store by store, and implements this.          *)
(***************************************************************************)
EXTENDS HookChain

VARIABLES
  memory,    \* the blocks
  hooked,    \* functions the mod has hooked
  hooks,     \* history: the function each party hooked
  lost,      \* history: kinds of recognised jumps that the mod has overwritten
  astray     \* history: functions with a jump that PlaceHook moved and does not
             \* know for one, or that a party put over code others return to

vars == <<memory, hooked, hooks, lost, astray>>

NoFunction == "none"

Init ==
  /\ memory = Unhooked
  /\ hooked = {}
  /\ hooks = [p \in Parties |-> NoFunction]
  /\ lost = {}
  /\ astray = {}

PlaceHook(f) ==
  /\ f \notin hooked
  /\ hooked' = hooked \cup {f}
  /\ LET a == AddressToHook(memory, f)
     IN  /\ memory' = [memory EXCEPT
                        ![Protection(f)] = Runs(Nothing, Detour(f)),
                        ![Detour(f)] = Runs(Mod, Copy(f)),
                        ![Copy(f)] = Displaced(memory[a], a),
                        ![a] = Jump("relative", Protection(f))]
         /\ lost' = lost \cup ({memory[a].jump} \cap Recognised)
         /\ astray' = astray \cup {g \in {f} : memory[a].jump = "unrecognised"}
  /\ UNCHANGED hooks

\* Another overlay hooks f with a jump of some kind, at f or behind its jumps.
PartyHooks(p, f) ==
  /\ hooks[p] = NoFunction
  /\ hooks' = [hooks EXCEPT ![p] = f]
  /\ \E kind \in Jumps, a \in {Entry(f), End(memory, Entry(f), Jumps)} :
       /\ memory' = [b \in Address |->
                       CASE b \in Code(p) -> Runs(p, Copy(p))
                         [] b = Copy(p) -> Taken(memory, a, kind)
                         [] b = a -> Jump(kind, Entry(p))
                         [] b \in Overrun(a, kind) -> Unused
                         [] OTHER -> memory[b]]
       /\ astray' = astray \cup {g \in {f} : Overrun(a, kind) \cap Passed(memory, f) # {}}
  /\ UNCHANGED <<hooked, lost>>

\* The game ends, and another start finds every function as it was.
Exit ==
  /\ hooked' = {}
  /\ memory' = Unhooked
  /\ hooks' = [p \in Parties |-> NoFunction]
  /\ lost' = {}
  /\ astray' = {}

Next ==
  \/ \E f \in Function :
       \/ PlaceHook(f)
       \/ \E p \in Parties : PartyHooks(p, f)
  \/ Exit

Spec == Init /\ [][Next]_vars

-----------------------------------------------------------------------------
\* "Instead of overwriting jumps we follow them and place our jump at the final
\* destination": PlaceHook overwrites no jump of another overlay that it knows
\* for one.
OverwritesNoJump == lost = {}
=============================================================================
