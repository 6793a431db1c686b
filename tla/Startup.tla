------------------------------- MODULE Startup -------------------------------
(***************************************************************************)
(* How the overlays come to be drawn: the game loads the mod, which reads  *)
(* its settings and starts a hook thread; that registers the overlays and  *)
(* hooks Present and ResizeBuffers.  The presenting thread, once it runs   *)
(* into the mod, hooks ExecuteCommandLists, maybe while the hook thread is *)
(* still at work.  Other overlays hook the same functions in between.      *)
(*                                                                         *)
(* PlaceHook is modelled store by store.  While its jump is being written  *)
(* the block it goes to is torn: nobody may call the function meanwhile,   *)
(* which the game is not kept from doing.  Parties hook no function that   *)
(* the mod is at work on.                                                  *)
(***************************************************************************)
EXTENDS HookChain, Settings

VARIABLES
  memory, hooked, hooks, lost, astray,   \* as in PlaceHook, memory with torn blocks
  running,            \* the game runs
  renderCallbacks,    \* the overlays the renderer knows
  callbackGetCommandQueue,   \* the renderer knows how to have submissions hooked
  thread              \* where a thread is, the function it hooks, where, and
                      \* hookInfo.originalBytes: what was there

chainVars == <<memory, hooked, hooks, lost, astray>>
rendererVars == <<renderCallbacks, callbackGetCommandQueue>>
vars == <<chainVars, settingsVars, running, rendererVars, thread>>

Thread == {"hook", "present"}
NoFunction == "none"
Placing == {"follow", "copy", "detour", "back", "return", "tear", "jump"}
At(step, f, a) == [at |-> step, f |-> f, a |-> a, was |-> Unused]
AtRest == At("rest", NoFunction, Caller)

Torn == [jump |-> "torn", runs |-> Nothing, next |-> Wild]

TypeOK ==
  /\ SettingsTypeOK
  /\ memory \in [Address -> Block \cup {Torn}]
  /\ hooked \subseteq Function
  /\ hooks \in [Parties -> Function \cup {NoFunction}]
  /\ lost \subseteq Recognised
  /\ astray \subseteq Function
  /\ running \in BOOLEAN
  /\ renderCallbacks \subseteq Overlays
  /\ callbackGetCommandQueue \in BOOLEAN
  /\ thread \in [Thread -> [at : Placing \cup {"rest", "register"},
                            f : Function \cup {NoFunction},
                            a : Address \cup {Caller},
                            was : Block]]

NewProcess ==
  /\ memory' = Unhooked
  /\ hooked' = {}
  /\ hooks' = [p \in Parties |-> NoFunction]
  /\ lost' = {}
  /\ astray' = {}
  /\ renderCallbacks' = {}
  /\ callbackGetCommandQueue' = FALSE

Init ==
  /\ SettingsInit
  /\ memory = Unhooked
  /\ hooked = {}
  /\ hooks = [p \in Parties |-> NoFunction]
  /\ lost = {}
  /\ astray = {}
  /\ running = FALSE
  /\ renderCallbacks = {}
  /\ callbackGetCommandQueue = FALSE
  /\ thread = [t \in Thread |-> AtRest]

-----------------------------------------------------------------------------
UserEdits ==
  /\ ~running
  /\ \E k \in Key, v \in Value \cup {Absent} : v # file[k] /\ UserWrites(k, v)
  /\ UNCHANGED <<chainVars, running, rendererVars, thread>>

\* The game loads the mod.  What InitERFPS does to the game's own code in
\* between has no part in this.
OnAttach ==
  /\ ~running
  /\ ParseFPSIni
  /\ running' = TRUE
  /\ thread' = IF HookDirectX \in enabled'
               THEN [thread EXCEPT !["hook"] = At("register", NoFunction, Caller)]
               ELSE thread
  /\ UNCHANGED <<chainVars, rendererVars>>

\* The player leaves, or the process dies: no memory near a function for its
\* trampoline is one reason.
Exit ==
  /\ running
  /\ running' = FALSE
  /\ NewProcess
  /\ thread' = [t \in Thread |-> AtRest]
  /\ UNCHANGED settingsVars

Goes(t, where) == thread' = [thread EXCEPT ![t] = where]

\* The overlays that are switched on, one by one.
AddRenderCallback(o) ==
  /\ thread["hook"].at = "register"
  /\ o \in enabled \ renderCallbacks
  /\ renderCallbacks' = renderCallbacks \cup {o}
  /\ UNCHANGED <<chainVars, settingsVars, running, callbackGetCommandQueue, thread>>

\* MUTANT of HasRegistered: the hook thread does not wait with its hooks.
HasRegisteredNone(callbacks) == TRUE

HasRegistered(callbacks) == enabled \cap Overlays \subseteq callbacks

Hook ==
  /\ thread["hook"].at = "register"
  /\ HasRegistered(renderCallbacks)
  /\ callbackGetCommandQueue' = TRUE
  /\ Goes("hook", At("follow", "Present", Caller))
  /\ UNCHANGED <<chainVars, settingsVars, running, renderCallbacks>>

-----------------------------------------------------------------------------
(* PlaceHook, by a thread t that has reached a step.                       *)

Keeps == UNCHANGED <<settingsVars, running, rendererVars>>

FollowsJumps(t) ==
  /\ thread[t].at = "follow"
  /\ Goes(t, At("copy", thread[t].f, AddressToHook(memory, thread[t].f)))
  /\ UNCHANGED chainVars /\ Keeps

\* Stores a block and goes on with the next step.
Stores(t, step, next, a, b) ==
  /\ thread[t].at = step
  /\ memory' = [memory EXCEPT ![a] = b]
  /\ Goes(t, next)
  /\ UNCHANGED <<hooked, hooks, lost, astray>> /\ Keeps

\* The trampoline is allocated as padding, in reach of what leads to it.
CopiesDisplaced(t) ==
  LET c == thread[t]
  IN  Stores(t, "copy", [c EXCEPT !.at = "detour", !.was = memory[c.a]],
             Copy(c.f), Moved(memory[c.a]))

PlacesDetour(t) ==
  LET c == thread[t]
  IN  Stores(t, "detour", [c EXCEPT !.at = "back"],
             Protection(c.f), Runs(Nothing, Detour(c.f)))

\* Back to addressToHook + clearance; behind a jump that was copied this one is
\* never reached.
PlacesBack(t) ==
  LET c == thread[t]
  IN  Stores(t, "back", [c EXCEPT !.at = "return"],
             Copy(c.f), Returning(memory[Copy(c.f)], c.a))

\* MUTANT of ReturnsTo: the return address is left unset.
ReturnsToNull(f) == Nothing

ReturnsTo(f) == Copy(f)

\* *returnAddress: where the mod's function goes on.
SetsReturn(t) ==
  LET c == thread[t]
  IN  Stores(t, "return", [c EXCEPT !.at = "tear"],
             Detour(c.f), Runs(Mod, ReturnsTo(c.f)))

\* The first two of PlaceRelativeJump's stores: padding, and a jump whose
\* distance is still zero.
TearsEntry(t) ==
  LET c == thread[t]
  IN  Stores(t, "tear", [c EXCEPT !.at = "jump"], c.a, Torn)

\* After Present comes ResizeBuffers; the other two are the last of a thread.
AfterHook(f) ==
  IF f = "Present" THEN At("follow", "ResizeBuffers", Caller) ELSE AtRest

\* MUTANT of JumpsTo: past the room for other hooks.
JumpsToDetour(f) == Detour(f)

JumpsTo(f) == Protection(f)

\* The last one: the distance.
PlacesJump(t) ==
  LET c == thread[t]
  IN  /\ c.at = "jump"
      /\ memory' = [memory EXCEPT ![c.a] = Jump("relative", JumpsTo(c.f))]
      /\ hooked' = hooked \cup {c.f}
      /\ lost' = lost \cup ({c.was.jump} \cap Recognised)
      /\ astray' = astray \cup {f \in {c.f} : c.was.jump = "unrecognised"}
      /\ Goes(t, AfterHook(c.f))
      /\ UNCHANGED hooks /\ Keeps

PlacesHook(t) ==
  \/ FollowsJumps(t)
  \/ CopiesDisplaced(t)
  \/ PlacesDetour(t)
  \/ PlacesBack(t)
  \/ SetsReturn(t)
  \/ TearsEntry(t)
  \/ PlacesJump(t)

-----------------------------------------------------------------------------
\* A function whose jump is being written cannot be called.
Callable == {f \in Function : \A t \in Thread : thread[t].at = "jump" => thread[t].f # f}

RunsMod(f) == f \in Callable /\ Mod \in Runners(memory, f)

\* A frame has run into the renderer, which has no queue yet: with Direct3D 12
\* it calls back for one, once.
GetCommandQueue ==
  /\ thread["present"] = AtRest
  /\ RunsMod("Present")
  /\ callbackGetCommandQueue
  /\ "ExecuteCommandLists" \notin hooked
  /\ Goes("present", At("follow", "ExecuteCommandLists", Caller))
  /\ UNCHANGED <<chainVars, settingsVars, running, rendererVars>>

Chain == INSTANCE PlaceHook

PartyHooks(p, f) ==
  /\ running
  /\ \A t \in Thread : thread[t].f # f
  /\ Chain!PartyHooks(p, f)
  /\ UNCHANGED <<settingsVars, running, rendererVars, thread>>

Next ==
  \/ UserEdits
  \/ OnAttach
  \/ Exit
  \/ \E o \in Overlays : AddRenderCallback(o)
  \/ Hook
  \/ \E t \in Thread : PlacesHook(t)
  \/ GetCommandQueue
  \/ \E p \in Parties, f \in Function : PartyHooks(p, f)

Spec == Init /\ [][Next]_vars

-----------------------------------------------------------------------------
\* The code interested in a function: the overlays that hooked it, the mod, and
\* in the end its own.
Interested(f) ==
  {p \in Parties : hooks[p] = f} \cup {m \in {Mod} : f \in hooked} \cup {Game}

\* A call of a function runs everybody who hooked it once, in whatever order they
\* came, and then comes back through the function's own code, also while two
\* threads are building trampolines: PlaceHook drops nobody out of the chain,
\* runs nobody twice, leads no call into a trampoline that is not finished, and
\* none back into code that an earlier jump has overwritten.  A call does not
\* come back where PlaceHook moved a jump that it does not recognise, or where a
\* party put a jump over an earlier one, of the mod's or a party's, that is
\* longer than the instructions which that one displaced, and only there.
CallsReach ==
  \A f \in Callable :
    LET passed == Passed(memory, f)
        blocks == passed \ {Caller}
    IN  /\ Caller \in passed <=> f \notin astray
        /\ f \notin astray =>
             /\ {memory[a].runs : a \in blocks} \ {Nothing} = Interested(f)
             /\ \A a, b \in blocks :
                  memory[a].runs = memory[b].runs => a = b \/ memory[a].runs = Nothing
             /\ \A a \in blocks : memory[a].next = Caller => memory[a].runs = Game

\* Once a frame can run into the renderer, it knows the overlays the user asked
\* for when the settings were last edited, those and no others, and how to have
\* submissions hooked: the hook thread registers them before it hooks Present,
\* and no start of the game has changed what the user wrote.
DrawsWhatWasAsked ==
  RunsMod("Present") =>
    /\ renderCallbacks = {o \in Overlays : wish[o] = "good"}
    /\ wish[HookDirectX] = "good"
    /\ callbackGetCommandQueue

Tearing(a) == CHOOSE t \in Thread : thread[t].at = "jump" /\ thread[t].a = a

\* A trampoline counts once the jump to it is whole; until then a torn block is
\* what it was.
Settled ==
  [a \in Address |->
    IF \E f \in Function \ hooked : a \in {Protection(f), Detour(f), Copy(f)}
    THEN Unused
    ELSE IF memory[a] = Torn
    THEN thread[Tearing(a)].was
    ELSE memory[a]]

Abstract == INSTANCE PlaceHook
              WITH memory <- Settled, hooked <- hooked, hooks <- hooks, lost <- lost,
                   astray <- astray

\* The stores of two threads that place hooks at once amount to hooks placed
\* one after another in one step each: nothing is copied or followed that
\* another one changes before the jump is written.
ImplementsPlaceHook == Abstract!Spec
=============================================================================
