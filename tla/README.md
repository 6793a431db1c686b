# A TLA+ model of erfps

erfps is a DLL that gives Elden Ring a first person camera. It has no main loop
of its own: it patches jumps into functions of the game, and everything it does
happens inside calls the game makes, on the game's update thread, plus a hook of
DirectX's `Present` that draws an overlay. The repository has no tests and its
README is a title, so everything below is read off the code.

The hard part of such a program is not any one function but the order in which
the game calls them: the camera can be taken by a cutscene, the target can
change, a character can be destroyed, a menu can open, in any order, with state
of the mod (and of the game, changed by the mod) left over from before.

## 1. Inventory

| Component | Code | State it keeps | Operations | What makes it correct |
|---|---|---|---|---|
| Perspective control | `camera/PerspectiveCtrl.cpp`, `camera/InitializeCamera.cpp`, hooks `camCode00`, `dtorStart`, `stateInfo` of `asm.cpp` | `isCamInit`, `isFPS`, `isFPS_prev`, `isMimic`, `isSpectate`, the target, the button's timers; in the game: event flag 92599, lock-on mode and the fields `CameraFPS` changes | `PerspectiveControl` (one call per frame), `InitializeCamera`, `DeinitializeCamera`, `CameraFPS`, `Camera3PS` | the saved preference is the view in use; third person leaves nothing of first person behind; the fields about the target agree; a press acts once; the camera comes back |
| Head camera frame | `camera/CameraCtrl.cpp`, hooks `hvkBone`, `chunkCode` | statics of the frame before: timers, the position, blends | `AttachToHead` for the head bone, once a frame in first person | overrides only while in first person; smoothing is a mean; nothing is measured across chunks; timers end; scans are paced |
| Player animation | `camera/TAE.cpp`, hook `playerTAE` | flags and sync timer of the current animation | `CheckPlayerTAE` | a report made in first person does not act in third person; no pose is followed and smoothed at once |
| Attack scan | tail of `AttachToHead`, hooks `regBullet`, `dstBullet`, `hitDetect`, `hitRegister`, `enemyTAE`, `CheckEnemyTAE` | `BulletIns`, `isGetChrAttack`, `enemyHitRBuf` with its lanes of seen addresses | capture, hit, report, frame | walks over the buffer stop; no enemy twice; no indicator for the wrong enemy |
| Attack indicators | `dxoverlay/AttackIndicator` | three slots shared by two threads | `DrawIndicator` (game), `UpdateAll` and `Render` (presenting thread) | one slot per enemy, own direction, slots given back |
| Height smoothing | `SmoothZ16`, `SmoothZ16Clear` | a mirrored ring of 16 floats | store and mean, clear | the mean of the last 16 heights |
| Memory protection | `DirectXHook/MemoryUtils.h`, `DirectXHook.cpp` | history of protections by address | `ToggleMemoryProtection`, `MemCopy`, `MemSet` | memory is open when used and closed afterwards |
| DirectX hooks | `MemoryUtils::PlaceHook`, `DirectXHook.cpp`, `HookMain.cpp` | patched code, trampolines, overlays registered | `HookThread`, `PlaceHook`, `GetCommandQueue` | a call runs everybody who hooked the function once and never meets a trampoline that is not finished; frames run into overlays that are all there |
| Game hooks | `asm.cpp` (`InitAsm`, `InjectAsm`), `Trampoline.h`, `AOB.cpp`, `dllmain.cpp` | patched code, near memory | find, allocate, patch | a jump never leads to missing code |
| Renderer | `DirectXHook/Renderer.cpp` | device, queue, buffers, overlays | `OnPresent`, `OnResizeBuffers`, `OnExecuteCommandLists` | nothing is drawn with released resources |
| Crosshair, aim assist | `dxoverlay/Crosshair`, `dxoverlay/Autoaim` | a few clamped timers | `Render` | fades end |
| Settings | `FPS_ini.cpp` | the ini file and its values | `ParseFPSIni` | what the user wrote survives every start, and a start does what it says |
| Menu texts, console, pointers, vectors | `MsgRepoPatch.cpp`, `Console.cpp`, `Pointer.h`, `VxD.*` | none worth a model | | |

How they meet: perspective control decides `isCamInit` and `isFPS`, which gate
every other hook; `AttachToHead` is the only producer of most override flags,
`Camera3PS` the only function that clears them all; the attack scan takes hits
from the game and hands enemies to the indicators across threads; the animation
reports set the flags the next frame reads; the settings decide which overlays
are registered with the renderer, whose hooks bring it frames and resizes.

`PROJECT.json` lists the components with their status, and the hazards: what can
go wrong here that a test would hardly reach, each at its line.

## 2. Modules

| Module | Models | Kind |
|---|---|---|
| `Perspective` | perspective control with every override left in the game | component |
| `CameraView` | what the player is promised about the view | abstract specification |
| `PerspectiveRefinement` | the mapping of the first to the second | refinement |
| `PerspectiveCalm` | `Perspective` in a game that comes to rest | liveness |
| `PerspectiveProofs` | theorems about all four | proofs |
| `PlayerTAE` | the classification of the player's animations | pure function |
| `CameraFrame` | what frames, reports and chunk crossings keep for the next frame | component, uses `PlayerTAE` |
| `CameraFrameProofs` | theorems about both | proofs |
| `AttackScan` | scan bullet, buffer of enemies, reports, frames | component |
| `AttackScanProofs` | theorems about it | proofs |
| `AttackIndicator` | the slots, access by access | component |
| `AttackIndicatorProofs` | theorems about it | proofs |
| `Smoothing`, `MovingAverage` | the ring and the mean it stands for | component, abstract |
| `SmoothingProofs` | theorems about them | proofs |
| `Renderer` | frames, resizes, the command queue, the aim assist's shader | component |
| `RendererProofs` | theorems about it | proofs |
| `MemoryProtection` | the history of page protections | component |
| `MemoryProtectionProofs` | theorems about it | proofs |
| `HookChain` | blocks of memory, jumps, and what a call runs | operators |
| `PlaceHook` | hooks placed one after another, in one step each | abstract specification |
| `Settings` | the settings file, over several starts | component |
| `Startup` | settings, registration and the placing of hooks on two threads, store by store | composition, implements `PlaceHook` |
| `StartupProofs` | theorems about it, `Settings`, `HookChain` and `PlaceHook` | proofs |
| `MC*` | the values TLC uses | instances |

### Perspective

An action is one call of a hooked function. `PerspectiveControl` has one
disjunct per way through the C++ function, in its order of early returns:
target changed, attach (succeeding or failing on the bone layout), mimic,
give back, unreadable button, released, pressed. `AttachToHead` is split into
the cutscene branch and an ordinary frame; a frame's geometry is abstracted to
which of the flags and game fields it assigns come out "on" (`HeadFrames`).
The flags and fields form two sets, `raised` and `touched`: a member is an
override that is in force. Two flags are those of a scan (`isGetChrAttack` above
zero, `BulletIns` not -1), raised by `AttachToHead` and taken down by the hooks of
bullets alone, whose count `AttackScan` models and `Perspective` leaves open.
`CheckPlayerTAE` is split into the hook's test of
`isFPS` (`TAEGate`) and its effect, because the code tests `isFPS` a second
time. `Destructor`, `Unload` and `Load` are the game's part.

Assumptions: calls of the game's main update are serialized (each action is one
call); the pattern of `WorldChrMan` was found; the player's destructor runs
before another save is loaded; a frame lasts longer than zero; the player's
position has a non-zero fourth component, so that `playerPos_prev` is "set" by
every frame.

`CameraView` says it without buttons and flags: the view is first, third or off;
it changes by choice, by a loan for a mimic or a cutscene, by giving the loan
back; and the save remembers the view in use. `PerspectiveRefinement` maps
`isCamInit`, `isFPS`, `eventFlag` and `isFPS_prev` to it. One surprising
behaviour is part of the promise: first person that was in use when the camera
was let go is kept even if a save with the other preference is loaded
(`kept`), and a debt that falls due while the camera is off is forgotten
(`GiveBack`).

### PlayerTAE and CameraFrame

`PlayerTAE` gives the flags `CheckPlayerTAE` comes to for an animation, the
events it meets and the settings: the ranges of the code as sets of numbers, in
the order in which they are tried. Offsets of the camera on a dragon are left
out. `CameraFrame` holds what a call leaves for later calls. `CheckPlayerTAE`
and `AttachToHead` are one action each; an `Input` is what a frame reads of the
game, restricted to what a frame can read: the code puts a run state without
the button back to 1, and the stick only matters with the button held. Geometry
decides two things, and both are choices: whether the stick points more than 105
degrees away, and whether the camera has come close enough to its goal for the
time that leads it there to be cut off (`SyncLeft`, `GoalLeft`). A position is
abstracted to the chunk whose coordinates it is in, relative to the player's
position now: `ChunkCode` turns what was "here" into "elsewhere".

`Flip`, `PerspectiveInit` and `DeinitializeCamera` are what perspective control
does to these variables, at any moment; they allow every order that `Perspective`
allows, and more. Both hooks test `isFPS`; a frame also needs `isCamInit`, a
report does not.

Assumptions: all positions change coordinates in the call `chunkCode` hooks; the
game's position has a non-zero fourth component; a frame lasts longer than zero.

### AttackScan

An action is one call of a hook, or the scan at the end of a frame. Addresses
are model values, and a destroyed character, module or bullet may come back at
any address. The buffer is the array of the code, ending at the first key `End`;
`Walked` is what a walk visits. A frame reads through the stored addresses
whether or not their characters still exist: `ReadUnsafePtr` only finds out
whether the memory is mapped. So a character that is gone may seem to be near,
and the module read for it is any value, even the module of another character
(`ModulesRead`). The hook drops reports made outside first person and those of
animations without a header or events (`passes` in `EnemyTAE`); perspective and
animations are not part of this module, so whether a report passes is left open.

`last` is a history variable, kept for what happened and not for where the code
put it: for each character in the buffer, what it last reported since it was
entered, by whatever slot it was or was not heard. It is "unheard" if the report
did not pass, or if the slot of a character that went away named the reporter's
module at that moment (`Mistaken`), and "departed" once the character went away.

Assumptions: two characters that exist have different animation modules, and the
low halves of the addresses are not zero.

### AttackIndicator

An action is one load or store of a slot by one of the two threads, in program
order. `EnemyIns`, the time, and the vector `YAXT` are each accessed with one
aligned instruction. Drawing reads slots and changes nothing, so it is left out.

### Smoothing

`SmoothZ16` is one action. Its vectors are modelled by their first cells
(`Vector`), and a mean by how often each height is added (`MeanOf`: over all
lanes of all vectors read) and what the sum is divided by; a zero adds nothing,
so it is not counted. That tells more apart than the quotient, and says it
without adding up floats. `recent` is a history variable that maps the ring to
`MovingAverage`, which counts the heights of a sequence instead.

### Renderer

The presenting thread's `OnPresent` is a chain of steps (retrieve the device,
wait for the queue, create the views, pick the buffer, draw), because
`SetCommandQueue` runs on other threads meanwhile; `OnResizeBuffers` and the
game's own `ResizeBuffers` after it are two. Buffers carry a generation, the
number of times they were replaced, and a view that of the buffer it was made
of. The assignment of the `ComPtr` is split into counting the new queue,
loading the old pointer and storing the new one; counts are atomic. `Throw` is
an exception that leaves `OnPresent`: `InitD3DResources` catches strings, and
what is thrown are character pointers, so the game is taken to end.

`bound` is the view `OMSetRenderTargets` last gave to the immediate context, which
keeps a reference to it. `ReleaseViewsBuffersAndContext` empties the vectors and
flushes the context, but unbinds nothing, so after a first frame the mod goes on
referring to one buffer when `ResizeBuffers` runs, and to a replaced one until the
next frame. With Direct3D 11 the context is the game's own and may be bound
elsewhere (`GameBinds`); with Direct3D 12 nobody else uses it. That the game's
`ResizeBuffers` succeeds in spite of it is a choice of the model, like any other
failure of it.

Assumptions: the game has one swap chain, calls `Present` and `ResizeBuffers`
on one thread, and the hook of `ExecuteCommandLists` is in place when its
placing returns. Whether the player aims is a choice of each moment (`Aim`). A
view of Direct3D 11 that cannot be created leaves the frame without a target,
which the code does not check; so does the model.

### MemoryProtection

A call is the sequence of its openings, uses and closings; each is a step.
`PageOf` gives the page of an address. The size of a call's memory is taken to
lie within one page, and calls to follow one another: when two threads place
hooks at once they race on the history, a `std::map` without a lock, and what
that does cannot be enumerated.

### HookChain, PlaceHook and Startup

Memory is a set of blocks of instructions, named for what is there: the entry of
a function, the parts of its trampoline, and what another overlay allocates. A
block runs something, or is a jump of one of the three kinds `IsAddressHooked`
tells apart, or one it takes for code (`FF 25` with a displacement and no prefix,
`EB`), and leads to another block. `Path` follows them, `End` stops where
the jumps of some kinds do (`AddressToHook` for those `PlaceHook` follows), and
`Passed` and `Runners` are the blocks a call passes and those they run.

A jump displaces whole instructions, and their copy jumps back behind them, into
the function: `Behind(a, kind)` is that place for the kind of jump written at an
entry, `addressToHook + clearance` in `PlaceHook`. `Clearance` gives the number of
displaced bytes for each entry and kind, any number that has room for the jump
(`Length`). A longer jump that is later written at the same entry overwrites the
places behind shorter clearances (`Overrun`), and who returns there runs into its
middle. The mod's own jump is the shortest of those with five bytes or more, and
its padding ends where its copy returns to, so it overruns nothing; a far jump it
displaces has overrun the same fourteen bytes before. `Displaced` is `PlaceHook`'s
copy: bytes are copied, so a far jump works anywhere, the target of any other
moves with it, and only code needs the jump back behind it. An overlay's own copy
(`Taken`) adapts a jump. A function goes `astray` when the mod moves a jump it does
not recognise, or an overlay's jump overruns what a call passes.

`PlaceHook` is the promise: a hook is placed in one step at the end of the jumps
it follows. `Startup` is the code: `OnAttach` reads the settings (`Settings`) and
starts the hook thread, which registers the overlays that are switched on, gives
the renderer its callback, and then hooks `Present` and `ResizeBuffers`. Once a
frame runs into the mod, the presenting thread may hook `ExecuteCommandLists`,
at any point of the hook thread's work. Each hook is seven steps: follow the
jumps, copy the displaced instructions, write the two absolute jumps, store the
return address, tear the entry (padding, then a jump whose distance is still
zero), write the distance. `Settled` hides a trampoline until the jump to it is
whole, and a torn block by what was copied from it; under this mapping every step
is one of `PlaceHook` or a stutter. What was displaced is kept by the thread
(`was`, the `originalBytes` of the code's `HookInformation`).

The mod's function does its work and goes on at the displaced instructions, as
all three detours of `DirectXHook.cpp` do. Other overlays are external: one hooks
at the function or behind any jumps, with any kind of jump, in one step, and
keeps what it displaced working where it is; that another overlay, or the mod,
returns into what it overwrites it cannot know. The game may exit, or die, at any point; the
settings may be edited before the next start.

Assumptions: an overlay does not hook a function in the middle of the mod's
placing at it (the code reads the bytes it displaces long before it writes, and
would lose the other hook); there are fewer places for jumps than the fifty after
which `PlaceHook` gives up (`HookChainAssumption`: at most 43 other
overlays), so that it always comes to the end of those it follows and displaces
none of them; an overlay restores nothing and hooks one function; a jump through a
register is code to everybody, and works where it is copied to;
`CalculateRequiredAsmClearance` can read the instructions it displaces (at one it
cannot read it answers five bytes, wherever they end); the jumps it does not
recognise all have one length (`UnknownLength`, any number: the run takes the six
bytes of `FF 25`); nobody calls a function whose jump is torn (nothing
in the code keeps the game from it, see the hazard at `MemoryUtils.h:437`); a
failed allocation ends the process; a missing settings file is a file without
keys, since it is generated from the same defaults. Of the numbers one that
`IniParseLineF` reads is kept, because only those can fail.

## 3. Runs

| Run | Checks | Bounds |
|---|---|---|
| `perspective` | `TypeOK`, `FlagAgrees`, `ThirdPersonClean`, `TargetMatches`, `PressOnce`, `ImplementsCameraView` | one spectated character and the player; frames of one tick, hold and menu time of one tick, presses told apart up to two ticks; one kind of frame, locked on a target with a scan due (the flags it leaves out come and go as `LockTgtOverride` does; `ThirdPersonAlwaysClean` is about every kind) |
| `perspective_calm` | `Reattaches`, `GivenBack`, `HoldRecognised` | without frames of `AttachToHead`, which only write variables that no other action reads |
| `attack_scan` | `TypeOK`, `WalkStops`, `NoDuplicates`, `FlagsSound`, `DrawnAttack`, `TakesTwo` | a buffer of two slots and three characters, so that it wraps; two bullets, two animation modules, so that any module may be read of a character that is gone; a scan every second frame |
| `attack_indicator` | `TypeOK`, `OneSlot`, `OwnDirection`, `Released` | the three slots of the code, four enemies, two frames of refresh |
| `smoothing` | `TypeOK`, `ImplementsMovingAverage` | the sizes of the code (4 lanes, 16 heights), two heights |
| `camera_frame` | `TypeOK`, `TrackedNotSmooth`, `CrossingHidden`, `NegativeOnce`, `LookFreed` | five animations, one for each combination of flags a frame reads; frames of two ticks, limits of one and three |
| `renderer` | `TypeOK`, `OnlyBoundHeld`, `DrawsCurrent`, `AimShaded`, `QueueOwned` | up to three buffers, two resizes; two direct queues and one other, two threads, two references of a queue at once; everything may fail |
| `renderer_appears` | `Appears` | two buffers, one resize, one direct queue and one other, two threads; nothing fails |
| `startup` | `TypeOK`, `CallsReach`, `DrawsWhatWasAsked`, `ImplementsPlaceHook` | the three functions, of which one displaces no more than each jump's length, one has room for any jump, and one for all but a far one; two other overlays, two overlays of the mod's, any number of starts |
| `place_hook_overwrites` | `OverwritesNoJump`, **violated** | `PlaceHook` with two other overlays |
| `memory_protection` | `TypeOK`, `OpenWhenUsed`, `Balanced`, `CopyRestores` | two addresses on one page, one on another |
| `memory_protection_restores` | `RestoresOriginal`, **violated** | the same |

What they show:

* `FlagAgrees`: while the camera is attached, event flag 92599 and `isFPS` say
  the same, although three places write one of them alone.
* `ThirdPersonClean`: attached in third person, all seven override flags are
  down and all seven game fields are restored; only a scan may not be over.
  `Camera3PS` leaves `isGetChrAttack` and `BulletIns` alone, and `regBullet`,
  `hitDetect` and `hitRegister` do not ask for first person, so they go on
  capturing the bullets of the scan and keeping their hits from the game. The rest needs the second test of
  `isFPS` in `CheckPlayerTAE`: the mutant without it breaks it.
* `TargetMatches`: attached, the spectated character, the kind of camera and the
  bone layout belong to the same target.
* `PressOnce`: whatever interrupts a press, it flips the view at most once and
  toggles the lock-on mode at most once.
* `Reattaches`, `GivenBack`, `HoldRecognised`: no earlier history leaves the
  camera detached, first person owed, or the button dead.
* `TrackedNotSmooth`: the ranges of `CheckPlayerTAE` overlap and set flags in
  several functions; its early exits keep a pose from being followed by the head
  and smoothed as a walk, two corrections of the camera's height at once.
* `CrossingHidden`: a crossing is hidden for two frames by two flags that each
  forget the other's report, and `Camera3PS` clears the position between; no order
  of crossings, cutscenes and changes of perspective gets a leap measured.
* `NegativeOnce`: `walkSmoothTimeout` is counted down without a clamp; the
  condition on `isSyncRot` makes the next frame reset what went below zero.
* `LookFreed`: whatever was held, run or interacted with, at rest nothing locks
  the player's turning, and both times that lead the camera run out. They are
  counted in different hooks and stand still while the head is followed.
* `WalkStops`, `NoDuplicates`, `FlagsSound`: the three arrays `hitDetect`
  resets on a wrap stay in step.
* `DrawnAttack`: an indicator shows a character that exists and last reported an
  attack, with two exceptions, which the code does meet: the character went away
  while it was in the buffer (its mark stays as long as its memory can be read,
  also for another character created at its address), or its last report could
  not be heard. Everything else that is old is harmless: slots filled again after
  a wrap, modules read frames ago, reports that find no slot. The mutant compares
  slots that are not valid, whose modules are older.
* `TakesTwo`: a scan takes the hits of at most two bullets. Which two is up to
  the game; that a dangling `BulletIns` may swallow the hits of a third one at
  the same address is listed as a hazard.
* `OneSlot`, `OwnDirection`, `Released`: two threads without a lock.
* `OnlyBoundHeld`, `DrawsCurrent`: the release walks `bufferCount` views, the
  creation made that many, and the flag separates the two, although the game may
  resize before, during the wait for, and after the initialization and may come
  back with another number of buffers. Only the vectors are empty then: the view
  bound to the context is left, and DirectXHook.cpp:26 ("release our references
  to various resources") holds of all but that one. A frame is never drawn to what
  was left bound.
* `AimShaded`: the aim assist takes three frames to appear (make its buffer,
  load the shader, draw), and in none of them is it drawn without its shader.
* `QueueOwned`: unsynchronized assignments of one direct queue may leak counts
  but never drop the last one. The condition matters: without it TLC shows two
  threads with two direct queues releasing the queue they replace twice. The
  test of the queue's type is what keeps copy and compute queues out of this.
* `RestoresOriginal` is what the comment on `ToggleMemoryProtection` says, and
  fails: `HookSwapChain` opens two entries of one page and closes them in the
  same order, so the page stays `PAGE_EXECUTE_READWRITE`. `MemCopy` closes in
  the opposite order and is right (`CopyRestores`).
* `CallsReach`: whatever the order and the kinds of jumps, a call of a hooked
  function runs each overlay and the mod once, goes on in the function itself and
  comes back, at every step of the placing, if and only if the function has not
  gone astray. There are two ways to that, which the code does meet: a jump that
  `IsAddressHooked` does not know is copied with its relative target, and an
  overlay that comes later may put a longer jump over the place the trampoline (or
  another overlay's) returns to, since `PlaceHook` only clears room for its own.
  The jumps it does know take care: a relative or an indirect one must not be
  copied, and both are followed; a far one is copied whole. The mutant follows
  relative ones only.
* `ImplementsPlaceHook`: the steps of two threads that place hooks at once amount
  to one hook after the other.
* `DrawsWhatWasAsked`: once a frame runs into the renderer, exactly the overlays
  are there that the user last asked for, however often the game was started in
  between on a file that was missing, partial or unreadable, and the renderer can
  have submissions hooked.
* `OverwritesNoJump` is what the comment on `PlaceHook` says, and fails: the line
  that follows a far jump is commented out, so a far jump is overwritten after
  fifty looks at it. By `CallsReach` nobody is lost by that: the copy works.

Why the bounds are enough. Timers are only compared with their limits, so a
limit of one tick has every case: below, at, above. `sPressTime` stops at
`PressCap`, beyond both values it is compared with, and `sMenuTimeout` at zero.
Characters and addresses are only compared for equality. The buffer's size only
enters through its end and the wrap. Symmetry is declared in `attack_scan`,
over characters, modules and bullets, and in `startup`, over the other overlays, for
safety properties: only equality of each is looked at. In `renderer` a second resize is what
can meet views left by a first one, and two threads are what a race takes;
`MaxRefs` only cuts off counts leaked by races of two direct queues, about which
`QueueOwned` says nothing. Timers of `CameraFrame` are counted in steps that do
not divide their limits, so that each of them is overshot where the code does not
clamp it. Two overlays before, after and around the mod's hook give every pair of
neighbouring kinds of jumps, with clearances that are enough for a later one and
that are not, which is what a placing looks at; a third one takes
the run beyond its time. Two overlays of the mod's give files that ask for all,
some and none.

### Fairness

`PerspectiveCalm` assumes weak fairness of the two hooks the game calls in every
frame it updates a character: `camCode00` (`CalmFrame`) and `stateInfo`
(`CalmStateInfo`); nothing about input, cutscenes or memory, which are instead
at rest from an arbitrary moment on. `AttackIndicator` assumes that frames go on
being presented and that a call of `DrawIndicator` returns; not that enemies
attack. `Renderer` (`FairSpec`) assumes that the game presents again and again
(strongly: it may call `ResizeBuffers` in between any number of times), that its
calls return, and that with Direct3D 12 it submits to a direct queue.
`CameraFrame` assumes weak fairness of the two hooks that the game calls in every
frame it draws of a player at rest in first person (`RestFrame`, `RestReport`);
that the player comes to rest is a choice of the model, never assumed. All other
specifications are safety only.

## 4. Proofs

All proofs hold for every value of the constants, from the named assumptions of
the modules (`PerspectiveAssumption`, `CameraFrameAssumption`,
`TrackHitAssumption`, `AttackScanAssumption`, `AttackIndicatorAssumption`,
`SmoothingAssumption`, `RendererAssumption`, `MemoryProtectionAssumption`,
`HookChainAssumption`, `SettingsAssumption`) alone. Every invariant, action
property and refinement a passing run checks is a theorem.

* `PerspectiveProofs`: `TypeCorrect`, `FlagAlwaysAgrees`,
  `ThirdPersonAlwaysClean`, `TargetAlwaysMatches`, `PressActsOnce`. The
  invariants about the view are not inductive one by one: an attached camera
  needs a loaded character (`AttachedLoaded`), or loading a save could change
  the flag under it. `PressOnce` needs the history of the press to agree with
  `sPressTime` and `sIsPressState`.
  `PerspectiveImplements`: the initial states map to `View!Init`, and each action
  to one of `CameraView` or a stutter; the invariant `FlagAgrees` is what makes
  the written flag the view in use. `CalmImplements`: the game that comes to rest
  is still a game of `Perspective`, so its invariants hold there; and
  `OverridesCleared3PS`, which with it reduces one liveness property to another:
  if the camera is attached again, it has left no override behind, because third
  person is clean. That it is attached again (`Reattaches`) is the run's part.
* `CameraFrameProofs`: `FrameTypeCorrect`, `NeverTrackedAndSmooth`,
  `CrossingAlwaysHidden`, `NegativeIsBrief`. That no animation is both followed
  and smoothed is a fact about the classification alone, for any animation and
  any events: each range is shown `Apart` by a lemma of its own. The chunk
  crossing needs `FrameIInv`: a stored position of another chunk never waits for
  a frame without a crossing reported for it.
* `AttackScanProofs`: `ScanTypeCorrect`, `WalksAlwaysStop`, `NeverTwice`,
  `MarksAlwaysSound`, `DrawnOnlyAttackers`, `NeverTakesThree`. A walk over the
  buffer stops because the lanes of seen addresses say exactly who is in the
  slots filled since the last wrap (`LanesMirror`); no character is in two slots
  because no two characters share an animation module (`OwnModule`); a marked slot is
  sound because the last report of its character is the one that marked it
  (`AttackSaid`): while the character exists the module of its valid slot is its
  own (`OwnRead`), and a report finds another slot only if that one was left by a
  character that went away. What is read of those is anything.
* `AttackIndicatorProofs`: `IndicatorTypes`, `OneSlotEach`, `DirectionIsOwn`.
  The strengthening says what `DrawIndicator` knows at each point (slots behind
  it are not its enemy's, a remembered free slot is still free): true because
  only the game thread takes slots.
* `SmoothingProofs`: `SmoothingTypeCorrect`, `SmoothingAverages`. The invariant
  gives every ring index an age (`Age`), counted back from the next one over the
  wrap, and says that the cell there, and its mirror, hold the height given that
  many calls ago, or zero if there was none (`RingInv`). The vectors read for n
  heights meet each age below n in exactly one lane (`AgesLoaded`), and beyond
  them only ages that were never given, which is why whole vectors can be added.
  The type of the answer follows from this, not the other way round.
* `RendererProofs`: `RendererTypes`, `VectorsEmptied`, `DrawnIsCurrent`,
  `AimAlwaysShaded`, `QueueAlwaysOwned`. The views need to know where they may
  be (`ViewInv`: nowhere while the flag is up, and otherwise below `bufferCount`
  and current) and where the thread is (`FlagInv`). The queue needs `OnlyQueue`: as long as one queue was
  submitted, its count is at least the number of threads within the assignment,
  plus one if it is stored; a thread that loaded it as the old queue did so
  after it was stored for good, so the count it drops is never the last.
* `MemoryProtectionProofs`: `ProtectionTypeCorrect`, `AlwaysOpenWhenUsed`,
  `AlwaysBalanced`, `CopiesRestore`. The strengthening `Progress` says of each
  kind of call how far it has come and which pages are open at that point
  (`Filling`, `Copying`, `Swapping`); a step of a call is shown to lead to the
  next point of the same call.

* `StartupProofs`: `StartupTypeCorrect`, `CallsAlwaysReach`, `DrawsAsAsked`,
  `StartupImplements`, all from one inductive invariant (`InductiveInvariant`).
  Its core, `Sound`, relates the memory to the settled one, S. In S each function
  is `Chained`: a list of different blocks leads from its entry to the caller,
  and runs each of those interested once; one that has gone astray has a list too,
  that ends where nothing is and runs some of them. The lists of different
  functions lie in different regions, so that a hook changes one of them only. A
  hook lets new blocks into a list behind some block of it (`ChainedLetIn`), and
  may cut it off before a block that its jump overruns or behind one that no longer
  works; the mod's hook and every hook of another overlay, with each kind of jump,
  are shown to be that. That the place a copy returns to still is the rest of the
  displaced code is `CodeKept`: while an entry is no jump, all places behind it
  run the same.
  The memory itself differs from S in the trampolines being built and in torn
  entries; `Stored` says, for each step of `PlaceHook`, what a thread has built
  so far and what it still relies on. Each store is then shown to leave S alone,
  but for the last one, which changes it as `PlaceHook` says. `SettingsInv` and
  `RegisterInv` tie the settings file, the user's wishes and the progress of the
  hook thread together. That `Path` has a solution, and what it is on a list,
  needs induction on natural numbers: `Induction` states it of a set instead of a
  predicate and is proved from the well-foundedness of finite sets.

Left to TLC: liveness under fairness (`Released`, `Appears`, `LookFreed`,
`Reattaches`, `GivenBack`, `HoldRecognised`), which is out of this prover's
reach.

## 5. Not modelled

* The camera's geometry and everything else that is floating point (field of
  view, blends of rotations, `VxD.*`, `Effects.hpp`): the model keeps which
  branch is taken and what is remembered, never the numbers.
* Drawing, the set-up of the overlays, the crosshair and the colours of the aim
  assist: their timers are clamped and read by nothing but the same `Render`.
* Finding the game's functions and patching them (`InitAsm`, `InjectAsm`,
  `Trampoline.h`, `AOB.cpp`): one straight pass while the DLL is loaded, over
  data (patterns, addresses) a model would only repeat. Whether the game's
  threads already run the functions then is not visible in the code. The hazards
  of that pass are listed at their lines without a property.
* Two threads in `MemoryUtils`' history of protections at once: a `std::map`
  without a lock has no outcomes to enumerate. `Unhook` is never called.
* Hooks without state, menu texts, the console, guarded pointers: each call
  depends on its arguments and the game's memory only.
* What the game does inside its own functions: `Perspective` and `AttackScan`
  let it do anything the hooks can observe.
* The vendored libraries (asmjit, mINI, mem, nmd, zlib-ng, DirectXTK), which
  are most of the repository's lines and none of its own logic.

`Perspective` chooses the flags of a frame of first person freely
(`HeadFrames`), and `CameraFrame` computes them. The two are checked apart: their
product is too large for TLC. The run of `Perspective` takes one such frame; its
theorems hold for every set of them.

## 6. Running

    tlc -config Perspective.cfg MCPerspective
    tlapm PerspectiveProofs.tla

Each run's module and configuration are in the table of section 3; each module
whose name ends in `Proofs` is checked with `tlapm`.
