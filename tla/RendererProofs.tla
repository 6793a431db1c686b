--------------------------- MODULE RendererProofs ---------------------------
(***************************************************************************)
(* For every number of buffers, resizes, queues and threads: types, the    *)
(* renderer's vectors are empty while the game replaces buffers, frames    *)
(* are drawn to current buffers, and a single direct queue stays counted.  *)
(***************************************************************************)
EXTENDS Renderer, FiniteSetTheorems, TLAPS

\* Which device is in use is settled once, before there are any views.
DeviceInv ==
  /\ isRunningD3D12 => isDeviceRetrieved
  /\ ~isRunningD3D12 => bufferIndex = 0

\* The flag tells where in the life of the views the renderer is.
FlagInv ==
  /\ pc \in {"retrieve", "queue", "create", "resizing"} =>
       mustInitializeD3DResources
  /\ pc \in {"render", "drawing"} => ~mustInitializeD3DResources

\* Views are only where bufferCount says, and once initialized they are of the
\* buffers as they are.
ViewInv ==
  /\ \A i \in 0 .. MaxBuffers - 1 : i >= bufferCount => views[i] = NoView
  /\ mustInitializeD3DResources =>
       \A i \in 0 .. MaxBuffers - 1 : views[i] = NoView
  /\ ~mustInitializeD3DResources =>
       /\ bufferCount = GetBufferCount
       /\ \A i \in 0 .. bufferCount - 1 :
            \/ views[i] = swapChain.generation
            \/ ~isRunningD3D12 /\ "view" \in Failures /\ views[i] = NoView

\* The threads within SetCommandQueue: each has counted its queue.
Pending == {t \in Submitters : submit[t].at # "idle"}

\* While q is the only queue submitted to: nobody knows another, whoever loaded
\* it did so after it was stored for good, and each thread that is still to
\* store it has a count of its own beside that of the stored pointer.
OnlyQueue(q) ==
  /\ commandQueue \in {q, NoQueue}
  /\ \A p \in Queues : p # q => refs[p] = 0
  /\ \A t \in Pending : submit[t].queue = q /\ submit[t].old \in {q, NoQueue}
  /\ \A t \in Pending : submit[t].old = q => commandQueue = q
  /\ refs[q] >= Cardinality(Pending) + IF commandQueue = q THEN 1 ELSE 0

QueueInv ==
  /\ submitted \subseteq DirectQueues
  /\ \A q \in Queues : submitted \subseteq {q} => OnlyQueue(q)

IInv ==
  TypeOK /\ DeviceInv /\ FlagInv /\ ViewInv /\ DrawsCurrent

-----------------------------------------------------------------------------
LEMMA Sizes ==
  /\ 0 \in 0 .. MaxBuffers - 1
  /\ 0 \in 0 .. MaxBuffers /\ 1 \in 0 .. MaxBuffers
  /\ \A n \in 1 .. MaxBuffers :
       n \in 0 .. MaxBuffers /\ 0 .. n - 1 \subseteq 0 .. MaxBuffers - 1
  BY RendererAssumption

LEMMA InitIInv == Init => IInv
  <1> SUFFICES ASSUME Init PROVE IInv
    OBVIOUS
  <1> USE RendererAssumption, Sizes
  <1>a. swapChain \in [buffers : 1 .. MaxBuffers, generation : 0 .. MaxResizes]
    BY DEF Init
  <1>b. views \in [0 .. MaxBuffers - 1 -> {NoView} \cup 0 .. MaxResizes]
    BY DEF Init
  <1>c. refs \in [Queues -> Int]
    BY DEF Init
  <1>d. submit \in [Submitters -> [at : {"idle", "load", "store"},
                                  queue : Queues \cup {NoQueue},
                                  old : Queues \cup {NoQueue}]]
    BY DEF Init, AtRest
  <1>1. TypeOK
    BY <1>a, <1>b, <1>c, <1>d DEF Init, TypeOK
  <1>2. DeviceInv /\ FlagInv
    BY DEF Init, DeviceInv, FlagInv
  <1>3. ViewInv /\ DrawsCurrent
    BY DEF Init, ViewInv, DrawsCurrent, NoView
  <1> QED BY <1>1, <1>2, <1>3 DEF IInv

\* The conjuncts of TypeOK, by who writes the variables.
ThreadTyped ==
  /\ pc \in {"game", "retrieve", "queue", "create", "render", "drawing",
             "resizing", "terminated"}
  /\ mustInitializeD3DResources \in BOOLEAN /\ firstTimeInitPerformed \in BOOLEAN
  /\ isDeviceRetrieved \in BOOLEAN /\ isRunningD3D12 \in BOOLEAN
  /\ getCommandQueueCalled \in BOOLEAN

ChainTyped ==
  /\ d3d12 \in BOOLEAN
  /\ swapChain \in [buffers : 1 .. MaxBuffers, generation : 0 .. MaxResizes]

ViewTyped ==
  /\ bufferCount \in 0 .. MaxBuffers
  /\ bufferIndex \in 0 .. MaxBuffers - 1
  /\ views \in [0 .. MaxBuffers - 1 -> {NoView} \cup 0 .. MaxResizes]
  /\ bound \in {NoView} \cup 0 .. MaxResizes

QueueTyped ==
  /\ commandQueue \in Queues \cup {NoQueue}
  /\ refs \in [Queues -> Int]
  /\ submit \in [Submitters -> [at : {"idle", "load", "store"},
                                queue : Queues \cup {NoQueue},
                                old : Queues \cup {NoQueue}]]
  /\ submitted \subseteq Queues

AimTyped ==
  aim \in [visible : BOOLEAN, buffer : BOOLEAN, shader : BOOLEAN,
           drawn : {"nothing", "plain", "shaded"}]

LEMMA TypeParts ==
  TypeOK <=> ThreadTyped /\ ChainTyped /\ ViewTyped /\ QueueTyped /\ AimTyped
  BY DEF TypeOK, ThreadTyped, ChainTyped, ViewTyped, QueueTyped, AimTyped

LEMMA TypedNext ==
  ASSUME ThreadTyped', ChainTyped', ViewTyped', QueueTyped', AimTyped'
  PROVE  TypeOK'
  BY DEF TypeOK, ThreadTyped, ChainTyped, ViewTyped, QueueTyped, AimTyped

\* What a step leaves alone keeps its type.
LEMMA KeepsThread ==
  ASSUME ThreadTyped, UNCHANGED <<pc, flags>> PROVE ThreadTyped'
  BY DEF ThreadTyped, flags

LEMMA KeepsChain ==
  ASSUME ChainTyped, UNCHANGED <<d3d12, swapChain>> PROVE ChainTyped'
  BY DEF ChainTyped

LEMMA KeepsViews == ASSUME ViewTyped, UNCHANGED viewVars PROVE ViewTyped'
  BY DEF ViewTyped, viewVars

LEMMA KeepsQueues == ASSUME QueueTyped, UNCHANGED queueVars PROVE QueueTyped'
  BY DEF QueueTyped, queueVars

LEMMA KeepsAim == ASSUME AimTyped, UNCHANGED aim PROVE AimTyped'
  BY DEF AimTyped

\* A step of the presenting thread that writes its flags and no more.
LEMMA FlagStep ==
  ASSUME TypeOK, ThreadTyped',
         UNCHANGED <<d3d12, swapChain, viewVars, queueVars, aim>>
  PROVE  TypeOK'
  <1>1. ChainTyped' /\ ViewTyped' /\ QueueTyped' /\ AimTyped'
    BY TypeParts, KeepsChain, KeepsViews, KeepsQueues, KeepsAim
  <1> QED BY <1>1, TypedNext

\* A step of a thread that submits.
LEMMA QueueStep ==
  ASSUME TypeOK, QueueTyped', UNCHANGED <<d3d12, swapChain, pc, flags, viewVars, aim>>
  PROVE  TypeOK'
  <1>1. ThreadTyped' /\ ChainTyped' /\ ViewTyped' /\ AimTyped'
    BY TypeParts, KeepsThread, KeepsChain, KeepsViews, KeepsAim
  <1> QED BY <1>1, TypedNext

\* A step of the overlay that draws.
LEMMA AimStep ==
  ASSUME TypeOK, AimTyped', pc' \in {"game", pc},
         UNCHANGED <<d3d12, swapChain, flags, viewVars, queueVars>>
  PROVE  TypeOK'
  <1>1. ChainTyped' /\ ViewTyped' /\ QueueTyped'
    BY TypeParts, KeepsChain, KeepsViews, KeepsQueues
  <1>2. ThreadTyped'
    BY TypeParts DEF ThreadTyped, flags
  <1> QED BY <1>1, <1>2, TypedNext

\* What every action of the threads that submit leaves alone.
LEMMA SameViews ==
  ASSUME IInv, TypeOK',
         UNCHANGED <<d3d12, swapChain, pc, flags, viewVars>>
  PROVE  IInv'
  BY DEF IInv, DeviceInv, FlagInv, ViewInv, DrawsCurrent,
         GetBufferCount, flags, viewVars

\* A step of the presenting thread that leaves views and flags alone.
LEMMA ThrowIInv == ASSUME IInv, Throw PROVE IInv'
  <1>a. TypeOK /\ ThreadTyped
    BY TypeParts DEF IInv
  <1>b. ThreadTyped'
    BY <1>a DEF ThreadTyped, Throw, flags
  <1>1. TypeOK'
    BY <1>a, <1>b, FlagStep DEF Throw
  <1> USE DEF Throw, flags, viewVars, queueVars
  <1>2. DeviceInv' /\ FlagInv' /\ DrawsCurrent'
    BY DEF IInv, DeviceInv, FlagInv, DrawsCurrent
  <1>3. ViewInv'
    BY DEF IInv, ViewInv, GetBufferCount
  <1> QED BY <1>1, <1>2, <1>3 DEF IInv

LEMMA OnPresentIInv == ASSUME IInv, OnPresent PROVE IInv'
  <1>1. /\ \/ pc' = "retrieve" /\ mustInitializeD3DResources
           \/ pc' = "render" /\ ~mustInitializeD3DResources
        /\ UNCHANGED <<d3d12, swapChain, flags, viewVars, queueVars, aim>>
    BY DEF OnPresent
  <1>a. TypeOK /\ ThreadTyped
    BY TypeParts DEF IInv
  <1>b. ThreadTyped'
    BY <1>a, <1>1 DEF ThreadTyped, flags
  <1>2. TypeOK'
    BY <1>a, <1>b, <1>1, FlagStep
  <1>3. DeviceInv' /\ FlagInv' /\ DrawsCurrent'
    BY <1>1 DEF IInv, DeviceInv, FlagInv, DrawsCurrent, flags, viewVars
  <1>4. ViewInv'
    BY <1>1 DEF IInv, ViewInv, GetBufferCount, flags, viewVars
  <1> QED BY <1>2, <1>3, <1>4 DEF IInv

LEMMA RetrieveIInv == ASSUME IInv, RetrieveD3DDevice PROVE IInv'
  <1>a. TypeOK /\ ThreadTyped /\ d3d12 \in BOOLEAN
    BY TypeParts DEF IInv, ChainTyped
  <1>b. /\ pc' = "queue"
        /\ UNCHANGED <<mustInitializeD3DResources, firstTimeInitPerformed,
                       getCommandQueueCalled>>
    BY DEF RetrieveD3DDevice
  <1>c. isDeviceRetrieved' \in BOOLEAN /\ isRunningD3D12' \in BOOLEAN
    BY <1>a DEF ThreadTyped, RetrieveD3DDevice
  <1>d. ThreadTyped'
    BY <1>a, <1>b, <1>c DEF ThreadTyped
  <1>1. TypeOK'
    BY <1>a, <1>d, FlagStep DEF RetrieveD3DDevice
  <1> USE DEF RetrieveD3DDevice, flags, viewVars, queueVars
  <1>2. DeviceInv' /\ FlagInv' /\ DrawsCurrent'
    BY DEF IInv, DeviceInv, FlagInv, DrawsCurrent
  <1>3. ViewInv'
    BY DEF IInv, FlagInv, ViewInv, GetBufferCount
  <1> QED BY <1>1, <1>2, <1>3 DEF IInv

LEMMA WaitIInv == ASSUME IInv, WaitForCommandQueue PROVE IInv'
  <1>a. TypeOK /\ ThreadTyped
    BY TypeParts DEF IInv
  <1>b. /\ pc' \in {"game", "create"} /\ getCommandQueueCalled' \in BOOLEAN
        /\ UNCHANGED <<mustInitializeD3DResources, firstTimeInitPerformed,
                       isDeviceRetrieved, isRunningD3D12>>
    BY DEF WaitForCommandQueue
  <1>c. ThreadTyped'
    BY <1>a, <1>b DEF ThreadTyped
  <1>1. TypeOK'
    BY <1>a, <1>c, FlagStep DEF WaitForCommandQueue
  <1> USE DEF WaitForCommandQueue, Waiting, flags, viewVars, queueVars
  <1>2. DeviceInv' /\ FlagInv' /\ DrawsCurrent'
    BY DEF IInv, DeviceInv, FlagInv, DrawsCurrent
  <1>3. ViewInv'
    BY DEF IInv, ViewInv, GetBufferCount
  <1> QED BY <1>1, <1>2, <1>3 DEF IInv

LEMMA InitD3DIInv == ASSUME IInv, InitD3D PROVE IInv'
  <1>1. /\ bufferCount' = GetBufferCount
        /\ \/ views' = CreatedViews
           \/ ~isRunningD3D12 /\ "view" \in Failures /\ views' = NoViews
        /\ firstTimeInitPerformed' = TRUE
        /\ mustInitializeD3DResources' = FALSE
        /\ pc' = "render"
        /\ UNCHANGED <<isDeviceRetrieved, isRunningD3D12, getCommandQueueCalled,
                       bufferIndex, bound, d3d12, swapChain, queueVars, aim>>
    BY DEF InitD3D
  <1>2. GetBufferCount \in 1 .. MaxBuffers /\ GetBufferCount' = GetBufferCount
    BY <1>1, RendererAssumption DEF IInv, TypeOK, GetBufferCount
  <1>3. swapChain.generation \in 0 .. MaxResizes
    BY DEF IInv, TypeOK
  <1>4. views' \in [0 .. MaxBuffers - 1 -> {NoView} \cup 0 .. MaxResizes]
    BY <1>1, <1>3 DEF CreatedViews, NoViews
  <1>5. TypeOK'
    <2>1. TypeOK /\ ThreadTyped /\ ChainTyped /\ ViewTyped /\ QueueTyped /\ AimTyped
      BY TypeParts DEF IInv
    <2>2. ThreadTyped'
      BY <1>1, <2>1 DEF ThreadTyped
    <2>3. bufferCount' \in 0 .. MaxBuffers
      BY <1>1, <1>2, Sizes
    <2>4. /\ bufferIndex' \in 0 .. MaxBuffers - 1
          /\ bound' \in {NoView} \cup 0 .. MaxResizes
      BY <1>1, <2>1 DEF ViewTyped
    <2>5. ViewTyped'
      BY <1>4, <2>3, <2>4 DEF ViewTyped
    <2>6. ChainTyped' /\ QueueTyped' /\ AimTyped'
      BY <1>1, <2>1, KeepsChain, KeepsQueues, KeepsAim
    <2> QED BY <2>2, <2>5, <2>6, TypedNext
  <1>6. DeviceInv' /\ FlagInv' /\ DrawsCurrent'
    BY <1>1 DEF IInv, DeviceInv, FlagInv, DrawsCurrent
  <1>7. \A i \in 0 .. MaxBuffers - 1 : i >= bufferCount' => views'[i] = NoView
    BY <1>1, <1>2, RendererAssumption DEF CreatedViews, NoViews
  <1>8. \A i \in 0 .. bufferCount' - 1 :
          \/ views'[i] = swapChain'.generation
          \/ ~isRunningD3D12' /\ "view" \in Failures /\ views'[i] = NoView
    <2> TAKE i \in 0 .. bufferCount' - 1
    <2>1. i \in 0 .. MaxBuffers - 1 /\ i < GetBufferCount
      BY <1>1, <1>2, RendererAssumption
    <2> QED BY <1>1, <2>1 DEF CreatedViews, NoViews
  <1>9. ViewInv'
    BY <1>1, <1>2, <1>7, <1>8 DEF ViewInv
  <1> QED BY <1>5, <1>6, <1>9 DEF IInv

LEMMA PreRenderIInv == ASSUME IInv, PreRender PROVE IInv'
  <1>1. /\ pc = "render" /\ pc' = "drawing"
        /\ UNCHANGED <<d3d12, swapChain, flags, bufferCount, views, queueVars, aim>>
        /\ bound' = views[bufferIndex']
        /\ ~mustInitializeD3DResources
    BY DEF IInv, FlagInv, PreRender
  <1>2. \/ isRunningD3D12 /\ bufferIndex' \in 0 .. swapChain.buffers - 1
        \/ ~isRunningD3D12 /\ bufferIndex' = 0
    BY DEF IInv, DeviceInv, PreRender, BackBuffers
  <1>3. swapChain.buffers \in 1 .. MaxBuffers
    BY DEF IInv, TypeOK
  <1>4. bufferCount = GetBufferCount
    BY <1>1 DEF IInv, ViewInv
  <1>5. /\ bufferIndex' \in 0 .. MaxBuffers - 1
        /\ bufferIndex' \in 0 .. bufferCount - 1
    BY <1>2, <1>3, <1>4, RendererAssumption DEF GetBufferCount
  <1>6. TypeOK'
    <2>1. TypeOK /\ ThreadTyped /\ ChainTyped /\ ViewTyped /\ QueueTyped /\ AimTyped
      BY TypeParts DEF IInv
    <2>2. ThreadTyped'
      BY <1>1, <2>1 DEF ThreadTyped, flags
    <2>3. ViewTyped'
      BY <1>1, <1>5, <2>1 DEF ViewTyped
    <2>4. ChainTyped' /\ QueueTyped' /\ AimTyped'
      BY <1>1, <2>1, KeepsChain, KeepsQueues, KeepsAim
    <2> QED BY <2>2, <2>3, <2>4, TypedNext
  <1>7. DeviceInv' /\ FlagInv'
    BY <1>1, <1>2 DEF IInv, DeviceInv, FlagInv, flags
  <1>8. DrawsCurrent'
    BY <1>1, <1>3, <1>4, <1>5 DEF IInv, ViewInv, DrawsCurrent, GetBufferCount, flags
  <1>9. ViewInv'
    BY <1>1 DEF IInv, ViewInv, GetBufferCount, flags
  <1> QED BY <1>6, <1>7, <1>8, <1>9 DEF IInv

LEMMA RenderCallbacksIInv == ASSUME IInv, RenderCallbacks PROVE IInv'
  <1>1. /\ pc' = "game"
        /\ UNCHANGED <<d3d12, swapChain, flags, viewVars, queueVars>>
    BY DEF RenderCallbacks
  <1>2. PICK loaded \in BOOLEAN :
          aim' = [aim EXCEPT !.shader = @ \/ loaded,
                             !.buffer = @ \/ aim.visible, !.drawn = DrawnAs]
    BY DEF RenderCallbacks
  <1>3. DrawnAs \in {"nothing", "plain", "shaded"}
    BY DEF DrawnAs, Batch
  <1>4. aim' \in [visible : BOOLEAN, buffer : BOOLEAN, shader : BOOLEAN,
                  drawn : {"nothing", "plain", "shaded"}]
    <2>1. aim \in [visible : BOOLEAN, buffer : BOOLEAN, shader : BOOLEAN,
                   drawn : {"nothing", "plain", "shaded"}]
      BY DEF IInv, TypeOK
    <2> QED BY <1>2, <1>3, <2>1
  <1>5. TypeOK'
    BY <1>1, <1>4, AimStep DEF IInv, AimTyped
  <1>6. DeviceInv' /\ FlagInv' /\ DrawsCurrent'
    BY <1>1 DEF IInv, DeviceInv, FlagInv, DrawsCurrent, flags, viewVars
  <1>7. ViewInv'
    BY <1>1 DEF IInv, ViewInv, GetBufferCount, flags, viewVars
  <1> QED BY <1>5, <1>6, <1>7 DEF IInv

LEMMA GameBindsIInv == ASSUME IInv, GameBinds PROVE IInv'
  <1>1. /\ pc = "game" /\ bound' = NoView
        /\ UNCHANGED <<d3d12, swapChain, pc, flags, bufferCount, bufferIndex,
                       views, queueVars, aim>>
    BY DEF GameBinds
  <1>2. TypeOK'
    <2>1. TypeOK /\ ThreadTyped /\ ChainTyped /\ ViewTyped /\ QueueTyped /\ AimTyped
      BY TypeParts DEF IInv
    <2>2. ViewTyped'
      BY <1>1, <2>1 DEF ViewTyped
    <2>3. ThreadTyped' /\ ChainTyped' /\ QueueTyped' /\ AimTyped'
      BY <1>1, <2>1, KeepsThread, KeepsChain, KeepsQueues, KeepsAim
    <2> QED BY <2>2, <2>3, TypedNext
  <1>3. DeviceInv' /\ FlagInv' /\ DrawsCurrent'
    BY <1>1 DEF IInv, DeviceInv, FlagInv, DrawsCurrent, flags
  <1>4. ViewInv'
    BY <1>1 DEF IInv, ViewInv, GetBufferCount, flags
  <1> QED BY <1>2, <1>3, <1>4 DEF IInv

LEMMA OnResizeIInv == ASSUME IInv, OnResizeBuffers PROVE IInv'
  <1>1. /\ views' = Released /\ mustInitializeD3DResources' = TRUE
        /\ pc' = "resizing"
        /\ UNCHANGED <<firstTimeInitPerformed, isDeviceRetrieved, isRunningD3D12,
                       getCommandQueueCalled, bufferCount, bufferIndex, bound,
                       d3d12, swapChain, queueVars, aim>>
    BY DEF OnResizeBuffers
  <1>2. /\ views' \in [0 .. MaxBuffers - 1 -> {NoView} \cup 0 .. MaxResizes]
        /\ \A i \in 0 .. MaxBuffers - 1 : views'[i] = NoView
    BY <1>1 DEF IInv, TypeOK, ViewInv, Released
  <1>3. TypeOK'
    <2>1. TypeOK /\ ThreadTyped /\ ChainTyped /\ ViewTyped /\ QueueTyped /\ AimTyped
      BY TypeParts DEF IInv
    <2>2. ThreadTyped'
      BY <1>1, <2>1 DEF ThreadTyped
    <2>3. ViewTyped'
      BY <1>1, <1>2, <2>1 DEF ViewTyped
    <2>4. ChainTyped' /\ QueueTyped' /\ AimTyped'
      BY <1>1, <2>1, KeepsChain, KeepsQueues, KeepsAim
    <2> QED BY <2>2, <2>3, <2>4, TypedNext
  <1>4. DeviceInv' /\ FlagInv' /\ DrawsCurrent' /\ ViewInv'
    BY <1>1, <1>2 DEF IInv, DeviceInv, FlagInv, DrawsCurrent, ViewInv
  <1> QED BY <1>3, <1>4 DEF IInv

LEMMA ResizeIInv == ASSUME IInv, ResizeBuffers PROVE IInv'
  <1>1. /\ pc = "resizing" /\ pc' = "game"
        /\ UNCHANGED <<d3d12, flags, viewVars, queueVars, aim>>
        /\ mustInitializeD3DResources
    BY DEF IInv, FlagInv, ResizeBuffers
  <1>2. swapChain' \in [buffers : 1 .. MaxBuffers, generation : 0 .. MaxResizes]
    BY RendererAssumption DEF IInv, TypeOK, ResizeBuffers
  <1>3. TypeOK'
    <2>1. TypeOK /\ ThreadTyped /\ ChainTyped /\ ViewTyped /\ QueueTyped /\ AimTyped
      BY TypeParts DEF IInv
    <2>2. ThreadTyped'
      BY <1>1, <2>1 DEF ThreadTyped, flags
    <2>3. ChainTyped'
      BY <1>1, <1>2, <2>1 DEF ChainTyped
    <2>4. ViewTyped' /\ QueueTyped' /\ AimTyped'
      BY <1>1, <2>1, KeepsViews, KeepsQueues, KeepsAim
    <2> QED BY <2>2, <2>3, <2>4, TypedNext
  <1>4. DeviceInv' /\ FlagInv' /\ DrawsCurrent' /\ ViewInv'
    BY <1>1 DEF IInv, DeviceInv, FlagInv, DrawsCurrent, ViewInv,
                flags, viewVars
  <1> QED BY <1>3, <1>4 DEF IInv

LEMMA AimIInv == ASSUME IInv, Aim PROVE IInv'
  <1>1. aim \in [visible : BOOLEAN, buffer : BOOLEAN, shader : BOOLEAN,
                 drawn : {"nothing", "plain", "shaded"}]
    BY DEF IInv, TypeOK
  <1>2. aim' = [aim EXCEPT !.visible = ~aim.visible]
    BY DEF Aim
  <1>3. AimTyped'
    BY <1>1, <1>2 DEF AimTyped
  <1>4. TypeOK'
    BY <1>3, AimStep DEF IInv, Aim
  <1> QED BY <1>4, SameViews DEF Aim

LEMMA CountedType ==
  ASSUME TypeOK, NEW q \in Queues \cup {NoQueue}, NEW n \in Int
  PROVE  Counted(q, n) \in [Queues -> Int]
  BY DEF TypeOK, Counted

LEMMA SubmitIInv ==
  ASSUME IInv, NEW t \in Submitters, NEW q \in Queues, OnExecuteCommandLists(t, q)
  PROVE  IInv'
  <1>1. refs' \in [Queues -> Int]
    BY CountedType DEF IInv, OnExecuteCommandLists
  <1>2. [at |-> "load", queue |-> q, old |-> NoQueue]
          \in [at : {"idle", "load", "store"}, queue : Queues \cup {NoQueue},
              old : Queues \cup {NoQueue}]
    OBVIOUS
  <1>3. TypeOK /\ QueueTyped
    BY TypeParts DEF IInv
  <1>4. submit' \in [Submitters -> [at : {"idle", "load", "store"},
                                   queue : Queues \cup {NoQueue},
                                   old : Queues \cup {NoQueue}]]
    BY <1>2, <1>3 DEF QueueTyped, OnExecuteCommandLists
  <1>5. commandQueue' \in Queues \cup {NoQueue} /\ submitted' \subseteq Queues
    BY <1>3 DEF QueueTyped, OnExecuteCommandLists
  <1>6. QueueTyped'
    BY <1>1, <1>4, <1>5 DEF QueueTyped
  <1>7. TypeOK'
    BY <1>3, <1>6, QueueStep DEF OnExecuteCommandLists
  <1> QED BY <1>7, SameViews DEF OnExecuteCommandLists

LEMMA LoadIInv == ASSUME IInv, NEW t \in Submitters, LoadQueue(t) PROVE IInv'
  <1> DEFINE Places == [at : {"idle", "load", "store"},
                        queue : Queues \cup {NoQueue},
                        old : Queues \cup {NoQueue}]
  <1>1. submit \in [Submitters -> Places] /\ commandQueue \in Queues \cup {NoQueue}
    BY DEF IInv, TypeOK
  <1>2. [submit[t] EXCEPT !.at = "store", !.old = commandQueue] \in Places
    BY <1>1
  <1>3. submit' = [submit EXCEPT
                    ![t] = [submit[t] EXCEPT !.at = "store", !.old = commandQueue]]
    BY <1>1 DEF LoadQueue
  <1>4. submit' \in [Submitters -> Places]
    BY <1>1, <1>2, <1>3
  <1>5. TypeOK'
    <2>1. TypeOK /\ QueueTyped
      BY TypeParts DEF IInv
    <2>2. QueueTyped'
      BY <1>4, <2>1 DEF QueueTyped, LoadQueue
    <2> QED BY <2>1, <2>2, QueueStep DEF LoadQueue
  <1> QED BY <1>5, SameViews DEF LoadQueue

LEMMA StoreIInv == ASSUME IInv, NEW t \in Submitters, StoreQueue(t) PROVE IInv'
  <1>1. submit[t].old \in Queues \cup {NoQueue}
        /\ submit[t].queue \in Queues \cup {NoQueue}
    BY DEF IInv, TypeOK
  <1>2. refs' \in [Queues -> Int]
    <2>1. -1 \in Int /\ refs' = Counted(submit[t].old, -1) /\ TypeOK
      BY DEF IInv, StoreQueue
    <2>2. Counted(submit[t].old, -1) \in [Queues -> Int]
      BY <1>1, <2>1, CountedType
    <2> QED BY <2>1, <2>2
  <1>3. TypeOK'
    <2>1. TypeOK /\ QueueTyped
      BY TypeParts DEF IInv
    <2>2. AtRest \in [at : {"idle", "load", "store"}, queue : Queues \cup {NoQueue},
                     old : Queues \cup {NoQueue}]
      BY DEF AtRest
    <2>3. submit' \in [Submitters -> [at : {"idle", "load", "store"},
                                     queue : Queues \cup {NoQueue},
                                     old : Queues \cup {NoQueue}]]
      BY <2>1, <2>2 DEF QueueTyped, StoreQueue
    <2>4. commandQueue' \in Queues \cup {NoQueue} /\ submitted' \subseteq Queues
      BY <1>1, <2>1 DEF QueueTyped, StoreQueue
    <2>5. QueueTyped'
      BY <1>2, <2>3, <2>4 DEF QueueTyped
    <2> QED BY <2>1, <2>5, QueueStep DEF StoreQueue
  <1> QED BY <1>3, SameViews DEF StoreQueue

LEMMA StutterIInv == ASSUME IInv, UNCHANGED vars PROVE IInv'
  <1>1. TypeOK /\ ThreadTyped
    BY TypeParts DEF IInv
  <1>2. TypeOK'
    BY <1>1, KeepsThread, FlagStep DEF vars
  <1> QED BY <1>2, SameViews DEF vars

LEMMA NextIInv == IInv /\ [Next]_vars => IInv'
  BY ThrowIInv, OnPresentIInv, RetrieveIInv, WaitIInv, InitD3DIInv,
     PreRenderIInv, RenderCallbacksIInv, OnResizeIInv, ResizeIInv, AimIInv,
     GameBindsIInv,
     SubmitIInv, LoadIInv, StoreIInv, StutterIInv
  DEF Next, Frame, SetCommandQueue, RetrieveFails, InitD3D12Fails

LEMMA Invariant == Spec => []IInv
  BY InitIInv, NextIInv, PTL DEF Spec

\* Every state of the renderer is one of its types.
THEOREM RendererTypes == Spec => []TypeOK
  BY Invariant, PTL DEF IInv

\* OnResizeBuffers leaves nothing of the old buffers in the vectors, whatever the
\* number of buffers was when the views were made; what the context is bound to
\* is all that the mod may still refer to.
THEOREM VectorsEmptied == Spec => []OnlyBoundHeld
  <1>1. ASSUME IInv PROVE OnlyBoundHeld
    <2> SUFFICES ASSUME NEW i \in 0 .. MaxBuffers - 1
                 PROVE  /\ views[i] \in {NoView, swapChain.generation}
                        /\ pc = "resizing" => views[i] = NoView
      BY <1>1 DEF OnlyBoundHeld, IInv, TypeOK
    <2>1. bufferCount \in Int /\ i \in Int
      BY <1>1, RendererAssumption DEF IInv, TypeOK
    <2>2. mustInitializeD3DResources \in BOOLEAN
      BY <1>1 DEF IInv, TypeOK
    <2>3. CASE mustInitializeD3DResources
      BY <1>1, <2>3 DEF IInv, ViewInv
    <2>4. CASE ~mustInitializeD3DResources
      <3>1. pc # "resizing"
        BY <1>1, <2>4 DEF IInv, FlagInv
      <3>2. CASE i < bufferCount
        BY <1>1, <2>1, <2>4, <3>1, <3>2 DEF IInv, ViewInv
      <3>3. CASE i >= bufferCount
        BY <1>1, <3>1, <3>3 DEF IInv, ViewInv
      <3>4. QED
        BY <2>1, <3>2, <3>3
    <2>5. QED
      BY <2>2, <2>3, <2>4
  <1>2. QED
    BY <1>1, Invariant, PTL

\* OnPresent draws to the buffers as they are, however many resizes, failed
\* calls and waits for the command queue came before.
THEOREM DrawnIsCurrent == Spec => []DrawsCurrent
  BY Invariant, PTL DEF IInv

\* RenderCallbacks never draws the aim assist without its shader: whether it has
\* a buffer decides both, that it is drawn and that the shader is asked for.
THEOREM AimAlwaysShaded == Spec => []AimShaded
  <1>1. Init => AimShaded
    BY DEF Init, AimShaded
  <1>2. ASSUME IInv, AimShaded, [Next]_vars PROVE AimShaded'
    <2>1. CASE RenderCallbacks
      <3>1. DrawnAs # "plain"
        BY DEF DrawnAs, Batch
      <3>2. aim \in [visible : BOOLEAN, buffer : BOOLEAN, shader : BOOLEAN,
                     drawn : {"nothing", "plain", "shaded"}]
        BY <1>2 DEF IInv, TypeOK
      <3>3. aim'.drawn = DrawnAs
        BY <2>1, <3>2 DEF RenderCallbacks
      <3> QED BY <3>1, <3>3 DEF AimShaded
    <2>2. CASE Aim
      <3>1. aim \in [visible : BOOLEAN, buffer : BOOLEAN, shader : BOOLEAN,
                     drawn : {"nothing", "plain", "shaded"}]
        BY <1>2 DEF IInv, TypeOK
      <3>2. aim'.drawn = aim.drawn
        BY <2>2, <3>1 DEF Aim
      <3> QED BY <1>2, <3>2 DEF AimShaded
    <2>3. ASSUME UNCHANGED aim PROVE AimShaded'
      BY <1>2, <2>3 DEF AimShaded
    <2> QED
      BY <1>2, <2>1, <2>2, <2>3
      DEF Next, Frame, SetCommandQueue, vars, OnPresent, RetrieveD3DDevice,
          RetrieveFails, Throw, WaitForCommandQueue, InitD3D, InitD3D12Fails,
          PreRender, GameBinds, OnResizeBuffers, ResizeBuffers,
          OnExecuteCommandLists, LoadQueue, StoreQueue
  <1> QED BY <1>1, <1>2, Invariant, PTL DEF Spec

-----------------------------------------------------------------------------
(* The counts of the command queue.                                        *)

LEMMA PendingFinite ==
  /\ IsFiniteSet(Pending)
  /\ Cardinality(Pending) \in Nat
  <1>1. Pending \in SUBSET Submitters
    BY DEF Pending
  <1>2. IsFiniteSet(Pending)
    BY <1>1, FS_Subset, RendererAssumption
  <1> QED BY <1>2, FS_CardinalityType

LEMMA InitQueueInv == Init => QueueInv
  <1> SUFFICES ASSUME Init PROVE QueueInv
    OBVIOUS
  <1>1. Pending = {}
    BY DEF Init, Pending, AtRest
  <1>2. Cardinality(Pending) = 0
    BY <1>1, FS_EmptySet
  <1>3. ASSUME NEW q \in Queues PROVE OnlyQueue(q)
    <2>1. commandQueue = NoQueue /\ NoQueue # q /\ \A p \in Queues : refs[p] = 0
      BY RendererAssumption DEF Init
    <2> QED BY <1>1, <1>2, <2>1 DEF OnlyQueue
  <1> QED BY <1>3 DEF Init, QueueInv

LEMMA SubmitQueueInv ==
  ASSUME IInv, QueueInv, NEW t \in Submitters, NEW q \in Queues,
         OnExecuteCommandLists(t, q)
  PROVE  QueueInv'
  <1>1. /\ submit[t].at = "idle" /\ q \in DirectQueues
        /\ commandQueue # q /\ commandQueue' = commandQueue
        /\ refs' = [refs EXCEPT ![q] = @ + 1]
        /\ submit' = [submit EXCEPT
                        ![t] = [at |-> "load", queue |-> q, old |-> NoQueue]]
        /\ submitted' = submitted \cup {q}
    BY RendererAssumption DEF OnExecuteCommandLists, Accepted, Counted
  <1>2. refs \in [Queues -> Int] /\ DOMAIN submit = Submitters
    BY DEF IInv, TypeOK
  <1>3. t \notin Pending /\ Pending' = Pending \cup {t}
    BY <1>1, <1>2 DEF Pending
  <1>4. Cardinality(Pending') = Cardinality(Pending) + 1
    BY <1>3, PendingFinite, FS_AddElement
  <1>5. ASSUME NEW r \in Queues, submitted' \subseteq {r} PROVE OnlyQueue(r)'
    <2>1. r = q /\ OnlyQueue(q)
      BY <1>1, <1>5 DEF QueueInv
    <2>2. commandQueue = NoQueue /\ commandQueue' = NoQueue /\ NoQueue # q
      BY <1>1, <2>1, RendererAssumption DEF OnlyQueue
    <2>3. refs[q] >= Cardinality(Pending)
      BY <1>2, <2>1, <2>2, PendingFinite DEF OnlyQueue
    <2>4. refs'[q] >= Cardinality(Pending')
      BY <1>1, <1>2, <1>4, <2>3, PendingFinite
    <2>5. \A p \in Queues : p # q => refs'[p] = 0
      BY <1>1, <1>2, <2>1 DEF OnlyQueue
    <2>6. \A u \in Pending' : submit'[u].queue = q
                               /\ submit'[u].old \in {q, NoQueue}
      BY <1>1, <1>2, <1>3, <2>1 DEF OnlyQueue, Pending
    <2>7. \A u \in Pending' : submit'[u].old # q
      BY <1>1, <1>2, <1>3, <2>1, <2>2 DEF OnlyQueue, Pending
    <2>8. refs'[q] >= Cardinality(Pending') + 0
      BY <1>1, <1>2, <1>4, <2>4, PendingFinite
    <2> QED BY <2>1, <2>2, <2>5, <2>6, <2>7, <2>8 DEF OnlyQueue
  <1>6. submitted' \subseteq DirectQueues
    BY <1>1 DEF QueueInv
  <1> QED BY <1>5, <1>6 DEF QueueInv

LEMMA LoadQueueInv ==
  ASSUME IInv, QueueInv, NEW t \in Submitters, LoadQueue(t)
  PROVE  QueueInv'
  <1>1. /\ submit[t].at = "load"
        /\ UNCHANGED <<commandQueue, refs, submitted>>
        /\ submit' = [submit EXCEPT ![t].at = "store", ![t].old = commandQueue]
    BY DEF LoadQueue
  <1>2. submit \in [Submitters -> [at : {"idle", "load", "store"},
                                   queue : Queues \cup {NoQueue},
                                   old : Queues \cup {NoQueue}]]
    BY DEF IInv, TypeOK
  <1>3. /\ submit'[t].at = "store" /\ submit'[t].old = commandQueue
        /\ submit'[t].queue = submit[t].queue
        /\ \A u \in Submitters : u # t => submit'[u] = submit[u]
    BY <1>1, <1>2
  <1>4. Pending' = Pending /\ t \in Pending
    BY <1>1, <1>3 DEF Pending
  <1>5. ASSUME NEW r \in Queues, submitted \subseteq {r} PROVE OnlyQueue(r)'
    <2>1. OnlyQueue(r)
      BY <1>5 DEF QueueInv
    <2>2. \A u \in Pending : submit'[u].queue = r
                              /\ submit'[u].old \in {r, NoQueue}
      BY <1>3, <2>1 DEF OnlyQueue, Pending
    <2>3. \A u \in Pending : submit'[u].old = r => commandQueue = r
      BY <1>3, <2>1 DEF OnlyQueue, Pending
    <2> QED BY <1>1, <1>4, <2>1, <2>2, <2>3 DEF OnlyQueue
  <1> QED BY <1>1, <1>5 DEF QueueInv

LEMMA StoreQueueInv ==
  ASSUME IInv, QueueInv, NEW t \in Submitters, StoreQueue(t)
  PROVE  QueueInv'
  <1>1. /\ submit[t].at = "store" /\ submitted' = submitted
        /\ commandQueue' = submit[t].queue
        /\ refs' = Counted(submit[t].old, -1)
        /\ submit' = [submit EXCEPT ![t] = AtRest]
    BY DEF StoreQueue
  <1>2. refs \in [Queues -> Int] /\ DOMAIN submit = Submitters
    BY DEF IInv, TypeOK
  <1>3. t \in Pending /\ Pending' = Pending \ {t}
        /\ \A u \in Pending' : submit'[u] = submit[u]
    BY <1>1, <1>2 DEF Pending, AtRest
  <1>4. Cardinality(Pending') = Cardinality(Pending) - 1
    BY <1>3, PendingFinite, FS_RemoveElement
  <1>5. ASSUME NEW r \in Queues, submitted \subseteq {r} PROVE OnlyQueue(r)'
    <2>1. OnlyQueue(r)
      BY <1>5 DEF QueueInv
    <2>2. commandQueue' = r /\ submit[t].old \in {r, NoQueue}
          /\ (submit[t].old = r => commandQueue = r)
      BY <1>1, <1>3, <2>1 DEF OnlyQueue
    <2>3. refs[r] \in Int /\ Cardinality(Pending) \in Nat
      BY <1>2, PendingFinite
    <2>4. CASE submit[t].old = NoQueue
      <3>1. refs' = refs
        BY <1>1, <2>4 DEF Counted
      <3>2. refs[r] >= Cardinality(Pending)
        BY <2>1, <2>3 DEF OnlyQueue
      <3>3. refs'[r] >= Cardinality(Pending') + 1
        BY <1>4, <2>3, <3>1, <3>2
      <3>4. \A p \in Queues : p # r => refs'[p] = 0
        BY <2>1, <3>1 DEF OnlyQueue
      <3> QED BY <1>3, <2>1, <2>2, <3>3, <3>4 DEF OnlyQueue
    <2>5. CASE submit[t].old = r
      <3>1. refs' = [refs EXCEPT ![r] = @ + -1] /\ commandQueue = r
        BY <1>1, <2>2, <2>5, RendererAssumption DEF Counted
      <3>2. refs[r] >= Cardinality(Pending) + 1
        BY <2>1, <2>3, <3>1 DEF OnlyQueue
      <3>3. refs'[r] >= Cardinality(Pending') + 1
        BY <1>2, <1>4, <2>3, <3>1, <3>2
      <3>4. \A p \in Queues : p # r => refs'[p] = 0
        BY <1>2, <2>1, <3>1 DEF OnlyQueue
      <3> QED BY <1>3, <2>1, <2>2, <3>3, <3>4 DEF OnlyQueue
    <2> QED BY <2>2, <2>4, <2>5
  <1> QED BY <1>1, <1>5 DEF QueueInv

LEMMA SameQueues == ASSUME QueueInv, UNCHANGED queueVars PROVE QueueInv'
  BY DEF QueueInv, OnlyQueue, Pending, queueVars

LEMMA NextQueueInv == IInv /\ QueueInv /\ [Next]_vars => QueueInv'
  <1> SUFFICES ASSUME IInv, QueueInv, [Next]_vars PROVE QueueInv'
    OBVIOUS
  <1>1. CASE \E t \in Submitters, q \in Queues : OnExecuteCommandLists(t, q)
    BY <1>1, SubmitQueueInv
  <1>2. CASE \E t \in Submitters : SetCommandQueue(t)
    BY <1>2, LoadQueueInv, StoreQueueInv DEF SetCommandQueue
  <1>3. CASE \/ OnPresent \/ Frame \/ OnResizeBuffers \/ ResizeBuffers
            \/ Aim \/ GameBinds
    <2>1. UNCHANGED queueVars
      BY <1>3 DEF OnPresent, Frame, OnResizeBuffers, ResizeBuffers, Aim, Throw,
         GameBinds, RetrieveD3DDevice, RetrieveFails, WaitForCommandQueue, InitD3D,
         InitD3D12Fails, PreRender, RenderCallbacks
    <2> QED BY <2>1, SameQueues
  <1>4. CASE UNCHANGED vars
    BY <1>4, SameQueues DEF vars, queueVars
  <1> QED BY <1>1, <1>2, <1>3, <1>4 DEF Next

LEMMA QueueInvOwned == IInv /\ QueueInv => QueueOwned
  <1> SUFFICES ASSUME IInv, QueueInv,
                      Cardinality(submitted \cap DirectQueues) <= 1,
                      NEW p \in Queues
               PROVE  refs[p] >= IF commandQueue = p THEN 1 ELSE 0
    BY DEF QueueOwned
  <1>1. submitted \cap DirectQueues = submitted /\ submitted \in SUBSET Queues
    BY DEF IInv, TypeOK, QueueInv
  <1>2. IsFiniteSet(submitted) /\ Cardinality(submitted) \in Nat
    BY <1>1, FS_Subset, FS_CardinalityType, RendererAssumption
  <1>3. Cardinality(submitted) = 0 \/ Cardinality(submitted) = 1
    <2>1. \A n \in Nat : n <= 1 => n = 0 \/ n = 1
      OBVIOUS
    <2>2. Cardinality(submitted) <= 1
      BY <1>1, Zenon
    <2> QED BY <1>2, <2>1, <2>2, Zenon
  <1>4. PICK q \in Queues : submitted \subseteq {q} /\ (submitted = {} => q = p)
    <2>1. CASE submitted = {}
      BY <2>1
    <2>2. CASE submitted # {}
      <3>1. Cardinality(submitted) = 1
        BY <1>2, <1>3, <2>2, FS_EmptySet
      <3>2. PICK q : submitted = {q}
        BY <1>2, <3>1, FS_Singleton
      <3> QED BY <1>1, <2>2, <3>2
    <2> QED BY <2>1, <2>2
  <1>5. OnlyQueue(q) /\ refs[q] \in Int /\ Cardinality(Pending) \in Nat
    BY <1>4, PendingFinite DEF QueueInv, IInv, TypeOK
  <1>6. CASE p = q
    BY <1>5, <1>6 DEF OnlyQueue
  <1>7. CASE p # q
    BY <1>5, <1>7, RendererAssumption DEF OnlyQueue
  <1> QED BY <1>6, <1>7

\* SetCommandQueue, run by any number of threads at once, never gives up the
\* queue in use while the game submits to one direct queue only.
THEOREM QueueAlwaysOwned == Spec => []QueueOwned
  <1>1. Init => QueueInv
    BY InitQueueInv
  <1>2. IInv /\ QueueInv /\ [Next]_vars => QueueInv'
    BY NextQueueInv
  <1>3. IInv /\ QueueInv => QueueOwned
    BY QueueInvOwned
  <1> QED BY Invariant, <1>1, <1>2, <1>3, PTL DEF Spec
=============================================================================
