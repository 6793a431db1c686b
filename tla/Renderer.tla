------------------------------ MODULE Renderer ------------------------------
(***************************************************************************)
(* The renderer of the overlays: OnPresent and OnResizeBuffers, which the  *)
(* game's presenting thread runs before the calls it made itself, and      *)
(* SetCommandQueue, which any thread of the game runs when it submits to a *)
(* direct queue of Direct3D 12.  What is drawn is told apart for the one   *)
(* overlay that asks for a shader, the aim assist.                         *)
(*                                                                         *)
(* A view stands for what the three vectors of views, render targets and   *)
(* wrapped buffers hold for one buffer: the generation of the swap chain's *)
(* buffers it refers to.                                                   *)
(***************************************************************************)
EXTENDS Integers, FiniteSets

CONSTANTS
  MaxBuffers,      \* buffers of a swap chain
  MaxResizes,      \* bound: successful calls of ResizeBuffers
  Queues,          \* command queues of the game
  DirectQueues,    \* those of type direct
  Submitters,      \* threads that submit to them
  MaxRefs,         \* bound: references to a queue
  NoQueue,
  Failures         \* the calls of Direct3D that may fail

ASSUME RendererAssumption ==
  /\ MaxBuffers \in Nat \ {0}
  /\ MaxResizes \in Nat
  /\ DirectQueues \subseteq Queues
  /\ NoQueue \notin Queues
  /\ MaxRefs \in Nat \ {0}
  /\ IsFiniteSet(Queues)
  /\ IsFiniteSet(Submitters)
  /\ Failures \subseteq {"device", "d3d12", "view", "shader"}

NoView == -1

VARIABLES
  d3d12,        \* the game uses Direct3D 12
  swapChain,    \* its buffers: how many, and how often they were replaced
  pc,           \* where the presenting thread is
  mustInitializeD3DResources, firstTimeInitPerformed, isDeviceRetrieved,
  isRunningD3D12, getCommandQueueCalled,
  bufferCount, bufferIndex,
  views,        \* the generation each view refers to
  bound,        \* the one of the view the context draws to, which it refers to
  commandQueue,
  refs,         \* references to the queues that commandQueue accounts for
  submit,       \* SetCommandQueue: where a thread is, its queue and the old one
  submitted,    \* history: queues given to SetCommandQueue
  aim           \* the overlay: visible, its buffer, its shader, last drawn as

flags == <<mustInitializeD3DResources, firstTimeInitPerformed,
           isDeviceRetrieved, isRunningD3D12, getCommandQueueCalled>>
queueVars == <<commandQueue, refs, submit, submitted>>
viewVars == <<bufferCount, bufferIndex, views, bound>>
vars == <<d3d12, swapChain, pc, flags, viewVars, queueVars, aim>>

AtRest == [at |-> "idle", queue |-> NoQueue, old |-> NoQueue]

TypeOK ==
  /\ d3d12 \in BOOLEAN
  /\ swapChain \in [buffers : 1 .. MaxBuffers, generation : 0 .. MaxResizes]
  /\ pc \in {"game", "retrieve", "queue", "create", "render", "drawing",
             "resizing", "terminated"}
  /\ mustInitializeD3DResources \in BOOLEAN
  /\ firstTimeInitPerformed \in BOOLEAN
  /\ isDeviceRetrieved \in BOOLEAN
  /\ isRunningD3D12 \in BOOLEAN
  /\ getCommandQueueCalled \in BOOLEAN
  /\ bufferCount \in 0 .. MaxBuffers
  /\ bufferIndex \in 0 .. MaxBuffers - 1
  /\ views \in [0 .. MaxBuffers - 1 -> {NoView} \cup 0 .. MaxResizes]
  /\ bound \in {NoView} \cup 0 .. MaxResizes
  /\ commandQueue \in Queues \cup {NoQueue}
  /\ refs \in [Queues -> Int]
  /\ submit \in [Submitters -> [at : {"idle", "load", "store"},
                                queue : Queues \cup {NoQueue},
                                old : Queues \cup {NoQueue}]]
  /\ submitted \subseteq Queues
  /\ aim \in [visible : BOOLEAN, buffer : BOOLEAN, shader : BOOLEAN,
              drawn : {"nothing", "plain", "shaded"}]

Init ==
  /\ d3d12 \in BOOLEAN
  /\ swapChain \in [buffers : 1 .. MaxBuffers, generation : {0}]
  /\ pc = "game"
  /\ mustInitializeD3DResources = TRUE
  /\ firstTimeInitPerformed = FALSE
  /\ isDeviceRetrieved = FALSE
  /\ isRunningD3D12 = FALSE
  /\ getCommandQueueCalled = FALSE
  /\ bufferCount = 0
  /\ bufferIndex = 0
  /\ views = [i \in 0 .. MaxBuffers - 1 |-> NoView]
  /\ bound = NoView
  /\ commandQueue = NoQueue
  /\ refs = [q \in Queues |-> 0]
  /\ submit = [t \in Submitters |-> AtRest]
  /\ submitted = {}
  /\ aim = [visible |-> FALSE, buffer |-> FALSE, shader |-> FALSE,
            drawn |-> "nothing"]

-----------------------------------------------------------------------------
(* The presenting thread.  What the renderer throws is not caught by it:   *)
(* the handler is for strings, and character pointers are thrown.          *)

Throw ==
  /\ pc' = "terminated"
  /\ UNCHANGED <<d3d12, swapChain, flags, viewVars, queueVars, aim>>

OnPresent ==
  /\ pc = "game"
  /\ pc' = IF mustInitializeD3DResources THEN "retrieve" ELSE "render"
  /\ UNCHANGED <<d3d12, swapChain, flags, viewVars, queueVars, aim>>

\* Only the first initialization asks the swap chain for its device.
RetrieveD3DDevice ==
  /\ pc = "retrieve"
  /\ \/ /\ isDeviceRetrieved
        /\ UNCHANGED <<isDeviceRetrieved, isRunningD3D12>>
     \/ /\ ~isDeviceRetrieved
        /\ isDeviceRetrieved' = TRUE
        /\ isRunningD3D12' = d3d12
  /\ pc' = "queue"
  /\ UNCHANGED <<mustInitializeD3DResources, firstTimeInitPerformed,
                 getCommandQueueCalled, d3d12, swapChain, viewVars,
                 queueVars, aim>>

RetrieveFails ==
  /\ pc = "retrieve"
  /\ ~isDeviceRetrieved
  /\ "device" \in Failures
  /\ Throw

Waiting == isRunningD3D12 /\ commandQueue = NoQueue

\* The first wait has the submissions of the game hooked; a frame that waits
\* draws nothing and leaves the initialization to the next one.
WaitForCommandQueue ==
  /\ pc = "queue"
  /\ pc' = IF Waiting THEN "game" ELSE "create"
  /\ getCommandQueueCalled' = (getCommandQueueCalled \/ Waiting)
  /\ UNCHANGED <<mustInitializeD3DResources, firstTimeInitPerformed,
                 isDeviceRetrieved, isRunningD3D12, d3d12, swapChain,
                 viewVars, queueVars, aim>>

\* MUTANTS of GetBufferCount: the views of one buffer, whatever the game uses;
\* one too many.
OneBuffer == 1

OneBufferMore == swapChain.buffers + 1

GetBufferCount == IF isRunningD3D12 THEN swapChain.buffers ELSE 1

NoViews == [i \in 0 .. MaxBuffers - 1 |-> NoView]

\* Fresh vectors of that many views, each of a buffer as it now is.
CreatedViews ==
  [i \in 0 .. MaxBuffers - 1 |->
    IF i < GetBufferCount THEN swapChain.generation ELSE NoView]

\* The view of Direct3D 11 may fail to be created, which is not checked.
InitD3D ==
  /\ pc = "create"
  /\ bufferCount' = GetBufferCount
  /\ \/ views' = CreatedViews
     \/ /\ ~isRunningD3D12
        /\ "view" \in Failures
        /\ views' = NoViews
  /\ firstTimeInitPerformed' = TRUE
  /\ mustInitializeD3DResources' = FALSE
  /\ pc' = "render"
  /\ UNCHANGED <<isDeviceRetrieved, isRunningD3D12, getCommandQueueCalled,
                 bufferIndex, bound, d3d12, swapChain, queueVars, aim>>

InitD3D12Fails ==
  /\ pc = "create"
  /\ isRunningD3D12
  /\ "d3d12" \in Failures
  /\ Throw

\* The buffers GetCurrentBackBufferIndex may answer.
BackBuffers == 0 .. swapChain.buffers - 1

\* The buffer the swap chain is at; of Direct3D 11 always the first.  Its view,
\* or none if it could not be created, takes the place of what was bound.
PreRender ==
  /\ pc = "render"
  /\ IF isRunningD3D12
     THEN bufferIndex' \in BackBuffers
     ELSE UNCHANGED bufferIndex
  /\ bound' = views[bufferIndex']
  /\ pc' = "drawing"
  /\ UNCHANGED <<d3d12, swapChain, flags, bufferCount, views, queueVars, aim>>

\* MUTANT of Batch: an overlay is drawn in the frame that loads its shader.
BatchAtOnce == IF aim.buffer /\ aim.shader THEN "shaded" ELSE "plain"

\* How the overlay is drawn: it has an ID as soon as it has a buffer, and the
\* frame that has to load its shader leaves it out.
Batch ==
  CASE ~aim.buffer -> "plain"
    [] aim.buffer /\ aim.shader -> "shaded"
    [] OTHER -> "nothing"

LoadsShader == aim.buffer /\ ~aim.shader

\* It draws nothing in the frame that makes its buffer.
DrawnAs == IF aim.visible /\ aim.buffer THEN Batch ELSE "nothing"

\* RenderCallbacks and PostRender.
RenderCallbacks ==
  /\ pc = "drawing"
  /\ \E compiled \in {TRUE} \cup {f \in {FALSE} : "shader" \in Failures} :
       aim' = [aim EXCEPT !.shader = @ \/ (LoadsShader /\ compiled),
                          !.buffer = @ \/ aim.visible,
                          !.drawn = DrawnAs]
  /\ pc' = "game"
  /\ UNCHANGED <<d3d12, swapChain, flags, viewVars, queueVars>>

\* With Direct3D 11 the context is the game's own, which may draw elsewhere.
GameBinds ==
  /\ pc = "game"
  /\ ~isRunningD3D12
  /\ bound' = NoView
  /\ UNCHANGED <<d3d12, swapChain, pc, flags, bufferCount, bufferIndex, views,
                 queueVars, aim>>

\* MUTANT of Released: one view is left.
ReleasedButOne ==
  [i \in DOMAIN views |-> IF i < bufferCount - 1 THEN NoView ELSE views[i]]

Released ==
  [i \in DOMAIN views |-> IF i < bufferCount THEN NoView ELSE views[i]]

\* The vectors are emptied and the context is flushed, which unbinds nothing.
OnResizeBuffers ==
  /\ pc = "game"
  /\ views' = Released
  /\ mustInitializeD3DResources' = TRUE
  /\ pc' = "resizing"
  /\ UNCHANGED <<firstTimeInitPerformed, isDeviceRetrieved, isRunningD3D12,
                 getCommandQueueCalled, bufferCount, bufferIndex, bound, d3d12,
                 swapChain, queueVars, aim>>

\* The game's own call, after the hook: it may fail and replace nothing, for a
\* buffer that is still referred to or for any other reason.
ResizeBuffers ==
  /\ pc = "resizing"
  /\ \/ UNCHANGED swapChain
     \/ /\ swapChain.generation < MaxResizes
        /\ \E n \in 1 .. MaxBuffers :
             swapChain' = [buffers |-> n,
                           generation |-> swapChain.generation + 1]
  /\ pc' = "game"
  /\ UNCHANGED <<d3d12, flags, viewVars, queueVars, aim>>

\* Whether the player aims at something, as AttachToHead reports it.
Aim ==
  /\ pc # "terminated"
  /\ aim' = [aim EXCEPT !.visible = ~@]
  /\ UNCHANGED <<d3d12, swapChain, pc, flags, viewVars, queueVars>>

-----------------------------------------------------------------------------
(* SetCommandQueue, on a thread that submits to a queue: the assignment    *)
(* counts the new queue, loads the old one, stores the new one and drops   *)
(* the count of the old one.                                               *)

\* MUTANT of Accepted: the type of the queue is not tested.
AcceptedAny(q) == q \in Queues

\* MUTANT of Accepted: the test is inverted.
AcceptedOthers(q) == q \notin DirectQueues

Accepted(q) == q \in DirectQueues

Counted(q, n) == IF q = NoQueue THEN refs ELSE [refs EXCEPT ![q] = @ + n]

OnExecuteCommandLists(t, q) ==
  /\ pc # "terminated"
  /\ getCommandQueueCalled
  /\ submit[t].at = "idle"
  /\ Accepted(q)
  /\ commandQueue # q
  /\ refs[q] < MaxRefs
  /\ refs' = Counted(q, 1)
  /\ submit' = [submit EXCEPT ![t] = [at |-> "load", queue |-> q, old |-> NoQueue]]
  /\ submitted' = submitted \cup {q}
  /\ UNCHANGED <<d3d12, swapChain, pc, flags, viewVars, commandQueue, aim>>

LoadQueue(t) ==
  /\ pc # "terminated"
  /\ submit[t].at = "load"
  /\ submit' = [submit EXCEPT ![t].at = "store", ![t].old = commandQueue]
  /\ UNCHANGED <<d3d12, swapChain, pc, flags, viewVars, commandQueue, refs,
                 submitted, aim>>

StoreQueue(t) ==
  /\ pc # "terminated"
  /\ submit[t].at = "store"
  /\ commandQueue' = submit[t].queue
  /\ refs' = Counted(submit[t].old, -1)
  /\ submit' = [submit EXCEPT ![t] = AtRest]
  /\ UNCHANGED <<d3d12, swapChain, pc, flags, viewVars, submitted, aim>>

-----------------------------------------------------------------------------
Frame ==
  \/ RetrieveD3DDevice \/ RetrieveFails \/ WaitForCommandQueue
  \/ InitD3D \/ InitD3D12Fails \/ PreRender \/ RenderCallbacks

SetCommandQueue(t) == LoadQueue(t) \/ StoreQueue(t)

Next ==
  \/ OnPresent \/ Frame \/ OnResizeBuffers \/ ResizeBuffers \/ Aim \/ GameBinds
  \/ \E t \in Submitters, q \in Queues : OnExecuteCommandLists(t, q)
  \/ \E t \in Submitters : SetCommandQueue(t)

Spec == Init /\ [][Next]_vars

\* The game presents again and again whatever else it calls, a call it makes
\* returns, and of Direct3D 12 it submits to a direct queue.
FairSpec ==
  /\ Spec
  /\ SF_vars(OnPresent)
  /\ WF_vars(Frame)
  /\ WF_vars(ResizeBuffers)
  /\ WF_vars(\E t \in Submitters, q \in DirectQueues : OnExecuteCommandLists(t, q))
  /\ \A t \in Submitters : WF_vars(SetCommandQueue(t))

-----------------------------------------------------------------------------
\* When the game's ResizeBuffers runs, nothing of any buffer is left in the
\* renderer's vectors, and at no time is anything there of buffers that were
\* replaced, whatever number of buffers the vectors were made for.  It does not
\* say that the mod refers to no buffer: the view its last frame was drawn to
\* stays bound to the context.
OnlyBoundHeld ==
  \A i \in DOMAIN views :
    /\ views[i] \in {NoView, swapChain.generation}
    /\ pc = "resizing" => views[i] = NoView

\* A frame is drawn to a view of the buffer the swap chain is at, as it is now,
\* however often buffers were replaced and their number changed in between;
\* only a view of Direct3D 11 that could not be created may be missing.
DrawsCurrent ==
  pc = "drawing" =>
    /\ bufferIndex < bufferCount
    /\ \/ bound = swapChain.generation
       \/ ~isRunningD3D12 /\ "view" \in Failures /\ bound = NoView

\* The aim assist is never drawn outside of its shader, although the shader is
\* loaded by the renderer and its buffer made by the overlay, in other frames.
AimShaded == aim.drawn # "plain"

\* Threads that assign the same queue at once leave it counted: while the game
\* submits to one direct queue only, the queue in use is never released, and no
\* queue is released more often than it was counted.
QueueOwned ==
  Cardinality(submitted \cap DirectQueues) <= 1 =>
    \A q \in Queues : refs[q] >= IF commandQueue = q THEN 1 ELSE 0

\* If nothing fails, an aim assist that stays visible is drawn, also with a
\* command queue to wait for and buffers replaced meanwhile.
Appears == <>[]aim.visible => <>(aim.drawn = "shaded")
=============================================================================
