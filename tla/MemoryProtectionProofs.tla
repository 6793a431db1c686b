----------------------- MODULE MemoryProtectionProofs -----------------------
(***************************************************************************)
(* For any addresses on any pages: types, memory that is open when it is   *)
(* used, a history that is empty between calls, and copies and fills that  *)
(* leave the protection of every page as it was.                           *)
(***************************************************************************)
EXTENDS MemoryProtection, TLAPS

Opened(p, a) == [p EXCEPT ![PageOf[a]] = RWX]

Quiet == prot = before /\ DOMAIN protectionHistory = {}

OpenFor(a) ==
  /\ prot = Opened(before, a)
  /\ DOMAIN protectionHistory = {a}
  /\ protectionHistory[a] = before[PageOf[a]]

OpenForBoth(d, s) ==
  /\ prot = Opened(Opened(before, d), s)
  /\ DOMAIN protectionHistory = {d, s}
  /\ protectionHistory[d] = before[PageOf[d]]
  /\ d # s => protectionHistory[s] = Opened(before, d)[PageOf[s]]

\* How far each call has come, and what is open then.
Filling(a) ==
  /\ operations = Fill(a)
  /\ step \in 1 .. 4
  /\ step \in {1, 4} => Quiet
  /\ step \in {2, 3} => OpenFor(a)

Copying(d, s) ==
  /\ operations = Copy(d, s)
  /\ step \in 1 .. 7
  /\ step \in {1, 7} => Quiet
  /\ step = 2 => OpenFor(d)
  /\ step \in {3, 4, 5} => OpenForBoth(d, s)
  /\ step = 6 => IF d = s THEN Quiet ELSE OpenFor(d)

Swapping(p, r) ==
  /\ p # r
  /\ operations = Swap(p, r)
  /\ step \in 1 .. 7
  /\ DOMAIN protectionHistory =
       IF step \in {1, 7} THEN {}
       ELSE IF step = 2 THEN {p}
       ELSE IF step = 6 THEN {r}
       ELSE {p, r}
  /\ step \in {2, 3, 4} => prot[PageOf[p]] = RWX
  /\ step \in {3, 4} => prot[PageOf[r]] = RWX

AtFirst == call = "none" /\ operations = <<>> /\ step = 1 /\ Quiet

Progress ==
  \/ AtFirst
  \/ call = "MemSet" /\ \E a \in Addresses : Filling(a)
  \/ call = "MemCopy" /\ \E d, s \in Addresses : Copying(d, s)
  \/ call = "HookSwapChain" /\ \E p, r \in Addresses : Swapping(p, r)

IInv == TypeOK /\ Progress

-----------------------------------------------------------------------------
LEMMA PagesOf ==
  /\ \A a \in Addresses : PageOf[a] \in Pages
  /\ RWX \in Protections
  /\ \A p \in Pages : Original[p] \in Protections
  BY MemoryProtectionAssumption DEF Pages, Protections

LEMMA FillSteps ==
  ASSUME NEW a \in Addresses
  PROVE  /\ Fill(a) \in Seq(Operations) /\ Len(Fill(a)) = 3
         /\ Fill(a)[1] = <<"open", a>> /\ Fill(a)[2] = <<"use", a>>
         /\ Fill(a)[3] = <<"close", a>>
  BY DEF Fill, Operations

LEMMA CopySteps ==
  ASSUME NEW d \in Addresses, NEW s \in Addresses
  PROVE  /\ Copy(d, s) \in Seq(Operations) /\ Len(Copy(d, s)) = 6
         /\ Copy(d, s)[1] = <<"open", d>> /\ Copy(d, s)[2] = <<"open", s>>
         /\ Copy(d, s)[3] = <<"use", d>> /\ Copy(d, s)[4] = <<"use", s>>
         /\ Copy(d, s)[5] = <<"close", s>> /\ Copy(d, s)[6] = <<"close", d>>
  BY DEF Copy, Operations

LEMMA SwapSteps ==
  ASSUME NEW p \in Addresses, NEW r \in Addresses
  PROVE  /\ Swap(p, r) \in Seq(Operations) /\ Len(Swap(p, r)) = 6
         /\ Swap(p, r)[1] = <<"open", p>> /\ Swap(p, r)[2] = <<"open", r>>
         /\ Swap(p, r)[3] = <<"use", p>> /\ Swap(p, r)[4] = <<"use", r>>
         /\ Swap(p, r)[5] = <<"close", p>> /\ Swap(p, r)[6] = <<"close", r>>
  BY DEF Swap, Operations

\* Which of the operations of a call use an address.
LEMMA UsesOfFill ==
  ASSUME NEW a \in Addresses, NEW n \in 1 .. 3, Fill(a)[n][1] = "use"
  PROVE  n = 2
  <1>1. n = 1 \/ n = 2 \/ n = 3
    OBVIOUS
  <1>2. n # 1
    BY FillSteps
  <1>3. n # 3
    BY FillSteps
  <1> QED BY <1>1, <1>2, <1>3

LEMMA UsesOfCopy ==
  ASSUME NEW d \in Addresses, NEW s \in Addresses, NEW n \in 1 .. 6,
         Copy(d, s)[n][1] = "use"
  PROVE  n = 3 \/ n = 4
  <1>1. n = 1 \/ n = 2 \/ n = 3 \/ n = 4 \/ n = 5 \/ n = 6
    OBVIOUS
  <1>2. n # 1 /\ n # 2
    BY CopySteps
  <1>3. n # 5 /\ n # 6
    BY CopySteps
  <1> QED BY <1>1, <1>2, <1>3

LEMMA UsesOfSwap ==
  ASSUME NEW p \in Addresses, NEW r \in Addresses, NEW n \in 1 .. 6,
         Swap(p, r)[n][1] = "use"
  PROVE  n = 3 \/ n = 4
  <1>1. n = 1 \/ n = 2 \/ n = 3 \/ n = 4 \/ n = 5 \/ n = 6
    OBVIOUS
  <1>2. n # 1 /\ n # 2
    BY SwapSteps
  <1>3. n # 5 /\ n # 6
    BY SwapSteps
  <1> QED BY <1>1, <1>2, <1>3

LEMMA InitIInv == Init => IInv
  <1> SUFFICES ASSUME Init PROVE IInv
    OBVIOUS
  <1>1. Original \in [Pages -> Protections]
    <2>1. Original = [p \in Pages |-> Original[p]]
      BY MemoryProtectionAssumption DEF Pages
    <2> QED BY <2>1, PagesOf
  <1>2. DOMAIN protectionHistory = {}
    BY DEF Init
  <1>3. TypeOK
    BY <1>1, <1>2 DEF Init, TypeOK, Calls, MaxOperations
  <1>4. AtFirst
    BY <1>2 DEF Init, AtFirst, Quiet
  <1> QED BY <1>3, <1>4 DEF IInv, Progress

-----------------------------------------------------------------------------
\* What is left of each call once it is done.
LEMMA FillingDone ==
  ASSUME NEW a \in Addresses, Filling(a), IsDone PROVE Quiet
  <1>1. operations = Fill(a) /\ step \in 1 .. 4 /\ (step \in {1, 4} => Quiet)
    BY DEF Filling
  <1>2. step > 3
    BY <1>1, FillSteps DEF IsDone
  <1>3. step = 4
    BY <1>1, <1>2
  <1> QED BY <1>1, <1>3

LEMMA CopyingDone ==
  ASSUME NEW d \in Addresses, NEW s \in Addresses, Copying(d, s), IsDone PROVE Quiet
  <1>1. operations = Copy(d, s) /\ step \in 1 .. 7 /\ (step \in {1, 7} => Quiet)
    BY DEF Copying
  <1>2. step > 6
    BY <1>1, CopySteps DEF IsDone
  <1>3. step = 7
    BY <1>1, <1>2
  <1> QED BY <1>1, <1>3

LEMMA SwappingDone ==
  ASSUME NEW p \in Addresses, NEW r \in Addresses, Swapping(p, r), IsDone
  PROVE  DOMAIN protectionHistory = {}
  <1>1. operations = Swap(p, r) /\ step \in 1 .. 7
    BY DEF Swapping
  <1>2. step > 6
    BY <1>1, SwapSteps DEF IsDone
  <1>3. step = 7
    BY <1>1, <1>2
  <1> QED BY <1>3 DEF Swapping

LEMMA BeginQuiet ==
  ASSUME IInv, IsDone, prot' = prot, protectionHistory' = protectionHistory,
         before' = prot
  PROVE  /\ DOMAIN protectionHistory = {}
         /\ Quiet'
  <1>1. DOMAIN protectionHistory = {}
    <2>1. CASE AtFirst
      BY <2>1 DEF AtFirst, Quiet
    <2>2. ASSUME NEW a \in Addresses, Filling(a) PROVE DOMAIN protectionHistory = {}
      BY <2>2, FillingDone DEF Quiet
    <2>3. ASSUME NEW d \in Addresses, NEW s \in Addresses, Copying(d, s)
          PROVE  DOMAIN protectionHistory = {}
      BY <2>3, CopyingDone DEF Quiet
    <2>4. ASSUME NEW p \in Addresses, NEW r \in Addresses, Swapping(p, r)
          PROVE  DOMAIN protectionHistory = {}
      BY <2>4, SwappingDone
    <2> QED BY <2>1, <2>2, <2>3, <2>4 DEF IInv, Progress
  <1> QED BY <1>1 DEF Quiet

LEMMA BeginType ==
  ASSUME TypeOK, NEW name \in Calls, NEW does \in Seq(Operations), Begin(name, does)
  PROVE  TypeOK'
  BY DEF TypeOK, Begin, MaxOperations

LEMMA MemSetIInv == ASSUME IInv, NEW a \in Addresses, MemSet(a) PROVE IInv'
  <1>1. TypeOK'
    BY BeginType, FillSteps DEF MemSet, IInv, Calls
  <1>2. Quiet' /\ call' = "MemSet" /\ operations' = Fill(a) /\ step' = 1
    BY BeginQuiet DEF MemSet, Begin
  <1>3. Filling(a)'
    BY <1>2 DEF Filling, Fill
  <1> QED BY <1>1, <1>2, <1>3 DEF IInv, Progress

LEMMA MemCopyIInv ==
  ASSUME IInv, NEW d \in Addresses, NEW s \in Addresses, MemCopy(d, s) PROVE IInv'
  <1>1. TypeOK'
    BY BeginType, CopySteps DEF MemCopy, IInv, Calls
  <1>2. Quiet' /\ call' = "MemCopy" /\ operations' = Copy(d, s) /\ step' = 1
    BY BeginQuiet DEF MemCopy, Begin
  <1>3. Copying(d, s)'
    BY <1>2 DEF Copying, Copy
  <1> QED BY <1>1, <1>2, <1>3 DEF IInv, Progress

LEMMA HookSwapChainIInv ==
  ASSUME IInv, NEW p \in Addresses, NEW r \in Addresses, HookSwapChain(p, r)
  PROVE  IInv'
  <1>1. TypeOK'
    BY BeginType, SwapSteps DEF HookSwapChain, IInv, Calls
  <1>2. /\ Quiet' /\ call' = "HookSwapChain" /\ operations' = Swap(p, r)
        /\ step' = 1 /\ p # r
    BY BeginQuiet DEF HookSwapChain, Begin
  <1>3. Swapping(p, r)'
    BY <1>2 DEF Swapping, Swap, Quiet
  <1> QED BY <1>1, <1>2, <1>3 DEF IInv, Progress

-----------------------------------------------------------------------------
(* A step of a call: what it does to the page and to the history.          *)

\* What Does leaves alone.
Goes == step' = step + 1 /\ UNCHANGED <<call, operations, before>>

LEMMA OpenEffect ==
  ASSUME IInv, NEW a \in Addresses, Open(a)
  PROVE  /\ a \in DOMAIN protectionHistory =>
              UNCHANGED <<prot, protectionHistory>>
         /\ a \notin DOMAIN protectionHistory =>
              /\ prot' = Opened(prot, a)
              /\ DOMAIN protectionHistory' = DOMAIN protectionHistory \cup {a}
              /\ protectionHistory'[a] = prot[PageOf[a]]
              /\ \A b \in DOMAIN protectionHistory :
                   protectionHistory'[b] = protectionHistory[b]
  BY DEF Open, Opens, Remembered, Protect, Opened

LEMMA CloseEffect ==
  ASSUME IInv, NEW a \in Addresses, Close(a)
  PROVE  /\ a \notin DOMAIN protectionHistory =>
              UNCHANGED <<prot, protectionHistory>>
         /\ a \in DOMAIN protectionHistory =>
              /\ prot' = [prot EXCEPT ![PageOf[a]] = protectionHistory[a]]
              /\ DOMAIN protectionHistory' = DOMAIN protectionHistory \ {a}
              /\ \A b \in DOMAIN protectionHistory \ {a} :
                   protectionHistory'[b] = protectionHistory[b]
  BY DEF Close, Remembered, Protect, Forget

\* Closing what was opened last gives the pages back.
LEMMA Restored ==
  ASSUME NEW p \in [Pages -> Protections], NEW a \in Addresses
  PROVE  [Opened(p, a) EXCEPT ![PageOf[a]] = p[PageOf[a]]] = p
  BY PagesOf DEF Opened

LEMMA OpenedType ==
  ASSUME NEW p \in [Pages -> Protections], NEW a \in Addresses
  PROVE  /\ Opened(p, a) \in [Pages -> Protections]
         /\ Opened(p, a)[PageOf[a]] = RWX
         /\ \A b \in Addresses : p[PageOf[b]] = RWX => Opened(p, a)[PageOf[b]] = RWX
  BY PagesOf DEF Opened

LEMMA StepType ==
  ASSUME IInv, NEW a \in Addresses, ~IsDone, Goes,
         Open(a) \/ Use(a) \/ Close(a)
  PROVE  TypeOK'
  <1>1. step' \in 1 .. MaxOperations + 1
    <2>1. Len(operations) <= 6
      <3>1. ~AtFirst
        BY DEF AtFirst, IsDone
      <3>2. ASSUME NEW b \in Addresses, Filling(b) PROVE Len(operations) = 3
        BY <3>2, FillSteps DEF Filling
      <3>3. ASSUME NEW d \in Addresses, NEW s \in Addresses, Copying(d, s)
            PROVE  Len(operations) = 6
        BY <3>3, CopySteps DEF Copying
      <3>4. ASSUME NEW p \in Addresses, NEW r \in Addresses, Swapping(p, r)
            PROVE  Len(operations) = 6
        BY <3>4, SwapSteps DEF Swapping
      <3>5. Len(operations) = 3 \/ Len(operations) = 6
        <4>1. CASE \E b \in Addresses : Filling(b)
          BY <4>1, <3>2
        <4>2. CASE \E b, t \in Addresses : Copying(b, t)
          BY <4>2, <3>3
        <4>3. CASE \E p, r \in Addresses : Swapping(p, r)
          BY <4>3, <3>4
        <4> QED BY <3>1, <4>1, <4>2, <4>3 DEF IInv, Progress
      <3>6. CASE Len(operations) = 3
        BY <3>6
      <3>7. CASE Len(operations) = 6
        BY <3>7
      <3> QED BY <3>5, <3>6, <3>7
    <2>2. Len(operations) \in Nat
      BY DEF IInv, TypeOK
    <2>3. step \in Nat /\ step >= 1 /\ step <= Len(operations) /\ step' = step + 1
      BY <2>2 DEF IInv, TypeOK, Goes, IsDone
    <2> QED BY <2>1, <2>2, <2>3 DEF MaxOperations
  <1>a. call' \in Calls /\ operations' \in Seq(Operations) /\ before' \in [Pages -> Protections]
    BY DEF IInv, TypeOK, Goes
  <1>2. CASE Open(a)
    <2>1. prot' \in [Pages -> Protections]
      <3>1. prot \in [Pages -> Protections] /\ (prot' = prot \/ prot' = Opened(prot, a))
        BY <1>2, OpenEffect DEF IInv, TypeOK
      <3> QED BY <3>1, OpenedType
    <2>2. /\ DOMAIN protectionHistory' \subseteq Addresses
          /\ \A b \in DOMAIN protectionHistory' : protectionHistory'[b] \in Protections
      <3>1. /\ DOMAIN protectionHistory \subseteq Addresses
            /\ \A b \in DOMAIN protectionHistory : protectionHistory[b] \in Protections
        BY DEF IInv, TypeOK
      <3>2. CASE a \in DOMAIN protectionHistory
        BY <1>2, <3>1, <3>2, OpenEffect
      <3>3. CASE a \notin DOMAIN protectionHistory
        <4>1. /\ DOMAIN protectionHistory' = DOMAIN protectionHistory \cup {a}
              /\ protectionHistory'[a] = prot[PageOf[a]]
              /\ \A b \in DOMAIN protectionHistory :
                   protectionHistory'[b] = protectionHistory[b]
          BY <1>2, <3>3, OpenEffect
        <4>2. prot[PageOf[a]] \in Protections
          BY PagesOf DEF IInv, TypeOK
        <4> QED BY <3>1, <4>1, <4>2
      <3> QED BY <3>2, <3>3
    <2> QED BY <1>1, <1>a, <2>1, <2>2 DEF TypeOK
  <1>3. CASE Use(a)
    <2>1. UNCHANGED <<prot, protectionHistory>> /\ TypeOK
      BY <1>3 DEF Use, IInv
    <2> QED BY <1>1, <1>a, <2>1 DEF TypeOK
  <1>4. CASE Close(a)
    <2>1. prot' \in [Pages -> Protections]
      <3>1. prot \in [Pages -> Protections]
        BY DEF IInv, TypeOK
      <3>2. CASE a \in DOMAIN protectionHistory
        <4>1. prot' = [prot EXCEPT ![PageOf[a]] = protectionHistory[a]]
          BY <1>4, <3>2, CloseEffect
        <4>2. protectionHistory[a] \in Protections
          BY <3>2 DEF IInv, TypeOK
        <4> QED BY <3>1, <4>1, <4>2
      <3>3. CASE a \notin DOMAIN protectionHistory
        BY <1>4, <3>1, <3>3, CloseEffect
      <3> QED BY <3>2, <3>3
    <2>2. /\ DOMAIN protectionHistory' \subseteq Addresses
          /\ \A b \in DOMAIN protectionHistory' : protectionHistory'[b] \in Protections
      <3>1. /\ DOMAIN protectionHistory \subseteq Addresses
            /\ \A b \in DOMAIN protectionHistory : protectionHistory[b] \in Protections
        BY DEF IInv, TypeOK
      <3>2. CASE a \in DOMAIN protectionHistory
        <4>1. /\ DOMAIN protectionHistory' = DOMAIN protectionHistory \ {a}
              /\ \A b \in DOMAIN protectionHistory \ {a} :
                   protectionHistory'[b] = protectionHistory[b]
          BY <1>4, <3>2, CloseEffect
        <4> QED BY <3>1, <4>1
      <3>3. CASE a \notin DOMAIN protectionHistory
        BY <1>4, <3>1, <3>3, CloseEffect
      <3> QED BY <3>2, <3>3
    <2> QED BY <1>1, <1>a, <2>1, <2>2 DEF TypeOK
  <1> QED BY <1>2, <1>3, <1>4

\* The operation a step carries out, in each call.
Acts(a) ==
  \/ operations[step][1] = "open" /\ Open(a)
  \/ operations[step][1] = "use" /\ Use(a)
  \/ operations[step][1] = "close" /\ Close(a)

LEMMA FillingGoes ==
  ASSUME IInv, NEW a \in Addresses, Filling(a), ~IsDone, Goes,
         Acts(operations[step][2])
  PROVE  Filling(a)'
  <1>1. step \in 1 .. 3 /\ operations' = Fill(a) /\ before' = before
    BY FillSteps DEF Filling, IsDone, Goes
  <1>2. CASE step = 1
    <2>1. Open(a)
      BY <1>2, FillSteps DEF Filling, Acts
    <2>2. OpenFor(a)'
      BY <1>1, <1>2, <2>1, OpenEffect DEF Filling, Quiet, OpenFor, Opened
    <2> QED BY <1>1, <1>2, <2>2 DEF Filling, Goes, Fill
  <1>3. CASE step = 2
    <2>1. Use(a)
      BY <1>3, FillSteps DEF Filling, Acts
    <2>2. OpenFor(a)'
      BY <1>1, <1>3, <2>1 DEF Filling, OpenFor, Use, Opened
    <2> QED BY <1>1, <1>3, <2>2 DEF Filling, Goes, Fill
  <1>4. CASE step = 3
    <2>1. Close(a)
      BY <1>4, FillSteps DEF Filling, Acts
    <2>2. before \in [Pages -> Protections]
      BY DEF IInv, TypeOK
    <2>3. prot' = [Opened(before, a) EXCEPT ![PageOf[a]] = before[PageOf[a]]]
          /\ DOMAIN protectionHistory' = {}
      BY <1>4, <2>1, CloseEffect DEF Filling, OpenFor
    <2>4. Quiet'
      BY <1>1, <2>2, <2>3, Restored DEF Quiet
    <2> QED BY <1>1, <1>4, <2>4 DEF Filling, Goes, Fill
  <1> QED BY <1>1, <1>2, <1>3, <1>4

LEMMA CopyingGoes ==
  ASSUME IInv, NEW d \in Addresses, NEW s \in Addresses, Copying(d, s), ~IsDone,
         Goes, Acts(operations[step][2])
  PROVE  Copying(d, s)'
  <1>1. step \in 1 .. 6 /\ operations' = Copy(d, s) /\ before' = before
    <2>1. operations = Copy(d, s) /\ step \in 1 .. 7
      BY DEF Copying
    <2>2. Len(operations) = 6
      BY <2>1, CopySteps
    <2> QED BY <2>1, <2>2 DEF IsDone, Goes
  <1>2. before \in [Pages -> Protections]
    BY DEF IInv, TypeOK
  <1>3. CASE step = 1
    <2>1. Open(d)
      BY <1>3, CopySteps DEF Copying, Acts
    <2>2. OpenFor(d)'
      BY <1>1, <1>3, <2>1, OpenEffect DEF Copying, Quiet, OpenFor, Opened
    <2> QED BY <1>1, <1>3, <2>2 DEF Copying, Goes, Copy
  <1>4. CASE step = 2
    <2>1. Open(s) /\ OpenFor(d)
      BY <1>4, CopySteps DEF Copying, Acts
    <2>2. ASSUME d = s PROVE OpenForBoth(d, s)'
      <3>1. prot' = Opened(before, d) /\ protectionHistory' = protectionHistory
        BY <2>1, <2>2, OpenEffect DEF OpenFor
      <3>2. Opened(Opened(before, d), d) = Opened(before, d)
        BY DEF Opened
      <3>3. /\ prot' = Opened(Opened(before', d), s)
            /\ DOMAIN protectionHistory' = {d, s}
            /\ protectionHistory'[d] = before'[PageOf[d]]
        BY <1>1, <2>1, <2>2, <3>1, <3>2 DEF OpenFor
      <3> QED BY <2>2, <3>3 DEF OpenForBoth, Opened
    <2>3. ASSUME d # s PROVE OpenForBoth(d, s)'
      <3>1. /\ prot = Opened(before, d) /\ DOMAIN protectionHistory = {d}
            /\ protectionHistory[d] = before[PageOf[d]]
            /\ s \notin DOMAIN protectionHistory
        BY <2>1, <2>3 DEF OpenFor
      <3>2. /\ prot' = Opened(prot, s)
            /\ DOMAIN protectionHistory' = DOMAIN protectionHistory \cup {s}
            /\ protectionHistory'[s] = prot[PageOf[s]]
            /\ protectionHistory'[d] = protectionHistory[d]
        BY <2>1, <3>1, OpenEffect
      <3>3. /\ prot' = Opened(Opened(before', d), s)
            /\ DOMAIN protectionHistory' = {d, s}
            /\ protectionHistory'[d] = before'[PageOf[d]]
            /\ protectionHistory'[s] = Opened(before', d)[PageOf[s]]
        BY <1>1, <3>1, <3>2
      <3> QED BY <3>3 DEF OpenForBoth, Opened
    <2>4. OpenForBoth(d, s)'
      BY <2>2, <2>3
    <2> QED BY <1>1, <1>4, <2>4 DEF Copying, Goes, Copy
  <1>5. CASE step \in {3, 4}
    <2>1. UNCHANGED <<prot, protectionHistory>>
      BY <1>5, CopySteps DEF Copying, Acts, Use
    <2>2. OpenForBoth(d, s)'
      BY <1>1, <1>5, <2>1 DEF Copying, OpenForBoth, Opened
    <2> QED BY <1>1, <1>5, <2>2 DEF Copying, Goes, Copy
  <1>6. CASE step = 5
    <2>1. Close(s) /\ OpenForBoth(d, s)
      BY <1>6, CopySteps DEF Copying, Acts
    <2>2. CASE d = s
      <3>1. /\ prot' = [Opened(Opened(before, d), d)
                          EXCEPT ![PageOf[d]] = before[PageOf[d]]]
            /\ DOMAIN protectionHistory' = {}
        BY <2>1, <2>2, CloseEffect DEF OpenForBoth
      <3>2. Opened(Opened(before, d), d) = Opened(before, d)
        BY DEF Opened
      <3>3. Quiet'
        BY <1>1, <1>2, <3>1, <3>2, Restored DEF Quiet
      <3> QED BY <1>1, <1>6, <2>2, <3>3 DEF Copying, Goes, Copy
    <2>3. CASE d # s
      <3>1. /\ prot' = [Opened(Opened(before, d), s)
                          EXCEPT ![PageOf[s]] = Opened(before, d)[PageOf[s]]]
            /\ DOMAIN protectionHistory' = {d}
            /\ protectionHistory'[d] = before[PageOf[d]]
        BY <2>1, <2>3, CloseEffect DEF OpenForBoth
      <3>2. prot' = Opened(before, d)
        BY <1>2, <3>1, Restored, OpenedType
      <3>3. OpenFor(d)'
        BY <1>1, <3>1, <3>2 DEF OpenFor, Opened
      <3> QED BY <1>1, <1>6, <2>3, <3>3 DEF Copying, Goes, Copy
    <2> QED BY <2>2, <2>3
  <1>7. CASE step = 6
    <2>1. Close(d)
      BY <1>7, CopySteps DEF Copying, Acts
    <2>2. CASE d = s
      BY <1>1, <1>7, <2>1, <2>2, CloseEffect DEF Copying, Quiet, Goes, Copy
    <2>3. CASE d # s
      <3>1. prot' = [Opened(before, d) EXCEPT ![PageOf[d]] = before[PageOf[d]]]
            /\ DOMAIN protectionHistory' = {}
        BY <1>7, <2>1, <2>3, CloseEffect DEF Copying, OpenFor
      <3>2. Quiet'
        BY <1>1, <1>2, <3>1, Restored DEF Quiet
      <3> QED BY <1>1, <1>7, <3>2 DEF Copying, Goes, Copy
    <2> QED BY <2>2, <2>3
  <1> QED BY <1>1, <1>3, <1>4, <1>5, <1>6, <1>7

LEMMA SwappingGoes ==
  ASSUME IInv, NEW p \in Addresses, NEW r \in Addresses, Swapping(p, r), ~IsDone,
         Goes, Acts(operations[step][2])
  PROVE  Swapping(p, r)'
  <1>1. step \in 1 .. 6 /\ operations' = Swap(p, r) /\ p # r
    <2>1. operations = Swap(p, r) /\ step \in 1 .. 7 /\ p # r
      BY DEF Swapping
    <2>2. Len(operations) = 6
      BY <2>1, SwapSteps
    <2> QED BY <2>1, <2>2 DEF IsDone, Goes
  <1>2. prot \in [Pages -> Protections]
    BY DEF IInv, TypeOK
  <1>3. CASE step = 1
    <2>1. Open(p) /\ DOMAIN protectionHistory = {}
      BY <1>3, SwapSteps DEF Swapping, Acts
    <2>2. DOMAIN protectionHistory' = {p} /\ prot'[PageOf[p]] = RWX
      <3>1. p \notin DOMAIN protectionHistory
        BY <2>1
      <3>2. /\ prot' = Opened(prot, p)
            /\ DOMAIN protectionHistory' = DOMAIN protectionHistory \cup {p}
        BY <2>1, <3>1, OpenEffect
      <3> QED BY <1>2, <2>1, <3>2, OpenedType
    <2> QED BY <1>1, <1>3, <2>2 DEF Swapping, Goes, Swap
  <1>4. CASE step = 2
    <2>1. /\ Open(r) /\ DOMAIN protectionHistory = {p}
          /\ prot[PageOf[p]] = RWX
      BY <1>4, SwapSteps DEF Swapping, Acts
    <2>2. /\ DOMAIN protectionHistory' = {p, r}
          /\ prot'[PageOf[p]] = RWX /\ prot'[PageOf[r]] = RWX
      <3>1. r \notin DOMAIN protectionHistory
        BY <1>1, <2>1
      <3>2. /\ prot' = Opened(prot, r)
            /\ DOMAIN protectionHistory' = DOMAIN protectionHistory \cup {r}
        BY <2>1, <3>1, OpenEffect
      <3> QED BY <1>2, <2>1, <3>2, OpenedType
    <2> QED BY <1>1, <1>4, <2>2 DEF Swapping, Goes, Swap
  <1>5. CASE step \in {3, 4}
    <2>1. UNCHANGED <<prot, protectionHistory>>
      BY <1>5, SwapSteps DEF Swapping, Acts, Use
    <2> QED BY <1>1, <1>5, <2>1 DEF Swapping, Goes, Swap
  <1>6. CASE step = 5
    <2>1. Close(p) /\ DOMAIN protectionHistory = {p, r}
      BY <1>6, SwapSteps DEF Swapping, Acts
    <2>2. DOMAIN protectionHistory' = {r}
      BY <1>1, <2>1, CloseEffect
    <2> QED BY <1>1, <1>6, <2>2 DEF Swapping, Goes, Swap
  <1>7. CASE step = 6
    <2>1. Close(r) /\ DOMAIN protectionHistory = {r}
      BY <1>7, SwapSteps DEF Swapping, Acts
    <2>2. DOMAIN protectionHistory' = {}
      BY <2>1, CloseEffect
    <2> QED BY <1>1, <1>7, <2>2 DEF Swapping, Goes, Swap
  <1> QED BY <1>1, <1>3, <1>4, <1>5, <1>6, <1>7

LEMMA StepIInv ==
  ASSUME IInv, ~IsDone, Goes, Acts(operations[step][2]) PROVE IInv'
  <1>1. operations[step][2] \in Addresses
    <2>1. step \in 1 .. Len(operations) /\ operations \in Seq(Operations)
      BY DEF IInv, TypeOK, IsDone
    <2>2. operations[step] \in Operations
      BY <2>1
    <2> QED BY <2>2 DEF Operations
  <1>2. TypeOK'
    BY <1>1, StepType DEF Acts
  <1>3. call' = call
    BY DEF Goes
  <1>4. CASE AtFirst
    BY <1>4 DEF AtFirst, IsDone
  <1>5. ASSUME NEW a \in Addresses, Filling(a) PROVE Filling(a)'
    BY <1>5, FillingGoes
  <1>6. ASSUME NEW d \in Addresses, NEW s \in Addresses, Copying(d, s)
        PROVE  Copying(d, s)'
    BY <1>6, CopyingGoes
  <1>7. ASSUME NEW p \in Addresses, NEW r \in Addresses, Swapping(p, r)
        PROVE  Swapping(p, r)'
    BY <1>7, SwappingGoes
  <1> QED BY <1>2, <1>3, <1>4, <1>5, <1>6, <1>7 DEF IInv, Progress

\* A step that changes nothing.
LEMMA StutterIInv == ASSUME IInv, UNCHANGED vars PROVE IInv'
  <1>1. /\ prot' = prot /\ protectionHistory' = protectionHistory /\ call' = call
        /\ operations' = operations /\ step' = step /\ before' = before
    BY DEF vars
  <1>2. TypeOK'
    BY <1>1 DEF IInv, TypeOK
  <1>3. Quiet => Quiet'
    BY <1>1 DEF Quiet
  <1>4. ASSUME NEW a \in Addresses, OpenFor(a) PROVE OpenFor(a)'
    BY <1>1, <1>4 DEF OpenFor, Opened
  <1>5. ASSUME NEW d \in Addresses, NEW s \in Addresses, OpenForBoth(d, s)
        PROVE  OpenForBoth(d, s)'
    BY <1>1, <1>5 DEF OpenForBoth, Opened
  <1>6. AtFirst => AtFirst'
    BY <1>1, <1>3 DEF AtFirst
  <1>7. ASSUME NEW a \in Addresses, Filling(a) PROVE Filling(a)'
    BY <1>1, <1>3, <1>4, <1>7 DEF Filling, Fill
  <1>8. ASSUME NEW d \in Addresses, NEW s \in Addresses, Copying(d, s)
        PROVE  Copying(d, s)'
    BY <1>1, <1>3, <1>4, <1>5, <1>8 DEF Copying, Copy
  <1>9. ASSUME NEW p \in Addresses, NEW r \in Addresses, Swapping(p, r)
        PROVE  Swapping(p, r)'
    BY <1>1, <1>9 DEF Swapping, Swap
  <1>10. Progress'
    BY <1>1, <1>6, <1>7, <1>8, <1>9 DEF IInv, Progress
  <1> QED BY <1>2, <1>10 DEF IInv

LEMMA NextIInv == IInv /\ [Next]_vars => IInv'
  <1> SUFFICES ASSUME IInv, [Next]_vars PROVE IInv'
    OBVIOUS
  <1>1. CASE \E a, b \in Addresses : MemCopy(a, b) \/ HookSwapChain(a, b)
    BY <1>1, MemCopyIInv, HookSwapChainIInv
  <1>2. CASE \E a \in Addresses : MemSet(a)
    BY <1>2, MemSetIInv
  <1>3. CASE Does("open", Open)
    BY <1>3, StepIInv DEF Does, Acts, Goes
  <1>4. CASE Does("use", Use)
    BY <1>4, StepIInv DEF Does, Acts, Goes
  <1>5. CASE Does("close", Close)
    BY <1>5, StepIInv DEF Does, Acts, Goes
  <1>6. CASE UNCHANGED vars
    BY <1>6, StutterIInv
  <1> QED BY <1>1, <1>2, <1>3, <1>4, <1>5, <1>6 DEF Next

LEMMA AlwaysIInv == Spec => []IInv
  BY InitIInv, NextIInv, PTL DEF Spec

-----------------------------------------------------------------------------
\* Every variable keeps its type; no protection is ever forgotten or made up.
THEOREM ProtectionTypeCorrect == Spec => []TypeOK
  <1>1. IInv => TypeOK
    BY DEF IInv
  <1> QED BY AlwaysIInv, <1>1, PTL

\* What a call copies, fills or reads is open to it, on whatever pages.
THEOREM AlwaysOpenWhenUsed == Spec => []OpenWhenUsed
  <1>1. IInv => OpenWhenUsed
    <2> SUFFICES ASSUME IInv, ~IsDone, operations[step][1] = "use"
                 PROVE  prot[PageOf[operations[step][2]]] = RWX
      BY DEF OpenWhenUsed
    <2>1. before \in [Pages -> Protections]
      BY DEF IInv, TypeOK
    <2>2. CASE AtFirst
      BY <2>2 DEF AtFirst, IsDone
    <2>3. ASSUME NEW a \in Addresses, Filling(a)
          PROVE  prot[PageOf[operations[step][2]]] = RWX
      <3>1. operations = Fill(a) /\ step \in 1 .. 3
        <4>1. operations = Fill(a) /\ step \in 1 .. 4
          BY <2>3 DEF Filling
        <4>2. Len(operations) = 3
          BY <4>1, FillSteps
        <4>3. ~(step > 3)
          BY <4>2 DEF IsDone
        <4> QED BY <4>1, <4>3
      <3>2. step = 2
        BY <3>1, UsesOfFill
      <3>3. prot = Opened(before, a)
        BY <2>3, <3>2 DEF Filling, OpenFor
      <3>4. operations[step][2] = a
        BY <3>1, <3>2, FillSteps
      <3> QED BY <2>1, <3>3, <3>4, OpenedType
    <2>4. ASSUME NEW d \in Addresses, NEW s \in Addresses, Copying(d, s)
          PROVE  prot[PageOf[operations[step][2]]] = RWX
      <3>0. operations = Copy(d, s) /\ step \in 1 .. 6
        <4>1. operations = Copy(d, s) /\ step \in 1 .. 7
          BY <2>4 DEF Copying
        <4>2. Len(operations) = 6
          BY <4>1, CopySteps
        <4>3. ~(step > 6)
          BY <4>2 DEF IsDone
        <4> QED BY <4>1, <4>3
      <3>1. step \in {3, 4}
        BY <3>0, UsesOfCopy
      <3>2. operations[step][2] \in {d, s}
        BY <3>0, <3>1, CopySteps
      <3>3. prot = Opened(Opened(before, d), s)
        BY <2>4, <3>1 DEF Copying, OpenForBoth
      <3> QED BY <2>1, <3>2, <3>3, OpenedType
    <2>5. ASSUME NEW p \in Addresses, NEW r \in Addresses, Swapping(p, r)
          PROVE  prot[PageOf[operations[step][2]]] = RWX
      <3>1. operations = Swap(p, r) /\ step \in 1 .. 6
        <4>1. operations = Swap(p, r) /\ step \in 1 .. 7
          BY <2>5 DEF Swapping
        <4>2. Len(operations) = 6
          BY <4>1, SwapSteps
        <4>3. ~(step > 6)
          BY <4>2 DEF IsDone
        <4> QED BY <4>1, <4>3
      <3>2. \/ step = 3 /\ operations[step][2] = p
            \/ step = 4 /\ operations[step][2] = r
        BY <3>1, UsesOfSwap, SwapSteps
      <3>3. /\ step \in {2, 3, 4} => prot[PageOf[p]] = RWX
            /\ step \in {3, 4} => prot[PageOf[r]] = RWX
        BY <2>5 DEF Swapping
      <3> QED BY <3>2, <3>3
    <2> QED BY <2>2, <2>3, <2>4, <2>5 DEF IInv, Progress
  <1> QED BY AlwaysIInv, <1>1, PTL

\* Between calls the history is empty.
THEOREM AlwaysBalanced == Spec => []Balanced
  <1>1. IInv => Balanced
    <2> SUFFICES ASSUME IInv, IsDone PROVE DOMAIN protectionHistory = {}
      BY DEF Balanced
    <2>1. CASE AtFirst
      BY <2>1 DEF AtFirst, Quiet
    <2>2. ASSUME NEW a \in Addresses, Filling(a) PROVE DOMAIN protectionHistory = {}
      BY <2>2, FillingDone DEF Quiet
    <2>3. ASSUME NEW d \in Addresses, NEW s \in Addresses, Copying(d, s)
          PROVE  DOMAIN protectionHistory = {}
      BY <2>3, CopyingDone DEF Quiet
    <2>4. ASSUME NEW p \in Addresses, NEW r \in Addresses, Swapping(p, r)
          PROVE  DOMAIN protectionHistory = {}
      BY <2>4, SwappingDone
    <2> QED BY <2>1, <2>2, <2>3, <2>4 DEF IInv, Progress
  <1> QED BY AlwaysIInv, <1>1, PTL

\* Copies and fills leave every page as they found it, whatever shares a page.
THEOREM CopiesRestore == Spec => []CopyRestores
  <1>1. IInv => CopyRestores
    <2> SUFFICES ASSUME IInv, IsDone, call \in {"MemCopy", "MemSet"}
                 PROVE  prot = before
      BY DEF CopyRestores
    <2>1. CASE AtFirst
      BY <2>1 DEF AtFirst
    <2>2. ASSUME NEW a \in Addresses, Filling(a) PROVE prot = before
      BY <2>2, FillingDone DEF Quiet
    <2>3. ASSUME NEW d \in Addresses, NEW s \in Addresses, Copying(d, s)
          PROVE  prot = before
      BY <2>3, CopyingDone DEF Quiet
    <2> QED BY <2>1, <2>2, <2>3 DEF IInv, Progress
  <1> QED BY AlwaysIInv, <1>1, PTL
=============================================================================
