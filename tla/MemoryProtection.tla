-------------------------- MODULE MemoryProtection --------------------------
(***************************************************************************)
(* ToggleMemoryProtection and the functions of the DirectX hook that use   *)
(* it.  The history of protections is kept by address, while the system    *)
(* protects whole pages.  A call is the sequence of the toggles it makes   *)
(* and of its use of the memory in between; calls follow one another on    *)
(* the hook thread.                                                        *)
(***************************************************************************)
EXTENDS Integers, Sequences

CONSTANTS
  Addresses,
  PageOf,      \* the page of an address
  Original     \* the protection of a page when the program starts

ASSUME MemoryProtectionAssumption ==
  /\ PageOf = [a \in Addresses |-> PageOf[a]]
  /\ Original = [p \in {PageOf[a] : a \in Addresses} |-> Original[p]]

Pages == DOMAIN Original
RWX == "PAGE_EXECUTE_READWRITE"
Protections == {RWX} \cup {Original[p] : p \in Pages}

VARIABLES
  prot,                \* system: the protection of each page
  protectionHistory,   \* what to restore, for the addresses open now
  call,                \* the last call made
  operations,          \* what it does
  step,                \* how far it has come
  before               \* history: prot when it began

vars == <<prot, protectionHistory, call, operations, step, before>>

Calls == {"none", "MemCopy", "MemSet", "HookSwapChain"}
Operations == {"open", "close", "use"} \X Addresses
MaxOperations == 6

TypeOK ==
  /\ prot \in [Pages -> Protections]
  /\ DOMAIN protectionHistory \subseteq Addresses
  /\ \A a \in DOMAIN protectionHistory : protectionHistory[a] \in Protections
  /\ call \in Calls
  /\ operations \in Seq(Operations)
  /\ step \in 1 .. MaxOperations + 1
  /\ before \in [Pages -> Protections]

Init ==
  /\ prot = Original
  /\ protectionHistory = <<>>
  /\ call = "none"
  /\ operations = <<>>
  /\ step = 1
  /\ before = Original

-----------------------------------------------------------------------------
IsDone == step > Len(operations)

Begin(name, does) ==
  /\ IsDone
  /\ call' = name
  /\ operations' = does
  /\ step' = 1
  /\ before' = prot
  /\ UNCHANGED <<prot, protectionHistory>>

\* MUTANT of Copy: the two addresses are closed in the order they were opened.
CopyInOrder(d, s) == <<<<"open", d>>, <<"open", s>>, <<"use", d>>, <<"use", s>>,
                       <<"close", d>>, <<"close", s>>>>

Copy(d, s) == <<<<"open", d>>, <<"open", s>>, <<"use", d>>, <<"use", s>>,
                <<"close", s>>, <<"close", d>>>>

MemCopy(d, s) == Begin("MemCopy", Copy(d, s))

Fill(a) == <<<<"open", a>>, <<"use", a>>, <<"close", a>>>>

MemSet(a) == Begin("MemSet", Fill(a))

\* The two entries of the table of virtual functions that HookSwapChain reads.
Swap(present, resize) ==
  <<<<"open", present>>, <<"open", resize>>, <<"use", present>>,
    <<"use", resize>>, <<"close", present>>, <<"close", resize>>>>

HookSwapChain(present, resize) ==
  present # resize /\ Begin("HookSwapChain", Swap(present, resize))

Remembered(a) == a \in DOMAIN protectionHistory

Protect(a, p) == prot' = [prot EXCEPT ![PageOf[a]] = p]

\* MUTANT of Opens: an address is opened only while no other one is.
OpensAlone(a) == protectionHistory = <<>>

\* An address that is open already is not opened again.
Opens(a) == ~Remembered(a)

Open(a) ==
  IF Opens(a)
    THEN /\ Protect(a, RWX)
         /\ protectionHistory' =
              [b \in DOMAIN protectionHistory \cup {a} |->
                 IF b = a THEN prot[PageOf[a]] ELSE protectionHistory[b]]
    ELSE UNCHANGED <<prot, protectionHistory>>

\* MUTANTS of Forget: the entry is not erased; it is blanked instead.
ForgetNot(a) == protectionHistory

ForgetBlank(a) == [protectionHistory EXCEPT ![a] = "0"]

Forget(a) ==
  [b \in DOMAIN protectionHistory \ {a} |-> protectionHistory[b]]

Close(a) ==
  IF Remembered(a)
    THEN Protect(a, protectionHistory[a]) /\ protectionHistory' = Forget(a)
    ELSE UNCHANGED <<prot, protectionHistory>>

Does(kind, Effect(_)) ==
  /\ ~IsDone /\ operations[step][1] = kind
  /\ Effect(operations[step][2])
  /\ step' = step + 1
  /\ UNCHANGED <<call, operations, before>>

Use(a) == UNCHANGED <<prot, protectionHistory>>

Next ==
  \/ \E a, b \in Addresses : MemCopy(a, b) \/ HookSwapChain(a, b)
  \/ \E a \in Addresses : MemSet(a)
  \/ Does("open", Open)
  \/ Does("use", Use)
  \/ Does("close", Close)

Spec == Init /\ [][Next]_vars

-----------------------------------------------------------------------------
\* The bytes a call copies, fills or reads lie in a page that is open to it,
\* also when source and destination are one address or share a page.
OpenWhenUsed ==
  ~IsDone /\ operations[step][1] = "use" => prot[PageOf[operations[step][2]]] = RWX

\* Nothing stays open in the history between calls: a later call on the same
\* address would not open it, or would restore a protection long past.
Balanced == IsDone => DOMAIN protectionHistory = {}

\* MemCopy and MemSet leave every page as they found it, also when their two
\* addresses share a page: the one opened last is closed first.
CopyRestores ==
  IsDone /\ call \in {"MemCopy", "MemSet"} => prot = before

\* What the comment on ToggleMemoryProtection says (MemoryUtils.h:32): it
\* remembers and restores the original protection of the given addresses.
RestoresOriginal == IsDone => prot = Original
=============================================================================
