---------------------------- MODULE HookGate_proofs ----------------------------
(*****************************************************************************)
(* Proofs about HookGate, for any threads, calls, traces, files and numbers  *)
(* of failures.                                                              *)
(*****************************************************************************)
EXTENDS HookGate, FiniteSetTheorems, SequenceTheorems, TLAPS

-----------------------------------------------------------------------------
(* The invariant: who holds which lock, and what the counter is then. *)

\* The steps of a stage while mc_disable_hook has the lock of the hook.
Deep == {"locked", "inside", "aimed", "demangle", "done", "leaving"}

\* What do_not_hook counts while its owner is at a step.
Depth(where) == IF where = "demangle" THEN 2
                ELSE IF where \in {"inside", "aimed", "done"} THEN 1 ELSE 0

StepFits ==
    \A t \in Threads :
        /\ step[t] \in Deep => todo[t] # <<>> /\ Head(todo[t]) \in HookStages
        /\ step[t] \in {"find", "add"} => todo[t] # <<>> /\ Head(todo[t]) = "callstack"

HookHeld == \A t \in Threads : step[t] \in Deep <=> hook = t

CountAgrees == do_not_hook = IF hook = NULL THEN 0 ELSE Depth(step[hook])

CallstackHeld == \A t \in Threads : step[t] \in {"find", "add"} <=> callstack_mtx = t

AddIsNew ==
    \A t \in Threads : step[t] = "add" =>
        \A i \in DOMAIN entries : entries[i].trace # trace[t]

GateInv == TypeOK /\ StepFits /\ HookHeld /\ CountAgrees /\ GateTells

-----------------------------------------------------------------------------
(* Types *)

LEMMA ScriptType == \A c \in DOMAIN Script : Script[c] \in Seq(Stages)
<1>1. Register \in Seq(Stages)
  BY DEF Register, Stages, Gates, HookStages
<1>2. /\ <<"mc_init", "gate">> \in Seq(Stages) /\ <<"gate">> \in Seq(Stages)
      /\ <<"mc_init", "own">> \in Seq(Stages) /\ <<"own">> \in Seq(Stages)
      /\ <<"mc_init">> \in Seq(Stages)
      /\ <<"gate", "maps_init", "lookup", "backtrace", "lookup", "maps_term">> \in Seq(Stages)
      /\ <<"gate", "maps_init", "backtrace", "lookup", "maps_term">> \in Seq(Stages)
      /\ <<"maps_init", "lookup", "maps_term">> \in Seq(Stages)
      /\ <<"manage_lock", "maps_init", "lookup", "maps_term", "manage_unlock">> \in Seq(Stages)
  BY DEF Stages, Gates, HookStages
<1>3. /\ Malloc \in Seq(Stages) /\ Free \in Seq(Stages)
      /\ OwnMalloc \in Seq(Stages) /\ OwnFree \in Seq(Stages)
  BY <1>1, <1>2 DEF Malloc, Free, OwnMalloc, OwnFree
<1>4. /\ <<"gate">> \o Malloc \in Seq(Stages)
      /\ (<<"gate">> \o Malloc) \o Free \in Seq(Stages)
      /\ <<"gate", "maps_init", "lookup", "backtrace", "lookup", "maps_term">> \o Register
           \in Seq(Stages)
      /\ OwnMalloc \o OwnFree \in Seq(Stages)
  BY <1>1, <1>2, <1>3
<1>5. DOMAIN Script = {"constructor", "malloc", "calloc", "realloc", "memalign", "free",
                       "free_overrun", "free_illegal", "list", "check", "virtual_memory"}
  BY DEF Script
<1>6. /\ Script["constructor"] \in Seq(Stages) /\ Script["malloc"] \in Seq(Stages)
      /\ Script["calloc"] \in Seq(Stages) /\ Script["realloc"] \in Seq(Stages)
      /\ Script["memalign"] \in Seq(Stages) /\ Script["free"] \in Seq(Stages)
  BY <1>1, <1>2, <1>3, <1>4 DEF Script
<1>7. /\ Script["free_overrun"] \in Seq(Stages) /\ Script["free_illegal"] \in Seq(Stages)
      /\ Script["list"] \in Seq(Stages) /\ Script["check"] \in Seq(Stages)
      /\ Script["virtual_memory"] \in Seq(Stages)
  BY <1>2, <1>4 DEF Script
<1> QED  BY <1>5, <1>6, <1>7

LEMMA LeaveStep ==
    ASSUME TypeOK, NEW t \in Threads, Leave(t)
    PROVE  \A u \in Threads : step'[u] = IF u = t THEN "start" ELSE step[u]
BY DEF Leave, TypeOK

\* What a thread leaves and enters.
LEMMA LeaveType ==
    ASSUME TypeOK, NEW t \in Threads, todo[t] # <<>>, Leave(t)
    PROVE  /\ todo' \in [Threads -> Seq(Stages)]
           /\ step' = [step EXCEPT ![t] = "start"]
           /\ \A u \in Threads \ {t} : todo'[u] = todo[u]
<1>1. todo[t] \in Seq(Stages)
  BY DEF TypeOK
<1>2. Tail(todo[t]) \in Seq(Stages)
  BY <1>1
<1> QED  BY <1>2 DEF TypeOK, Leave

LEMMA InitType == Init => TypeOK
<1> SUFFICES ASSUME Init PROVE TypeOK
  OBVIOUS
<1>1. <<>> \in Seq(Stages) /\ <<>> \in Seq([trace : Traces \cup {NULL}, usage : Nat])
  OBVIOUS
<1>2. todo \in [Threads -> Seq(Stages)]
  BY <1>1 DEF Init
<1>3. /\ step \in [Threads -> {"start", "locked", "inside", "aimed", "demangle", "done",
                            "leaving", "find", "add"}]
      /\ trace \in [Threads -> Traces \cup {NULL}]
      /\ file \in [Threads -> Files \cup {NULL}]
  BY DEF Init
<1>5. abfd \in [Files -> BOOLEAN] /\ symbols \in [Files -> {"none", "valid", "freed"}]
  BY DEF Init
<1>6. /\ initialized \in BOOLEAN /\ resolved \in BOOLEAN /\ mapped \in BOOLEAN
  BY DEF Init
<1>7. /\ started \subseteq Threads /\ calls \in 0..MaxCalls /\ fails \in 0..MaxFail
      /\ do_not_hook \in Nat /\ usage_cnt \in Int
  BY HookGateAssumption DEF Init
<1>4. strays = {} /\ broken \in BOOLEAN
  BY DEF Init
<1> QED  BY <1>1, <1>2, <1>3, <1>4, <1>5, <1>6, <1>7 DEF Init, TypeOK

LEMMA NextType == ASSUME TypeOK, StepFits, HookHeld, CountAgrees, [Next]_vars PROVE TypeOK'
<1> USE DEF gate, start, local, table, maps, count
<1>1. CASE UNCHANGED vars
  BY <1>1 DEF TypeOK, vars
<1> SUFFICES ASSUME NEW t \in Threads, Spawn(t) \/ Begin(t) \/ Run(t) PROVE TypeOK'
  BY <1>1 DEF Next
<1>2. CASE Spawn(t)
  BY <1>2 DEF TypeOK, Spawn
<1>3. CASE Begin(t)
  <2>1. PICK c \in CallsOf(t) : todo' = [todo EXCEPT ![t] = Script[c]]
    BY <1>3 DEF Begin
  <2>2. c \in DOMAIN Script
    BY DEF CallsOf, FirstCalls, WorkerCalls, Script
  <2>3. todo' \in [Threads -> Seq(Stages)]
    BY <2>1, <2>2, ScriptType DEF TypeOK
  <2> QED  BY <1>3, <2>3, HookGateAssumption DEF TypeOK, Begin
<1>4. CASE McInit(t)
  <2>1. todo[t] # <<>> /\ todo[t] \in Seq(Stages)
    BY <1>4 DEF McInit, At, TypeOK
  <2>2. todo' \in [Threads -> Seq(Stages)] /\ step' \in [Threads -> {"start", "locked",
          "inside", "aimed", "demangle", "done", "leaving", "find", "add"}]
    <3>1. CASE initialized
      BY <1>4, <2>1, <3>1, LeaveType DEF McInit, TypeOK
    <3>2. CASE ~initialized
      <4>1. <<"init">> \o Tail(todo[t]) \in Seq(Stages)
        BY <2>1 DEF Stages, Gates, HookStages
      <4> QED  BY <1>4, <3>2, <4>1 DEF McInit, TypeOK
    <3> QED  BY <3>1, <3>2
  <2> QED  BY <1>4, <2>2 DEF McInit, TypeOK
<1>5. CASE Gate(t)
  <2>1. todo[t] # <<>> /\ <<>> \in Seq(Stages)
    BY <1>5 DEF Gate, AtGate
  <2>2. todo' \in [Threads -> Seq(Stages)] /\ step' \in [Threads -> {"start", "locked",
          "inside", "aimed", "demangle", "done", "leaving", "find", "add"}]
    <3>1. CASE do_not_hook # 0
      <4>1. todo' = [todo EXCEPT ![t] = <<>>] /\ step' = step
        BY <1>5, <3>1 DEF Gate
      <4> QED  BY <2>1, <4>1 DEF TypeOK
    <3>2. CASE do_not_hook = 0
      BY <1>5, <2>1, <3>2, LeaveType DEF Gate, TypeOK
    <3> QED  BY <3>1, <3>2
  <2>3. strays' \subseteq {"bypassed", "recursed", "unguarded"}
    BY <1>5 DEF Gate, Registered, TypeOK
  <2> QED  BY <1>5, <2>2, <2>3 DEF Gate, TypeOK
<1>6. CASE DisableLock(t)
  BY <1>6, HookGateAssumption DEF DisableLock, TypeOK, Goto, Inside
<1>7. CASE DisableCount(t)
  BY <1>7, HookGateAssumption DEF DisableCount, TypeOK, Goto, Inside
<1>8. CASE EnableCount(t)
  <2>1. do_not_hook' \in Nat
    BY <1>8, HookGateAssumption DEF EnableCount, InHook, At, TypeOK, HookHeld, CountAgrees, Deep, Depth
  <2> QED  BY <1>8, <2>1 DEF EnableCount, TypeOK, Goto, Inside
<1>9. CASE EnableUnlock(t)
  <2>1. todo[t] # <<>> /\ Leave(t)
    BY <1>9 DEF EnableUnlock, At, InHook
  <2> QED  BY <1>9, <2>1, LeaveType DEF EnableUnlock, TypeOK
<1>10. CASE Resolve(t)
  BY <1>10, HookGateAssumption DEF Resolve, TypeOK, Goto, Inside
<1>11. CASE Backtrace(t)
  BY <1>11, HookGateAssumption DEF Backtrace, TypeOK, Goto, Inside
<1>12. CASE CallstackLock(t)
  BY <1>12, HookGateAssumption DEF CallstackLock, TypeOK, Goto, Inside
<1>13. CASE CallstackFind(t)
  <2>1. todo[t] # <<>>
    BY <1>13 DEF CallstackFind, At
  <2>2. CASE \E i \in DOMAIN entries : entries[i].trace = trace[t]
    <3>1. entries' = [i \in DOMAIN entries |->
                 IF entries[i].trace = trace[t]
                 THEN [entries[i] EXCEPT !.usage = @ + 1] ELSE entries[i]]
          /\ callstack_mtx' = NULL /\ Leave(t)
      BY <1>13, <2>2 DEF CallstackFind
    <3>2. entries' \in Seq([trace : Traces \cup {NULL}, usage : Nat])
      <4> DEFINE E == [trace : Traces \cup {NULL}, usage : Nat]
      <4>0. entries \in Seq(E)
        BY DEF TypeOK
      <4>3. \A x \in E : [x EXCEPT !.usage = @ + 1] \in E
        OBVIOUS
      <4> HIDE DEF E
      <4>1. DOMAIN entries = 1..Len(entries) /\ Len(entries) \in Nat
        BY <4>0
      <4>2. \A i \in DOMAIN entries : entries[i] \in E
        BY <4>0, <4>1
      <4>4. DOMAIN entries' = 1..Len(entries) /\ \A i \in 1..Len(entries) : entries'[i] \in E
        BY <3>1, <4>1, <4>2, <4>3
      <4>5. entries' \in [1..Len(entries) -> E]
        BY <3>1, <4>1, <4>4
      <4>6. entries' \in Seq(E)
        BY <4>1, <4>5
      <4> QED  BY <4>6 DEF E
    <3> QED  BY <1>13, <2>1, <3>1, <3>2, LeaveType DEF CallstackFind, TypeOK
  <2>3. CASE ~\E i \in DOMAIN entries : entries[i].trace = trace[t]
    BY <1>13, <2>3 DEF CallstackFind, TypeOK, Goto
  <2> QED  BY <2>2, <2>3
<1>14. CASE CallstackAdd(t)
  <2>1. todo[t] # <<>>
    BY <1>14 DEF CallstackAdd, At
  <2>2. entries' \in Seq([trace : Traces \cup {NULL}, usage : Nat])
    BY <1>14 DEF CallstackAdd, TypeOK
  <2> QED  BY <1>14, <2>1, <2>2, LeaveType DEF CallstackAdd, TypeOK
<1>15. CASE Count(t)
  <2>1. todo[t] # <<>> /\ Leave(t)
    BY <1>15 DEF Count, At, InHook
  <2> QED  BY <1>15, <2>1, LeaveType DEF Count, TypeOK
<1>16. CASE ManageLock(t)
  <2>1. todo[t] # <<>> /\ Leave(t)
    BY <1>16 DEF ManageLock, At, InHook
  <2> QED  BY <1>16, <2>1, LeaveType DEF ManageLock, TypeOK
<1>17. CASE ManageUnlock(t)
  <2>1. todo[t] # <<>> /\ Leave(t)
    BY <1>17 DEF ManageUnlock, At, InHook
  <2> QED  BY <1>17, <2>1, LeaveType DEF ManageUnlock, TypeOK
<1>18. CASE MapsInit(t)
  <2>1. mapped' \in BOOLEAN /\ broken' \in BOOLEAN
    BY <1>18 DEF MapsInit, NoBfds, TypeOK
  <2>2. abfd' \in [Files -> BOOLEAN] /\ symbols' \in [Files -> {"none", "valid", "freed"}]
    BY <1>18 DEF MapsInit, NoBfds, TypeOK
  <2> QED  BY <1>18, <2>1, <2>2 DEF MapsInit, NoBfds, TypeOK, Goto, Inside
<1>19. CASE MapsInitFails(t)
  <2>1. mapped' \in BOOLEAN
    BY <1>19 DEF MapsInitFails
  <2>2. fails' \in 0..MaxFail
    BY <1>19, HookGateAssumption DEF MapsInitFails, TypeOK
  <2> QED  BY <1>19, <2>1, <2>2 DEF MapsInitFails, TypeOK, Goto
<1>20. CASE MapsTerm(t)
  <2>1. mapped' \in BOOLEAN /\ broken' \in BOOLEAN
    BY <1>20 DEF MapsTerm, NoBfds, TypeOK
  <2>2. abfd' \in [Files -> BOOLEAN] /\ symbols' \in [Files -> {"none", "valid", "freed"}]
    BY <1>20 DEF MapsTerm, NoBfds, TypeOK
  <2> QED  BY <1>20, <2>1, <2>2 DEF MapsTerm, NoBfds, TypeOK, Goto, Inside
<1>21. CASE Lookup(t)
  BY <1>21, HookGateAssumption DEF Lookup, TypeOK, Goto, Inside
<1>22. CASE LookupFails(t)
  BY <1>22, HookGateAssumption DEF LookupFails, TypeOK, Goto, Inside
<1>23. CASE Find(t)
  BY <1>23, HookGateAssumption DEF Find, TypeOK, Goto, Inside
<1>24. CASE Demangled(t)
  <2>1. do_not_hook' \in Nat
    BY <1>24, HookGateAssumption DEF Demangled, InHook, At, TypeOK, HookHeld, CountAgrees, Deep, Depth
  <2> QED  BY <1>24, <2>1 DEF Demangled, TypeOK, Goto, Inside
<1> QED  BY <1>2, <1>3, <1>4, <1>5, <1>6, <1>7, <1>8, <1>9, <1>10, <1>11, <1>12, <1>13, <1>14, <1>15, <1>16, <1>17, <1>18, <1>19, <1>20, <1>21, <1>22, <1>23, <1>24 DEF Run
-----------------------------------------------------------------------------
(* The gate. *)

LEMMA InitGate == Init => GateInv
<1> SUFFICES ASSUME Init PROVE GateInv
  OBVIOUS
<1>1. TypeOK
  BY InitType
<1>2. StepFits /\ HookHeld /\ CountAgrees /\ GateTells
  BY HookGateAssumption DEF Init, StepFits, HookHeld, CountAgrees, GateTells, Deep
<1> QED  BY <1>1, <1>2 DEF GateInv

\* A thread that does not have the lock of the hook moves on.
LEMMA Outside ==
    ASSUME GateInv, NEW t \in Threads, step[t] \notin Deep,
           NEW w \in {"start", "find", "add"},
           step' = [step EXCEPT ![t] = w],
           \A u \in Threads \ {t} : todo'[u] = todo[u],
           w \in {"find", "add"} => todo'[t] # <<>> /\ Head(todo'[t]) = "callstack",
           UNCHANGED gate, strays' \subseteq strays \cup {"unguarded"}
    PROVE  StepFits' /\ HookHeld' /\ CountAgrees' /\ GateTells'
<1> USE DEF GateInv
<1>1. \A u \in Threads : step'[u] = IF u = t THEN w ELSE step[u]
  BY DEF TypeOK
<1>2. w \notin Deep
  BY DEF Deep
<1>3. StepFits'
  BY <1>1, <1>2 DEF StepFits
<1>4. HookHeld'
  BY <1>1, <1>2 DEF HookHeld, gate
<1>5. CountAgrees'
  <2>1. hook' = hook /\ do_not_hook' = do_not_hook
    BY DEF gate
  <2>2. CASE hook = NULL
    BY <2>1, <2>2 DEF CountAgrees
  <2>3. CASE hook # NULL
    <3>1. hook \in Threads /\ hook # t
      BY <2>3 DEF HookHeld, TypeOK
    <3> QED  BY <2>1, <2>3, <3>1, <1>1 DEF CountAgrees
  <2> QED  BY <2>2, <2>3
<1> QED  BY <1>3, <1>4, <1>5 DEF GateTells

\* The thread that has it goes on inside the stage.
LEMMA Deeper ==
    ASSUME GateInv, NEW t \in Threads, step[t] \in Deep,
           NEW w \in Deep,
           step' = [step EXCEPT ![t] = w], todo' = todo,
           hook' = hook, do_not_hook' = Depth(w), strays' = strays
    PROVE  StepFits' /\ HookHeld' /\ CountAgrees' /\ GateTells'
<1> USE DEF GateInv
<1>1. \A u \in Threads : step'[u] = IF u = t THEN w ELSE step[u]
  BY DEF TypeOK
<1>2. hook = t /\ hook # NULL
  BY HookGateAssumption DEF HookHeld
<1>3. StepFits'
  BY <1>1 DEF StepFits, Deep
<1>4. HookHeld'
  BY <1>1 DEF HookHeld
<1>5. CountAgrees'
  BY <1>1, <1>2 DEF CountAgrees
<1> QED  BY <1>3, <1>4, <1>5 DEF GateTells

\* What the counter is while a thread has the lock.
LEMMA Counted ==
    ASSUME GateInv, NEW t \in Threads, step[t] \in Deep
    PROVE  do_not_hook = Depth(step[t])
BY HookGateAssumption DEF GateInv, HookHeld, CountAgrees

LEMMA NextGate == ASSUME GateInv, [Next]_vars PROVE GateInv'
<1> USE DEF gate, start, local, table, maps, count
<1>0. TypeOK'
  BY NextType DEF GateInv
<1> SUFFICES StepFits' /\ HookHeld' /\ CountAgrees' /\ GateTells'
  BY <1>0 DEF GateInv
<1>1. CASE UNCHANGED vars
  BY <1>1 DEF GateInv, vars, StepFits, HookHeld, CountAgrees, GateTells
<1> SUFFICES ASSUME NEW t \in Threads, Spawn(t) \/ Begin(t) \/ Run(t)
             PROVE  StepFits' /\ HookHeld' /\ CountAgrees' /\ GateTells'
  BY <1>1 DEF Next
<1>2. CASE Spawn(t)
  BY <1>2 DEF Spawn, GateInv, StepFits, HookHeld, CountAgrees, GateTells
<1>3. CASE Begin(t)
  <2>1. todo[t] = <<>> /\ step' = step /\ \A u \in Threads \ {t} : todo'[u] = todo[u]
    BY <1>3 DEF Begin, GateInv, TypeOK
  <2>2. step[t] \notin Deep /\ step[t] \notin {"find", "add"}
    BY <2>1 DEF GateInv, StepFits
  <2>3. StepFits'
    BY <2>1, <2>2 DEF GateInv, StepFits
  <2> QED  BY <1>3, <2>1, <2>3 DEF Begin, GateInv, HookHeld, CountAgrees, GateTells
<1>4. CASE McInit(t)
  <2>1. todo[t] # <<>> /\ step[t] = "start" /\ step[t] \notin Deep
    BY <1>4 DEF McInit, At, Deep
  <2>2. step' = [step EXCEPT ![t] = "start"] /\ \A u \in Threads \ {t} : todo'[u] = todo[u]
    <3>1. CASE initialized
      BY <1>4, <2>1, <3>1, LeaveType DEF McInit, GateInv
    <3>2. CASE ~initialized
      BY <1>4, <2>1, <3>2 DEF McInit, GateInv, TypeOK
    <3> QED  BY <3>1, <3>2
  <2>3. UNCHANGED <<gate, strays>>
    BY <1>4 DEF McInit
  <2> QED  BY <2>1, <2>2, <2>3, Outside
<1>5. CASE Gate(t)
  <2>1. todo[t] # <<>> /\ step[t] = "start" /\ step[t] \notin Deep
    BY <1>5 DEF Gate, AtGate, Deep
  <2>2. hook # t
    BY <2>1 DEF GateInv, HookHeld
  <2>3. hook = NULL /\ do_not_hook = 0
    BY <1>5, <2>2 DEF Gate, GateInv, CountAgrees
  <2>4. step' = [step EXCEPT ![t] = "start"] /\ \A u \in Threads \ {t} : todo'[u] = todo[u]
    BY <1>5, <2>1, <2>3, LeaveType DEF Gate, GateInv
  <2>5. UNCHANGED gate /\ strays' \subseteq strays \cup {"unguarded"}
    BY <1>5, <2>3 DEF Gate, Registered
  <2> QED  BY <2>1, <2>4, <2>5, Outside
<1>6. CASE DisableLock(t)
  <2>1. step[t] = "start" /\ todo[t] # <<>> /\ Head(todo[t]) \in HookStages
    BY <1>6 DEF DisableLock, InHook
  <2>2. hook = NULL /\ hook' = t /\ t # NULL /\ do_not_hook' = 0
    BY <1>6, HookGateAssumption DEF DisableLock, GateInv, CountAgrees
  <2>3. todo' = todo /\ \A u \in Threads : step'[u] = IF u = t THEN "locked" ELSE step[u]
    BY <1>6 DEF DisableLock, Goto, GateInv, TypeOK
  <2>4. StepFits'
    BY <2>1, <2>3 DEF GateInv, StepFits
  <2>5. HookHeld'
    BY <2>2, <2>3, HookGateAssumption DEF GateInv, HookHeld, Deep
  <2>6. CountAgrees'
    BY <2>2, <2>3 DEF CountAgrees, Depth
  <2> QED  BY <1>6, <2>4, <2>5, <2>6 DEF DisableLock, GateInv, GateTells
<1>7. CASE DisableCount(t)
  <2>1. step[t] = "locked" /\ step' = [step EXCEPT ![t] = "inside"] /\ todo' = todo
    BY <1>7 DEF DisableCount, At, InHook, Goto
  <2>2. step[t] \in Deep /\ "inside" \in Deep /\ do_not_hook = 0
    BY <2>1, Counted DEF Deep, Depth
  <2>3. hook' = hook /\ do_not_hook' = 1 /\ strays' = strays
    BY <1>7, <2>2 DEF DisableCount, Inside
  <2> QED  BY <2>1, <2>2, <2>3, Deeper DEF Depth
<1>8. CASE EnableCount(t)
  <2>1. step[t] = "done" /\ step' = [step EXCEPT ![t] = "leaving"] /\ todo' = todo
    BY <1>8 DEF EnableCount, At, InHook, Goto
  <2>2. step[t] \in Deep /\ "leaving" \in Deep /\ do_not_hook = 1
    BY <2>1, Counted DEF Deep, Depth
  <2>3. hook' = hook /\ do_not_hook' = 0 /\ strays' = strays
    BY <1>8, <2>2 DEF EnableCount, Inside
  <2> QED  BY <2>1, <2>2, <2>3, Deeper DEF Depth
<1>9. CASE EnableUnlock(t)
  <2>1. step[t] = "leaving" /\ todo[t] # <<>>
    BY <1>9 DEF EnableUnlock, InHook
  <2>2. hook = t /\ hook' = NULL /\ do_not_hook' = 0
    <3>1. hook = t /\ do_not_hook = 0
      BY <2>1, Counted DEF GateInv, HookHeld, Deep, Depth
    <3> QED  BY <1>9, <3>1 DEF EnableUnlock
  <2>3. step' = [step EXCEPT ![t] = "start"] /\ \A u \in Threads \ {t} : todo'[u] = todo[u]
    BY <1>9, <2>1, LeaveType DEF EnableUnlock, GateInv
  <2>4. \A u \in Threads : step'[u] = IF u = t THEN "start" ELSE step[u]
    BY <2>3 DEF GateInv, TypeOK
  <2>5. StepFits'
    BY <2>3, <2>4 DEF GateInv, StepFits, Deep
  <2>6. HookHeld'
    BY <2>2, <2>4, HookGateAssumption DEF GateInv, HookHeld, Deep
  <2>7. CountAgrees'
    BY <2>2 DEF CountAgrees
  <2> QED  BY <1>9, <2>5, <2>6, <2>7 DEF EnableUnlock, GateInv, GateTells
<1>10. CASE Resolve(t)
  <2>1. step[t] = "inside" /\ step' = [step EXCEPT ![t] = "done"] /\ todo' = todo
    BY <1>10 DEF Resolve, At, InHook, Goto
  <2>2. step[t] \in Deep /\ "done" \in Deep /\ do_not_hook = 1
    BY <2>1, Counted DEF Deep, Depth
  <2>3. hook' = hook /\ do_not_hook' = 1 /\ strays' = strays
    BY <1>10, <2>2 DEF Resolve, Inside
  <2> QED  BY <2>1, <2>2, <2>3, Deeper DEF Depth
<1>11. CASE Backtrace(t)
  <2>1. step[t] = "inside" /\ step' = [step EXCEPT ![t] = "done"] /\ todo' = todo
    BY <1>11 DEF Backtrace, At, InHook, Goto
  <2>2. step[t] \in Deep /\ "done" \in Deep /\ do_not_hook = 1
    BY <2>1, Counted DEF Deep, Depth
  <2>3. hook' = hook /\ do_not_hook' = 1 /\ strays' = strays
    BY <1>11, <2>2 DEF Backtrace, Inside
  <2> QED  BY <2>1, <2>2, <2>3, Deeper DEF Depth
<1>12. CASE CallstackLock(t)
  <2>1. todo[t] # <<>> /\ step[t] = "start" /\ step[t] \notin Deep
    BY <1>12 DEF CallstackLock, At, Deep
  <2>2. step' = [step EXCEPT ![t] = "find"] /\ todo' = todo /\ Head(todo[t]) = "callstack"
    BY <1>12 DEF CallstackLock, Goto, At
  <2>3. UNCHANGED <<gate, strays>>
    BY <1>12 DEF CallstackLock
  <2> QED  BY <2>1, <2>2, <2>3, Outside
<1>13. CASE CallstackFind(t)
  <2>1. todo[t] # <<>> /\ step[t] = "find" /\ step[t] \notin Deep
    BY <1>13 DEF CallstackFind, At, Deep
  <2>2. UNCHANGED <<gate, strays>>
    BY <1>13 DEF CallstackFind
  <2>3. CASE \E i \in DOMAIN entries : entries[i].trace = trace[t]
    <3>1. step' = [step EXCEPT ![t] = "start"] /\ \A u \in Threads \ {t} : todo'[u] = todo[u]
      BY <1>13, <2>1, <2>3, LeaveType DEF CallstackFind, GateInv
    <3> QED  BY <2>1, <2>2, <3>1, Outside
  <2>4. CASE ~\E i \in DOMAIN entries : entries[i].trace = trace[t]
    <3>1. step' = [step EXCEPT ![t] = "add"] /\ todo' = todo /\ Head(todo[t]) = "callstack"
      BY <1>13, <2>4 DEF CallstackFind, Goto, At
    <3> QED  BY <2>1, <2>2, <3>1, Outside
  <2> QED  BY <2>3, <2>4
<1>14. CASE CallstackAdd(t)
  <2>1. todo[t] # <<>> /\ step[t] = "add" /\ step[t] \notin Deep
    BY <1>14 DEF CallstackAdd, At, Deep
  <2>2. step' = [step EXCEPT ![t] = "start"] /\ \A u \in Threads \ {t} : todo'[u] = todo[u]
    BY <1>14, <2>1, LeaveType DEF CallstackAdd, GateInv
  <2>3. UNCHANGED <<gate, strays>>
    BY <1>14 DEF CallstackAdd
  <2> QED  BY <2>1, <2>2, <2>3, Outside
<1>15. CASE Count(t)
  <2>1. todo[t] # <<>> /\ step[t] = "start" /\ step[t] \notin Deep
    BY <1>15 DEF Count, At, Deep
  <2>2. step' = [step EXCEPT ![t] = "start"] /\ \A u \in Threads \ {t} : todo'[u] = todo[u]
    BY <1>15, <2>1, LeaveType DEF Count, GateInv
  <2>3. UNCHANGED <<gate, strays>>
    BY <1>15 DEF Count
  <2> QED  BY <2>1, <2>2, <2>3, Outside
<1>16. CASE ManageLock(t)
  <2>1. todo[t] # <<>> /\ step[t] = "start" /\ step[t] \notin Deep
    BY <1>16 DEF ManageLock, At, Deep
  <2>2. step' = [step EXCEPT ![t] = "start"] /\ \A u \in Threads \ {t} : todo'[u] = todo[u]
    BY <1>16, <2>1, LeaveType DEF ManageLock, GateInv
  <2>3. UNCHANGED <<gate, strays>>
    BY <1>16 DEF ManageLock
  <2> QED  BY <2>1, <2>2, <2>3, Outside
<1>17. CASE ManageUnlock(t)
  <2>1. todo[t] # <<>> /\ step[t] = "start" /\ step[t] \notin Deep
    BY <1>17 DEF ManageUnlock, At, Deep
  <2>2. step' = [step EXCEPT ![t] = "start"] /\ \A u \in Threads \ {t} : todo'[u] = todo[u]
    BY <1>17, <2>1, LeaveType DEF ManageUnlock, GateInv
  <2>3. UNCHANGED <<gate, strays>>
    BY <1>17 DEF ManageUnlock
  <2> QED  BY <2>1, <2>2, <2>3, Outside
<1>18. CASE MapsInit(t)
  <2>1. step[t] = "inside" /\ step' = [step EXCEPT ![t] = "done"] /\ todo' = todo
    BY <1>18 DEF MapsInit, NoBfds, At, InHook, Goto
  <2>2. step[t] \in Deep /\ "done" \in Deep /\ do_not_hook = 1
    BY <2>1, Counted DEF Deep, Depth
  <2>3. hook' = hook /\ do_not_hook' = 1 /\ strays' = strays
    BY <1>18, <2>2 DEF MapsInit, NoBfds, Inside
  <2> QED  BY <2>1, <2>2, <2>3, Deeper DEF Depth
<1>19. CASE MapsInitFails(t)
  <2>1. step[t] = "inside" /\ step' = [step EXCEPT ![t] = "done"] /\ todo' = todo
    BY <1>19 DEF MapsInitFails, At, InHook, Goto
  <2>2. step[t] \in Deep /\ "done" \in Deep /\ do_not_hook = 1
    BY <2>1, Counted DEF Deep, Depth
  <2>3. hook' = hook /\ do_not_hook' = 1 /\ strays' = strays
    BY <1>19, <2>2 DEF MapsInitFails, Inside
  <2> QED  BY <2>1, <2>2, <2>3, Deeper DEF Depth
<1>20. CASE MapsTerm(t)
  <2>1. step[t] = "inside" /\ step' = [step EXCEPT ![t] = "done"] /\ todo' = todo
    BY <1>20 DEF MapsTerm, NoBfds, At, InHook, Goto
  <2>2. step[t] \in Deep /\ "done" \in Deep /\ do_not_hook = 1
    BY <2>1, Counted DEF Deep, Depth
  <2>3. hook' = hook /\ do_not_hook' = 1 /\ strays' = strays
    BY <1>20, <2>2 DEF MapsTerm, NoBfds, Inside
  <2> QED  BY <2>1, <2>2, <2>3, Deeper DEF Depth
<1>21. CASE Lookup(t)
  <2>1. step[t] = "inside" /\ step' = [step EXCEPT ![t] = "aimed"] /\ todo' = todo
    BY <1>21 DEF Lookup, At, InHook, Goto
  <2>2. step[t] \in Deep /\ "aimed" \in Deep /\ do_not_hook = 1
    BY <2>1, Counted DEF Deep, Depth
  <2>3. hook' = hook /\ do_not_hook' = 1 /\ strays' = strays
    BY <1>21, <2>2 DEF Lookup, Inside
  <2> QED  BY <2>1, <2>2, <2>3, Deeper DEF Depth
<1>22. CASE LookupFails(t)
  <2>1. step[t] = "inside" /\ step' = [step EXCEPT ![t] = "done"] /\ todo' = todo
    BY <1>22 DEF LookupFails, At, InHook, Goto
  <2>2. step[t] \in Deep /\ "done" \in Deep /\ do_not_hook = 1
    BY <2>1, Counted DEF Deep, Depth
  <2>3. hook' = hook /\ do_not_hook' = 1 /\ strays' = strays
    BY <1>22, <2>2 DEF LookupFails, Inside
  <2> QED  BY <2>1, <2>2, <2>3, Deeper DEF Depth
<1>23. CASE Find(t)
  <2>1. step[t] = "aimed" /\ step' = [step EXCEPT ![t] = "demangle"] /\ todo' = todo
    BY <1>23 DEF Find, At, InHook, Goto
  <2>2. step[t] \in Deep /\ "demangle" \in Deep /\ do_not_hook = 1
    BY <2>1, Counted DEF Deep, Depth
  <2>3. hook' = hook /\ do_not_hook' = 2 /\ strays' = strays
    BY <1>23, <2>2 DEF Find, Inside
  <2> QED  BY <2>1, <2>2, <2>3, Deeper DEF Depth
<1>24. CASE Demangled(t)
  <2>1. step[t] = "demangle" /\ step' = [step EXCEPT ![t] = "done"] /\ todo' = todo
    BY <1>24 DEF Demangled, At, InHook, Goto
  <2>2. step[t] \in Deep /\ "done" \in Deep /\ do_not_hook = 2
    BY <2>1, Counted DEF Deep, Depth
  <2>3. hook' = hook /\ do_not_hook' = 1 /\ strays' = strays
    BY <1>24, <2>2 DEF Demangled, Inside
  <2> QED  BY <2>1, <2>2, <2>3, Deeper DEF Depth
<1> QED  BY <1>2, <1>3, <1>4, <1>5, <1>6, <1>7, <1>8, <1>9, <1>10, <1>11, <1>12, <1>13, <1>14, <1>15, <1>16, <1>17, <1>18, <1>19, <1>20, <1>21, <1>22, <1>23, <1>24 DEF Run

\* The variables keep their types (in particular do_not_hook never falls below
\* zero, memchk_hook.c:26-30).
THEOREM TypeCorrect == Spec => []TypeOK
<1>1. Init => GateInv
  BY InitGate
<1>2. GateInv /\ [Next]_vars => GateInv'
  BY NextGate
<1>3. GateInv => TypeOK
  BY DEF GateInv
<1> QED  BY <1>1, <1>2, <1>3, PTL DEF Spec

\* For any number of threads, every call takes the way at the gate that its place
\* asks for (the tests of do_not_hook in memchk_hook.c:41, 68, 96 and 130): one
\* made outside of mc_disable_hook and mc_enable_hook is registered, one made
\* between them never. Of memchk's own calls only those of the virtual memory
\* command are outside (memchk_virtmem.c:157-160).
THEOREM GateIsExact == Spec => []GateTells
<1>1. Init => GateInv
  BY InitGate
<1>2. GateInv /\ [Next]_vars => GateInv'
  BY NextGate
<1>3. GateInv => GateTells
  BY DEF GateInv
<1> QED  BY <1>1, <1>2, <1>3, PTL DEF Spec

-----------------------------------------------------------------------------
(* The statics of the symbol lookup. *)

LEMMA NextAim == ASSUME GateInv, AimHeld, [Next]_vars PROVE AimHeld'
<1> USE DEF gate, start, local, table, maps, count, GateInv
<1>1. CASE UNCHANGED vars
  BY <1>1 DEF vars, AimHeld
<1> SUFFICES ASSUME NEW t \in Threads, Spawn(t) \/ Begin(t) \/ Run(t) PROVE AimHeld'
  BY <1>1 DEF Next
<1>2. CASE Spawn(t) \/ Begin(t)
  BY <1>2 DEF Spawn, Begin, AimHeld
<1>3. CASE Lookup(t)
  <2>1. step[t] = "inside" /\ step' = [step EXCEPT ![t] = "aimed"]
    BY <1>3 DEF Lookup, At, Goto
  <2>2. \A u \in Threads : step'[u] = "aimed" => u = t
    BY <2>1 DEF HookHeld, Deep, TypeOK
  <2>3. file'[t] = aim'
    BY <1>3 DEF Lookup, TypeOK
  <2> QED  BY <2>2, <2>3 DEF AimHeld
\* No other action touches the statics or a file, or aims.
<1>4. ASSUME UNCHANGED <<aim, file>>, \A u \in Threads : step'[u] = "aimed" => step[u] = "aimed"
      PROVE  AimHeld'
  BY <1>4 DEF AimHeld
<1>5. CASE McInit(t)
  BY <1>4, <1>5 DEF McInit, Leave, TypeOK
<1>6. CASE Gate(t)
  BY <1>4, <1>6 DEF Gate, Leave, TypeOK
<1>7. CASE DisableLock(t)
  BY <1>4, <1>7 DEF DisableLock, Goto, TypeOK
<1>8. CASE DisableCount(t)
  BY <1>4, <1>8 DEF DisableCount, Goto, TypeOK
<1>9. CASE EnableCount(t)
  BY <1>4, <1>9 DEF EnableCount, Goto, TypeOK
<1>10. CASE EnableUnlock(t)
  BY <1>4, <1>10 DEF EnableUnlock, Leave, TypeOK
<1>11. CASE Resolve(t)
  BY <1>4, <1>11 DEF Resolve, Goto, TypeOK
<1>12. CASE Backtrace(t)
  BY <1>4, <1>12 DEF Backtrace, Goto, TypeOK
<1>13. CASE CallstackLock(t)
  BY <1>4, <1>13 DEF CallstackLock, Goto, TypeOK
<1>14. CASE CallstackFind(t)
  BY <1>4, <1>14 DEF CallstackFind, Leave, Goto, TypeOK
<1>15. CASE CallstackAdd(t)
  BY <1>4, <1>15 DEF CallstackAdd, Leave, TypeOK
<1>16. CASE Count(t)
  BY <1>4, <1>16 DEF Count, Leave, TypeOK
<1>17. CASE ManageLock(t)
  BY <1>4, <1>17 DEF ManageLock, Leave, TypeOK
<1>18. CASE ManageUnlock(t)
  BY <1>4, <1>18 DEF ManageUnlock, Leave, TypeOK
<1>19. CASE MapsInit(t)
  BY <1>4, <1>19 DEF MapsInit, NoBfds, Goto, TypeOK
<1>20. CASE MapsInitFails(t)
  BY <1>4, <1>20 DEF MapsInitFails, Goto, TypeOK
<1>21. CASE MapsTerm(t)
  BY <1>4, <1>21 DEF MapsTerm, NoBfds, Goto, TypeOK
<1>22. CASE LookupFails(t)
  BY <1>4, <1>22 DEF LookupFails, Goto, TypeOK
<1>23. CASE Find(t)
  BY <1>4, <1>23 DEF Find, Goto, TypeOK
<1>24. CASE Demangled(t)
  BY <1>4, <1>24 DEF Demangled, Goto, TypeOK
<1> QED  BY <1>2, <1>3, <1>5, <1>6, <1>7, <1>8, <1>9, <1>10, <1>11, <1>12, <1>13, <1>14, <1>15, <1>16, <1>17, <1>18, <1>19, <1>20, <1>21, <1>22, <1>23, <1>24 DEF Run

\* For any number of threads and files, the lookup reads the file it has set the
\* statics for (memchk_symbol.c:51-56).
THEOREM AimIsHeld == Spec => []AimHeld
<1>1. Init => GateInv /\ AimHeld
  <2> SUFFICES ASSUME Init PROVE GateInv /\ AimHeld
    OBVIOUS
  <2> QED  BY InitGate DEF Init, AimHeld
<1>2. GateInv /\ AimHeld /\ [Next]_vars => (GateInv /\ AimHeld)'
  BY NextGate, NextAim
<1> QED  BY <1>1, <1>2, PTL DEF Spec

-----------------------------------------------------------------------------
(* The entries of call stacks. *)

LEMMA InitTable == Init => CallstackHeld /\ AddIsNew /\ OneEntryPerTrace
<1> SUFFICES ASSUME Init PROVE CallstackHeld /\ AddIsNew /\ OneEntryPerTrace
  OBVIOUS
<1>1. DOMAIN entries = {}
  BY DEF Init
<1>2. AddIsNew /\ OneEntryPerTrace
  BY <1>1 DEF AddIsNew, OneEntryPerTrace
<1>3. CallstackHeld
  BY HookGateAssumption DEF Init, CallstackHeld
<1> QED  BY <1>2, <1>3

LEMMA NextTable ==
    ASSUME GateInv, CallstackHeld, AddIsNew, OneEntryPerTrace, [Next]_vars
    PROVE  CallstackHeld' /\ AddIsNew' /\ OneEntryPerTrace'
<1> USE DEF gate, start, local, table, maps, count
<1>1. CASE UNCHANGED vars
  BY <1>1 DEF vars, CallstackHeld, AddIsNew, OneEntryPerTrace
<1> SUFFICES ASSUME NEW t \in Threads, Spawn(t) \/ Begin(t) \/ Run(t)
             PROVE  CallstackHeld' /\ AddIsNew' /\ OneEntryPerTrace'
  BY <1>1 DEF Next
<1>2. CASE Spawn(t) \/ Begin(t)
  BY <1>2 DEF Spawn, Begin, CallstackHeld, AddIsNew, OneEntryPerTrace
\* Outside of the three actions on the table nobody comes to it or leaves it.
<1>3. ASSUME UNCHANGED table,
             \A u \in Threads : step'[u] \in {"find", "add"} \/ step[u] \in {"find", "add"}
                                 => step'[u] = step[u] /\ trace'[u] = trace[u]
      PROVE  CallstackHeld' /\ AddIsNew' /\ OneEntryPerTrace'
  BY <1>3 DEF CallstackHeld, AddIsNew, OneEntryPerTrace
<1>4. CASE CallstackLock(t)
  <2>1. \A u \in Threads : step'[u] = IF u = t THEN "find" ELSE step[u]
    BY <1>4 DEF CallstackLock, Goto, GateInv, TypeOK
  <2>2. callstack_mtx = NULL /\ callstack_mtx' = t /\ t # NULL /\ UNCHANGED <<entries, trace>>
    BY <1>4, HookGateAssumption DEF CallstackLock
  <2>3. CallstackHeld'
    BY <2>1, <2>2, HookGateAssumption DEF CallstackHeld
  <2> QED  BY <2>1, <2>2, <2>3 DEF AddIsNew, OneEntryPerTrace
<1>5. CASE CallstackFind(t)
  <2>1. step[t] = "find" /\ todo[t] # <<>> /\ callstack_mtx = t /\ trace' = trace
    BY <1>5 DEF CallstackFind, At, CallstackHeld
  <2>2. CASE \E i \in DOMAIN entries : entries[i].trace = trace[t]
    <3>1. \A u \in Threads : step'[u] = IF u = t THEN "start" ELSE step[u]
      <4>1. Leave(t)
        BY <1>5, <2>2 DEF CallstackFind
      <4> QED  BY <4>1, LeaveStep DEF GateInv
    <3>2. CallstackHeld'
      BY <1>5, <2>1, <2>2, <3>1, HookGateAssumption DEF CallstackFind, CallstackHeld
    <3>3. DOMAIN entries' = DOMAIN entries
          /\ \A i \in DOMAIN entries : entries'[i].trace = entries[i].trace
      <4>1. entries' = [i \in DOMAIN entries |->
                 IF entries[i].trace = trace[t]
                 THEN [entries[i] EXCEPT !.usage = @ + 1] ELSE entries[i]]
        BY <1>5, <2>2 DEF CallstackFind
      <4>2. ASSUME NEW i \in DOMAIN entries PROVE entries'[i].trace = entries[i].trace
        <5> DEFINE E == [trace : Traces \cup {NULL}, usage : Nat]
        <5>1. entries \in Seq(E)
          BY DEF GateInv, TypeOK
        <5>2. \A x \in E : [x EXCEPT !.usage = @ + 1].trace = x.trace
          OBVIOUS
        <5> HIDE DEF E
        <5>3. entries[i] \in E
          BY <5>1
        <5> QED  BY <4>1, <5>2, <5>3
      <4> QED  BY <4>1, <4>2
    <3>4. \A u \in Threads : step'[u] # "add"
      BY <3>1, <2>1 DEF CallstackHeld
    <3> QED  BY <3>2, <3>3, <3>4 DEF AddIsNew, OneEntryPerTrace
  <2>3. CASE ~\E i \in DOMAIN entries : entries[i].trace = trace[t]
    <3>1. UNCHANGED table /\ \A u \in Threads : step'[u] = IF u = t THEN "add" ELSE step[u]
      BY <1>5, <2>3 DEF CallstackFind, Goto, GateInv, TypeOK
    <3> QED  BY <2>1, <2>3, <3>1 DEF CallstackHeld, AddIsNew, OneEntryPerTrace
  <2> QED  BY <2>2, <2>3
<1>6. CASE CallstackAdd(t)
  <2>1. step[t] = "add" /\ todo[t] # <<>> /\ callstack_mtx = t /\ callstack_mtx' = NULL
    BY <1>6 DEF CallstackAdd, At, CallstackHeld
  <2>2. \A u \in Threads : step'[u] = IF u = t THEN "start" ELSE step[u]
    <3>1. Leave(t)
      BY <1>6 DEF CallstackAdd
    <3> QED  BY <3>1, LeaveStep DEF GateInv
  <2>3. CallstackHeld'
    BY <2>1, <2>2, HookGateAssumption DEF CallstackHeld
  <2>4. AddIsNew'
    BY <2>1, <2>2 DEF CallstackHeld, AddIsNew
  <2>5. OneEntryPerTrace'
    <3> DEFINE e == [trace |-> trace[t], usage |-> 1]
    <3>1. entries' = Append(entries, e) /\ e.trace = trace[t]
      BY <1>6 DEF CallstackAdd
    <3>2. entries \in Seq([trace : Traces \cup {NULL}, usage : Nat])
      BY DEF GateInv, TypeOK
    <3> HIDE DEF e
    <3>3. DOMAIN entries' = 1..(Len(entries) + 1) /\ DOMAIN entries = 1..Len(entries)
          /\ Len(entries) \in Nat
      BY <3>1, <3>2
    <3>4. \A i \in DOMAIN entries' :
            entries'[i] = IF i = Len(entries) + 1 THEN e ELSE entries[i]
      BY <3>1, <3>2, <3>3
    <3>5. \A i \in DOMAIN entries' \ {Len(entries) + 1} : i \in DOMAIN entries
      BY <3>3
    <3>6. \A i \in DOMAIN entries : entries[i].trace # e.trace
      BY <2>1, <3>1 DEF AddIsNew
    <3> QED  BY <3>4, <3>5, <3>6 DEF OneEntryPerTrace
  <2> QED  BY <2>3, <2>4, <2>5
<1>7. CASE McInit(t)
  BY <1>3, <1>7 DEF McInit, Leave, At, GateInv, TypeOK
<1>8. CASE Gate(t)
  BY <1>3, <1>8 DEF Gate, AtGate, Gates, Leave, GateInv, TypeOK
<1>9. CASE DisableLock(t)
  BY <1>3, <1>9 DEF DisableLock, Goto, InHook, At, GateInv, TypeOK
<1>10. CASE DisableCount(t)
  BY <1>3, <1>10 DEF DisableCount, Goto, InHook, At, GateInv, TypeOK
<1>11. CASE EnableCount(t)
  BY <1>3, <1>11 DEF EnableCount, Goto, InHook, At, GateInv, TypeOK
<1>12. CASE EnableUnlock(t)
  BY <1>3, <1>12 DEF EnableUnlock, Leave, InHook, At, GateInv, TypeOK
<1>13. CASE Resolve(t)
  BY <1>3, <1>13 DEF Resolve, Goto, InHook, At, GateInv, TypeOK
<1>14. CASE Backtrace(t)
  BY <1>3, <1>14 DEF Backtrace, Goto, InHook, At, GateInv, TypeOK
<1>15. CASE Count(t)
  BY <1>3, <1>15 DEF Count, Leave, At, GateInv, TypeOK
<1>16. CASE ManageLock(t)
  BY <1>3, <1>16 DEF ManageLock, Leave, At, GateInv, TypeOK
<1>17. CASE ManageUnlock(t)
  BY <1>3, <1>17 DEF ManageUnlock, Leave, At, GateInv, TypeOK
<1>18. CASE MapsInit(t)
  BY <1>3, <1>18 DEF MapsInit, NoBfds, Goto, InHook, At, GateInv, TypeOK
<1>19. CASE MapsInitFails(t)
  BY <1>3, <1>19 DEF MapsInitFails, Goto, InHook, At, GateInv, TypeOK
<1>20. CASE MapsTerm(t)
  BY <1>3, <1>20 DEF MapsTerm, NoBfds, Goto, InHook, At, GateInv, TypeOK
<1>21. CASE Lookup(t)
  BY <1>3, <1>21 DEF Lookup, Goto, InHook, At, GateInv, TypeOK
<1>22. CASE LookupFails(t)
  BY <1>3, <1>22 DEF LookupFails, Goto, InHook, At, GateInv, TypeOK
<1>23. CASE Find(t)
  BY <1>3, <1>23 DEF Find, Goto, InHook, At, GateInv, TypeOK
<1>24. CASE Demangled(t)
  BY <1>3, <1>24 DEF Demangled, Goto, InHook, At, GateInv, TypeOK
<1> QED  BY <1>2, <1>4, <1>5, <1>6, <1>7, <1>8, <1>9, <1>10, <1>11, <1>12, <1>13, <1>14, <1>15, <1>16, <1>17, <1>18, <1>19, <1>20, <1>21, <1>22, <1>23, <1>24 DEF Run

\* For any number of threads, no call stack has two entries
\* (memchk_callstack.c:32-53).
THEOREM OneEntry == Spec => []OneEntryPerTrace
<1> DEFINE I == GateInv /\ CallstackHeld /\ AddIsNew /\ OneEntryPerTrace
<1>1. Init => I
  BY InitGate, InitTable
<1>2. I /\ [Next]_vars => I'
  BY NextGate, NextTable
<1>3. I => OneEntryPerTrace
  OBVIOUS
<1> HIDE DEF I
<1> QED  BY <1>1, <1>2, <1>3, PTL DEF Spec

-----------------------------------------------------------------------------
(* The stages a call has left. *)

Has(q, stage) == \E i \in DOMAIN q : q[i] = stage

\* The file maps are used between maps_init and maps_term, once in a call.
MapsOnce(q) ==
    /\ \A i, j \in DOMAIN q : q[i] = "maps_init" /\ i < j => q[j] # "maps_init"
    /\ \A i, j \in DOMAIN q : q[i] = "maps_term" /\ i < j => q[j] # "maps_term"
    /\ \A i, j \in DOMAIN q : q[i] = "lookup" /\ i < j => q[j] # "maps_init"

\* What begins will end.
Ends(q) ==
    /\ \A i \in DOMAIN q : q[i] \in {"maps_init", "lookup"} =>
            \E j \in DOMAIN q : i < j /\ q[j] = "maps_term"
    /\ \A i \in DOMAIN q : q[i] = "manage_lock" =>
            \E j \in DOMAIN q : i < j /\ q[j] = "manage_unlock"

Neat(q) == MapsOnce(q) /\ Ends(q)

LEMMA TailAt ==
    ASSUME NEW q \in Seq(Stages), q # <<>>
    PROVE  /\ Len(q) \in Nat \ {0} /\ Head(q) = q[1]
           /\ Tail(q) \in Seq(Stages) /\ DOMAIN Tail(q) = 1..(Len(q) - 1)
           /\ DOMAIN q = 1..Len(q)
           /\ \A i \in 1..(Len(q) - 1) : Tail(q)[i] = q[i + 1]
OBVIOUS

LEMMA HasTail ==
    ASSUME NEW q \in Seq(Stages), q # <<>>, NEW x
    PROVE  Has(q, x) <=> Head(q) = x \/ Has(Tail(q), x)
<1>1. ASSUME Has(q, x), Head(q) # x PROVE Has(Tail(q), x)
  <2>1. PICK i \in 1..Len(q) : q[i] = x
    BY <1>1, TailAt DEF Has
  <2>2. i - 1 \in 1..(Len(q) - 1) /\ q[(i - 1) + 1] = x
    BY <1>1, <2>1, TailAt
  <2> QED  BY <2>2, TailAt DEF Has
<1>2. ASSUME Has(Tail(q), x) PROVE Has(q, x)
  <2>1. PICK i \in 1..(Len(q) - 1) : q[i + 1] = x
    BY <1>2, TailAt DEF Has
  <2>2. i + 1 \in 1..Len(q)
    BY <2>1, TailAt
  <2> QED  BY <2>1, <2>2, TailAt DEF Has
<1>3. ASSUME Head(q) = x PROVE Has(q, x)
  <2>1. 1 \in DOMAIN q /\ q[1] = x
    BY <1>3, TailAt
  <2> QED  BY <2>1 DEF Has
<1> QED  BY <1>1, <1>2, <1>3

\* A thread that is past the head of what it had left has as neat a rest.
LEMMA NeatTail ==
    ASSUME NEW q \in Seq(Stages), q # <<>>, Neat(q)
    PROVE  Neat(Tail(q))
<1> DEFINE n == Len(q)
           r == Tail(q)
<1>1. n \in Nat \ {0} /\ DOMAIN q = 1..n /\ DOMAIN r = 1..(n - 1)
      /\ \A i \in 1..(n - 1) : r[i] = q[i + 1]
  BY TailAt
<1> HIDE DEF n, r
<1>2. \A i \in 1..(n - 1) : i + 1 \in 1..n
  BY <1>1
<1>3. ASSUME NEW x, NEW y,
             \A i, j \in DOMAIN q : q[i] = x /\ i < j => q[j] # y,
             NEW i \in 1..(n - 1), NEW j \in 1..(n - 1), r[i] = x, i < j
      PROVE  r[j] # y
  <2>1. /\ r[i] = q[i + 1] /\ r[j] = q[j + 1] /\ i + 1 < j + 1
        /\ i + 1 \in DOMAIN q /\ j + 1 \in DOMAIN q
    BY <1>1, <1>2, <1>3
  <2> QED  BY <1>3, <2>1
<1>4. ASSUME NEW i \in DOMAIN r, NEW x,
             \E j \in DOMAIN q : i + 1 < j /\ q[j] = x
      PROVE  \E j \in DOMAIN r : i < j /\ r[j] = x
  <2>1. PICK j \in 1..n : i + 1 < j /\ q[j] = x
    BY <1>1, <1>4
  <2>2. j - 1 \in 1..(n - 1) /\ i < j - 1 /\ r[j - 1] = q[(j - 1) + 1] /\ (j - 1) + 1 = j
    BY <1>1, <2>1
  <2> QED  BY <1>1, <2>1, <2>2
<1>5. Ends(r)
  <2>1. \A i \in DOMAIN r : r[i] = q[i + 1] /\ i + 1 \in DOMAIN q
    BY <1>1, <1>2
  <2>2. ASSUME NEW i \in DOMAIN r, r[i] \in {"maps_init", "lookup"}
        PROVE  \E j \in DOMAIN r : i < j /\ r[j] = "maps_term"
    BY <1>4, <2>1, <2>2 DEF Neat, Ends
  <2>3. ASSUME NEW i \in DOMAIN r, r[i] = "manage_lock"
        PROVE  \E j \in DOMAIN r : i < j /\ r[j] = "manage_unlock"
    BY <1>4, <2>1, <2>3 DEF Neat, Ends
  <2> QED  BY <2>2, <2>3 DEF Ends
<1>6. MapsOnce(r)
  <2>1. \A i, j \in 1..(n - 1) : r[i] = "maps_init" /\ i < j => r[j] # "maps_init"
    BY <1>3 DEF Neat, MapsOnce
  <2>2. \A i, j \in 1..(n - 1) : r[i] = "maps_term" /\ i < j => r[j] # "maps_term"
    BY <1>3 DEF Neat, MapsOnce
  <2>3. \A i, j \in 1..(n - 1) : r[i] = "lookup" /\ i < j => r[j] # "maps_init"
    BY <1>3 DEF Neat, MapsOnce
  <2> QED  BY <1>1, <2>1, <2>2, <2>3 DEF MapsOnce
<1> QED  BY <1>5, <1>6 DEF Neat, r

\* Only the stages on the file maps and MANAGE_LOCK count.
LEMMA NeatSame ==
    ASSUME NEW q \in Seq(Stages), NEW r \in Seq(Stages), Len(r) = Len(q), Neat(q),
           \A i \in 1..Len(q) :
                \A x \in {"maps_init", "maps_term", "lookup", "manage_lock", "manage_unlock"} :
                    r[i] = x <=> q[i] = x
    PROVE  Neat(r)
<1> DEFINE n == Len(q)
<1>1. n \in Nat /\ DOMAIN q = 1..n /\ DOMAIN r = 1..n
  OBVIOUS
<1>2. MapsOnce(r)
  BY <1>1 DEF Neat, MapsOnce
<1>3. ASSUME NEW i \in 1..n, r[i] \in {"maps_init", "lookup"}
      PROVE  \E j \in 1..n : i < j /\ r[j] = "maps_term"
  <2>1. q[i] \in {"maps_init", "lookup"}
    BY <1>3
  <2>2. PICK j \in 1..n : i < j /\ q[j] = "maps_term"
    BY <1>1, <2>1 DEF Neat, Ends
  <2> QED  BY <2>2
<1>4. ASSUME NEW i \in 1..n, r[i] = "manage_lock"
      PROVE  \E j \in 1..n : i < j /\ r[j] = "manage_unlock"
  <2>1. q[i] = "manage_lock"
    BY <1>4
  <2>2. PICK j \in 1..n : i < j /\ q[j] = "manage_unlock"
    BY <1>1, <2>1 DEF Neat, Ends
  <2> QED  BY <2>2
<1>5. Ends(r)
  BY <1>1, <1>3, <1>4 DEF Ends
<1> QED  BY <1>2, <1>5 DEF Neat

\* What mc_init puts in its place when it is the first (memchk_init.c:31).
LEMMA InitFirst ==
    ASSUME NEW q \in Seq(Stages), q # <<>>, Head(q) = "mc_init", Neat(q),
           NEW r, r = <<"init">> \o Tail(q)
    PROVE  /\ r \in Seq(Stages) /\ r # <<>> /\ Head(r) = "init" /\ Tail(r) = Tail(q)
           /\ Neat(r)
           /\ \A x : x # "init" /\ x # "mc_init" => (Has(r, x) <=> Has(q, x))
<1> DEFINE n == Len(q)
<1>1. n \in Nat \ {0} /\ DOMAIN q = 1..n /\ DOMAIN Tail(q) = 1..(n - 1)
      /\ q[1] = "mc_init" /\ Tail(q) \in Seq(Stages)
      /\ \A i \in 1..(n - 1) : Tail(q)[i] = q[i + 1]
  BY TailAt
<1>2. "init" \in Stages
  BY DEF Stages, Gates, HookStages
<1>3. r \in Seq(Stages) /\ r # <<>> /\ Head(r) = "init" /\ Tail(r) = Tail(q)
  <2>1. <<"init">> \in Seq(Stages)
    BY <1>2
  <2>2. r \in Seq(Stages) /\ Len(r) = n
    BY <1>1, <2>1
  <2>3. r # <<>> /\ Head(r) = "init"
    BY <1>1, <2>1, <2>2
  <2> QED  BY <1>1, <2>1, <2>2, <2>3
<1>4. DOMAIN r = 1..n /\ r[1] = "init"
  BY <1>1, <1>3, TailAt
<1>5. \A i \in 2..n : r[i] = q[i]
  BY <1>1
<1> HIDE DEF n
<1>6. \A i \in 1..n : i = 1 \/ r[i] = q[i]
  BY <1>1, <1>5
<1>7. Neat(r)
  <2>1. Len(r) = n
    BY <1>1, <1>3, <1>4
  <2>2. \A i \in 1..n : \A x \in {"maps_init", "maps_term", "lookup", "manage_lock",
                                  "manage_unlock"} : r[i] = x <=> q[i] = x
    BY <1>1, <1>4, <1>6
  <2> QED  BY <1>3, <2>1, <2>2, NeatSame DEF n
<1>8. ASSUME NEW x, x # "init", x # "mc_init" PROVE Has(r, x) <=> Has(q, x)
  <2>1. \A i \in 1..n : r[i] = x <=> q[i] = x
    BY <1>1, <1>4, <1>6, <1>8
  <2> QED  BY <1>1, <1>4, <2>1 DEF Has
<1> QED  BY <1>3, <1>7, <1>8

\* The stages of every call: the scripts use the file maps and MANAGE_LOCK in
\* pairs (memchk_hook.c:205-229, memchk_manage_memblk.c:460-476).
LEMMA ScriptNeat ==
    \A c \in DOMAIN Script :
        Neat(Script[c]) /\ (Has(Script[c], "maps_term") => Has(Script[c], "maps_init"))
<1> DEFINE Good(q) == Neat(q) /\ (Has(q, "maps_term") => Has(q, "maps_init"))
           Plain == {"mc_init", "gate", "own", "backtrace", "callstack", "count"}
<1>1. ASSUME NEW q \in Seq(Plain) PROVE Good(q)
  <2>1. \A i \in DOMAIN q : q[i] \in Plain
    OBVIOUS
  <2> QED  BY <2>1 DEF Neat, MapsOnce, Ends, Has
<1>2. /\ <<"mc_init">> \in Seq(Plain) /\ <<"gate">> \in Seq(Plain)
      /\ <<"mc_init", "own">> \in Seq(Plain) /\ <<"own">> \in Seq(Plain)
      /\ <<"mc_init", "gate">> \in Seq(Plain) /\ Register \in Seq(Plain)
  BY DEF Register
<1> HIDE DEF Good, Plain
<1>3. /\ Malloc \in Seq(Plain) /\ Free \in Seq(Plain)
      /\ OwnMalloc \in Seq(Plain) /\ OwnFree \in Seq(Plain)
  BY <1>2 DEF Malloc, Free, OwnMalloc, OwnFree
<1>4. /\ <<"gate">> \o Malloc \in Seq(Plain) /\ (<<"gate">> \o Malloc) \o Free \in Seq(Plain)
      /\ OwnMalloc \o OwnFree \in Seq(Plain)
  BY <1>2, <1>3
<1>5. /\ Good(Script["constructor"]) /\ Good(Script["malloc"]) /\ Good(Script["calloc"])
      /\ Good(Script["realloc"]) /\ Good(Script["memalign"]) /\ Good(Script["free"])
      /\ Good(Script["virtual_memory"])
  BY <1>1, <1>2, <1>3, <1>4 DEF Script
<1>6. ASSUME NEW q, q = <<"maps_init", "lookup", "maps_term">> PROVE Good(q)
  <2>1. DOMAIN q = 1..3 /\ q[1] = "maps_init" /\ q[2] = "lookup" /\ q[3] = "maps_term"
    BY <1>6
  <2>3. MapsOnce(q)
    BY <2>1 DEF MapsOnce
  <2>4. Ends(q)
    BY <2>1 DEF Ends
  <2>5. Has(q, "maps_init")
    BY <2>1 DEF Has
  <2> QED  BY <2>3, <2>4, <2>5 DEF Good, Neat
<1>7. ASSUME NEW q, q = <<"manage_lock", "maps_init", "lookup", "maps_term", "manage_unlock">>
      PROVE  Good(q)
  <2>1. /\ DOMAIN q = 1..5 /\ q[1] = "manage_lock" /\ q[2] = "maps_init" /\ q[3] = "lookup"
        /\ q[4] = "maps_term" /\ q[5] = "manage_unlock"
    BY <1>7
  <2>3. MapsOnce(q)
    BY <2>1 DEF MapsOnce
  <2>4. Ends(q)
    BY <2>1 DEF Ends
  <2>5. Has(q, "maps_init")
    BY <2>1 DEF Has
  <2> QED  BY <2>3, <2>4, <2>5 DEF Good, Neat
<1>8. ASSUME NEW q, q = <<"gate", "maps_init", "backtrace", "lookup", "maps_term">>
      PROVE  Good(q)
  <2>1. /\ DOMAIN q = 1..5 /\ q[1] = "gate" /\ q[2] = "maps_init" /\ q[3] = "backtrace"
        /\ q[4] = "lookup" /\ q[5] = "maps_term"
    BY <1>8
  <2>3. MapsOnce(q)
    BY <2>1 DEF MapsOnce
  <2>4. Ends(q)
    BY <2>1 DEF Ends
  <2>5. Has(q, "maps_init")
    BY <2>1 DEF Has
  <2> QED  BY <2>3, <2>4, <2>5 DEF Good, Neat
<1>9. ASSUME NEW q,
             q = <<"gate", "maps_init", "lookup", "backtrace", "lookup", "maps_term">> \o Register
      PROVE  Good(q)
  <2> DEFINE p == <<"gate", "maps_init", "lookup", "backtrace", "lookup", "maps_term">>
  <2>1. /\ p \in Seq(Stages) /\ Len(p) = 6 /\ p[1] = "gate" /\ p[2] = "maps_init"
        /\ p[3] = "lookup" /\ p[4] = "backtrace" /\ p[5] = "lookup" /\ p[6] = "maps_term"
    BY DEF Stages, Gates, HookStages
  <2>2. /\ DOMAIN q = 1..9 /\ q[1] = "gate" /\ q[2] = "maps_init" /\ q[3] = "lookup"
        /\ q[4] = "backtrace" /\ q[5] = "lookup" /\ q[6] = "maps_term"
        /\ q[7] = "backtrace" /\ q[8] = "callstack" /\ q[9] = "count"
    <3> DEFINE e == Register
    <3>1. e \in Seq(Stages) /\ Len(e) = 3 /\ e[1] = "backtrace" /\ e[2] = "callstack"
          /\ e[3] = "count"
      BY DEF Register, Stages, Gates, HookStages
    <3>2. q = p \o e
      BY <1>9
    <3> HIDE DEF p, e
    <3>3. p \in Seq(Stages) /\ e \in Seq(Stages)
      BY <2>1, <3>1
    <3>4. /\ p \o e \in Seq(Stages) /\ Len(p \o e) = Len(p) + Len(e)
          /\ \A i \in 1..Len(p) + Len(e) :
                (p \o e)[i] = IF i <= Len(p) THEN p[i] ELSE e[i - Len(p)]
      BY <3>3, ConcatProperties, Zenon
    <3>5. q \in Seq(Stages) /\ Len(q) = 9
      BY <2>1, <3>1, <3>2, <3>4
    <3>6. \A i \in 1..9 : q[i] = IF i <= 6 THEN p[i] ELSE e[i - 6]
      <4>1. Len(p) = 6 /\ Len(e) = 3 /\ 6 + 3 = 9
        BY <2>1, <3>1
      <4> QED  BY <3>2, <3>4, <4>1, Zenon
    <3>7. DOMAIN q = 1..9
      BY <3>5
    <3> QED  BY <2>1, <3>1, <3>6, <3>7
  <2> HIDE DEF p
  <2>3. MapsOnce(q)
    BY <2>2 DEF MapsOnce
  <2>4. Ends(q)
    BY <2>2 DEF Ends
  <2>5. Has(q, "maps_init")
    BY <2>2 DEF Has
  <2> QED  BY <2>3, <2>4, <2>5 DEF Good, Neat
<1>10. /\ Good(Script["free_overrun"]) /\ Good(Script["free_illegal"])
       /\ Good(Script["list"]) /\ Good(Script["check"])
  BY <1>6, <1>7, <1>8, <1>9 DEF Script
<1>11. DOMAIN Script = {"constructor", "malloc", "calloc", "realloc", "memalign", "free",
                        "free_overrun", "free_illegal", "list", "check", "virtual_memory"}
  BY DEF Script
<1> QED  BY <1>5, <1>10, <1>11 DEF Good

-----------------------------------------------------------------------------
(* The uses of the file maps. *)

\* Between the count of mc_init_filemaps and that of mc_term_filemaps.
UsingAt(q, where) ==
    /\ Has(q, "maps_term")
    /\ Has(q, "maps_init") => Head(q) = "maps_init" /\ where \in {"done", "leaving"}
    /\ ~(Head(q) = "maps_term" /\ where \in {"done", "leaving"})

Users == {t \in Threads : UsingAt(todo[t], step[t])}

LEMMA UsingTail ==
    ASSUME NEW q \in Seq(Stages), q # <<>>, Neat(q), NEW where,
           Head(q) \in {"maps_init", "maps_term"} => where \in {"done", "leaving"}
    PROVE  UsingAt(Tail(q), "start") <=> UsingAt(q, where)
<1>1. /\ DOMAIN q = 1..Len(q) /\ Len(q) \in Nat \ {0} /\ Head(q) = q[1]
      /\ DOMAIN Tail(q) = 1..(Len(q) - 1)
      /\ \A i \in 1..(Len(q) - 1) : Tail(q)[i] = q[i + 1]
  BY TailAt
<1>2. ASSUME NEW x \in {"maps_init", "maps_term"}, Head(q) = x PROVE ~Has(Tail(q), x)
  <2> SUFFICES ASSUME NEW i \in 1..(Len(q) - 1), Tail(q)[i] = x PROVE FALSE
    BY <1>1 DEF Has
  <2>1. q[i + 1] = x /\ q[1] = x /\ 1 < i + 1 /\ i + 1 \in DOMAIN q /\ 1 \in DOMAIN q
    BY <1>1, <1>2
  <2> QED  BY <2>1 DEF Neat, MapsOnce
<1>3. CASE Head(q) = "maps_init"
  <2>1. Has(q, "maps_term")
    <3>1. 1 \in DOMAIN q /\ q[1] = "maps_init"
      BY <1>1, <1>3
    <3> QED  BY <3>1 DEF Neat, Ends, Has
  <2>2. Has(Tail(q), "maps_term") /\ ~Has(Tail(q), "maps_init")
    BY <1>2, <1>3, <2>1, HasTail
  <2> QED  BY <1>3, <2>1, <2>2 DEF UsingAt
<1>4. CASE Head(q) = "maps_term"
  BY <1>2, <1>4 DEF UsingAt
<1>5. CASE Head(q) \notin {"maps_init", "maps_term"}
  <2>1. \A x \in {"maps_init", "maps_term"} : Has(q, x) <=> Has(Tail(q), x)
    BY <1>5, HasTail
  <2> QED  BY <1>5, <2>1 DEF UsingAt
<1> QED  BY <1>3, <1>4, <1>5

\* What a thread at one of the three stages on the file maps uses.
LEMMA UsingStage ==
    ASSUME NEW q \in Seq(Stages), q # <<>>, Neat(q)
    PROVE  /\ Head(q) = "maps_init" => ~UsingAt(q, "inside") /\ UsingAt(q, "done")
           /\ Head(q) = "maps_term" => UsingAt(q, "inside") /\ ~UsingAt(q, "done")
           /\ Head(q) = "lookup" => \A where : UsingAt(q, where)
<1>1. DOMAIN q = 1..Len(q) /\ Len(q) \in Nat \ {0} /\ Head(q) = q[1] /\ 1 \in DOMAIN q
  BY TailAt
<1>2. \A x : Head(q) = x => Has(q, x)
  BY <1>1 DEF Has
<1>3. Head(q) \in {"maps_init", "lookup"} => Has(q, "maps_term")
  BY <1>1 DEF Neat, Ends, Has
<1>4. CASE Head(q) = "maps_init"
  BY <1>2, <1>3, <1>4 DEF UsingAt
<1>5. ASSUME Head(q) \in {"maps_term", "lookup"} PROVE ~Has(q, "maps_init")
  <2> SUFFICES ASSUME NEW i \in DOMAIN q, q[i] = "maps_init" PROVE FALSE
    BY DEF Has
  <2>1. 1 < i
    BY <1>1, <1>5
  <2>2. q[1] # "lookup"
    BY <1>1, <2>1 DEF Neat, MapsOnce
  <2>3. PICK j \in DOMAIN q : i < j /\ q[j] = "maps_term"
    BY DEF Neat, Ends
  <2>4. q[1] # "maps_term"
    BY <1>1, <2>1, <2>3 DEF Neat, MapsOnce
  <2> QED  BY <1>1, <1>5, <2>2, <2>4
<1> QED  BY <1>2, <1>3, <1>4, <1>5 DEF UsingAt

\* Nobody else's use changes.
LEMMA SameUsers ==
    ASSUME NEW t \in Threads,
           \A u \in Threads \ {t} : todo'[u] = todo[u] /\ step'[u] = step[u],
           UsingAt(todo'[t], step'[t]) <=> UsingAt(todo[t], step[t])
    PROVE  Users' = Users
<1>1. \A u \in Threads : UsingAt(todo'[u], step'[u]) <=> UsingAt(todo[u], step[u])
  OBVIOUS
<1> QED  BY <1>1 DEF Users

-----------------------------------------------------------------------------
(* The invariant of the file maps, of MANAGE_LOCK and of the start. *)

MapsCounted ==
    fails = 0 =>
        /\ usage_cnt = Cardinality(Users)
        /\ mapped <=> usage_cnt # 0
        /\ \A f \in Files : symbols[f] # "freed" /\ (abfd[f] => mapped)

ManageHeld == \A t \in Threads : manage_mtx = t => Has(todo[t], "manage_unlock")

AimInFiles == \A t \in Threads : step[t] = "aimed" => aim \in Files

\* Until the pointers of libc are set there is one thread, in its first call.
FirstCall ==
    /\ \A t \in Threads \ started : todo[t] = <<>>
    /\ ~resolved /\ ~initialized =>
        todo[Main] \in {<<>>, Script["constructor"], Script["malloc"], Script["calloc"]}
    /\ ~resolved /\ initialized =>
        todo[Main] # <<>> /\ Head(todo[Main]) = "init" /\ step[Main] \in {"start", "locked", "inside"}
    /\ ~resolved => started = {Main}

AllNeat == \A t \in Threads : Neat(todo[t])

UseInv == AllNeat /\ MapsCounted /\ ManageHeld /\ AimInFiles /\ FirstCall /\ NoUndefined

LEMMA InitUse == IsFiniteSet(Threads) /\ Init => UseInv
<1> SUFFICES ASSUME IsFiniteSet(Threads), Init PROVE UseInv
  OBVIOUS
<1>1. \A t \in Threads : todo[t] = <<>>
  BY DEF Init
<1>2. DOMAIN <<>> = {}
  OBVIOUS
<1>3. AllNeat
  BY <1>1, <1>2 DEF AllNeat, Neat, MapsOnce, Ends
<1>4. MapsCounted
  <2>1. Users = {}
    BY <1>1, <1>2 DEF Users, UsingAt, Has
  <2>2. Cardinality(Users) = 0
    BY <2>1, FS_EmptySet
  <2> QED  BY <2>2 DEF Init, MapsCounted
<1>5. ManageHeld /\ AimInFiles
  BY HookGateAssumption DEF Init, ManageHeld, AimInFiles
<1>6. FirstCall
  BY HookGateAssumption DEF Init, FirstCall
<1>7. NoUndefined
  BY DEF Init, NoUndefined
<1> QED  BY <1>3, <1>4, <1>5, <1>6, <1>7 DEF UseInv

\* A call finds the hook enabled at the gate (memchk_hook.c:20-29).
LEMMA GateOpen == ASSUME GateInv, NEW t \in Threads, Gate(t) PROVE do_not_hook = 0 /\ Leave(t)
<1>1. step[t] = "start" /\ hook \in {NULL, t}
  BY DEF Gate, AtGate
<1>2. hook # t
  BY <1>1 DEF GateInv, HookHeld, Deep
<1>3. do_not_hook = 0
  BY <1>1, <1>2 DEF GateInv, CountAgrees
<1> QED  BY <1>3 DEF Gate

\* A step of a call stays in its stage, ends it, or puts __mc_init in its place.
Stays(t) ==
    /\ todo'[t] = todo[t]
    /\ Head(todo[t]) \in {"maps_init", "maps_term"} /\ step[t] # "inside" =>
            (step'[t] \in {"done", "leaving"} <=> step[t] \in {"done", "leaving"})

Ended(t) ==
    /\ todo'[t] = Tail(todo[t]) /\ step'[t] = "start"
    /\ Head(todo[t]) \in HookStages => step[t] = "leaving"

Starts(t) ==
    /\ Head(todo[t]) = "mc_init" /\ ~initialized
    /\ todo'[t] = <<"init">> \o Tail(todo[t]) /\ step'[t] = step[t]

LEMMA Moves ==
    ASSUME GateInv, NEW t \in Threads, Run(t)
    PROVE  /\ todo[t] # <<>> /\ todo[t] \in Seq(Stages)
           /\ \A u \in Threads \ {t} : todo'[u] = todo[u] /\ step'[u] = step[u]
           /\ Stays(t) \/ Ended(t) \/ Starts(t)
<1> USE DEF GateInv
<1>1. todo[t] \in Seq(Stages)
  BY DEF TypeOK
<1>2. ASSUME NEW w, Goto(t, w)
      PROVE  /\ todo' = todo /\ step'[t] = w
             /\ \A u \in Threads \ {t} : step'[u] = step[u]
  BY <1>2 DEF Goto, TypeOK
<1>3. ASSUME Leave(t)
      PROVE  /\ todo'[t] = Tail(todo[t]) /\ step'[t] = "start"
             /\ \A u \in Threads \ {t} : todo'[u] = todo[u] /\ step'[u] = step[u]
  BY <1>3 DEF Leave, TypeOK
<1>4. CASE McInit(t)
  <2>1. todo[t] # <<>> /\ Head(todo[t]) = "mc_init"
    BY <1>4 DEF McInit, At
  <2>2. CASE initialized
    <3>1. Leave(t)
      BY <1>4, <2>2 DEF McInit
    <3> QED  BY <1>1, <1>3, <2>1, <3>1 DEF Ended, HookStages
  <2>3. CASE ~initialized
    <3>1. todo' = [todo EXCEPT ![t] = <<"init">> \o Tail(todo[t])] /\ step' = step
      BY <1>4, <2>3 DEF McInit
    <3> QED  BY <1>1, <2>1, <2>3, <3>1 DEF Starts, TypeOK
  <2> QED  BY <2>2, <2>3
<1>5. CASE Gate(t)
  BY <1>1, <1>3, <1>5, GateOpen DEF Gate, AtGate, Gates, Ended, HookStages
<1>6. CASE DisableLock(t)
  BY <1>1, <1>2, <1>6 DEF DisableLock, InHook, Stays
<1>7. CASE DisableCount(t)
  BY <1>1, <1>2, <1>7 DEF DisableCount, InHook, Stays
<1>8. CASE EnableCount(t)
  BY <1>1, <1>2, <1>8 DEF EnableCount, InHook, Stays
<1>9. CASE EnableUnlock(t)
  BY <1>1, <1>3, <1>9 DEF EnableUnlock, InHook, Ended
<1>10. CASE Resolve(t)
  BY <1>1, <1>2, <1>10 DEF Resolve, At, Stays
<1>11. CASE Backtrace(t)
  BY <1>1, <1>2, <1>11 DEF Backtrace, At, Stays
<1>12. CASE CallstackLock(t)
  BY <1>1, <1>2, <1>12 DEF CallstackLock, At, Stays
<1>13. CASE CallstackFind(t)
  <2>1. todo[t] # <<>> /\ Head(todo[t]) = "callstack"
    BY <1>13 DEF CallstackFind, At
  <2>2. Leave(t) \/ Goto(t, "add")
    BY <1>13 DEF CallstackFind
  <2>3. CASE Leave(t)
    BY <1>1, <1>3, <2>1, <2>3 DEF Ended, HookStages
  <2>4. CASE Goto(t, "add")
    BY <1>1, <1>2, <2>1, <2>4 DEF Stays
  <2> QED  BY <2>2, <2>3, <2>4
<1>14. CASE CallstackAdd(t)
  BY <1>1, <1>3, <1>14 DEF CallstackAdd, At, Ended, HookStages
<1>15. CASE Count(t)
  BY <1>1, <1>3, <1>15 DEF Count, At, Ended, HookStages
<1>16. CASE ManageLock(t)
  BY <1>1, <1>3, <1>16 DEF ManageLock, At, Ended, HookStages
<1>17. CASE ManageUnlock(t)
  BY <1>1, <1>3, <1>17 DEF ManageUnlock, At, Ended, HookStages
<1>18. CASE MapsInit(t)
  BY <1>1, <1>2, <1>18 DEF MapsInit, At, Stays
<1>19. CASE MapsInitFails(t)
  BY <1>1, <1>2, <1>19 DEF MapsInitFails, At, Stays
<1>20. CASE MapsTerm(t)
  BY <1>1, <1>2, <1>20 DEF MapsTerm, At, Stays
<1>21. CASE Lookup(t)
  BY <1>1, <1>2, <1>21 DEF Lookup, At, Stays
<1>22. CASE LookupFails(t)
  BY <1>1, <1>2, <1>22 DEF LookupFails, At, Stays
<1>23. CASE Find(t)
  BY <1>1, <1>2, <1>23 DEF Find, At, Stays
<1>24. CASE Demangled(t)
  BY <1>1, <1>2, <1>24 DEF Demangled, At, Stays
<1> QED  BY <1>4, <1>5, <1>6, <1>7, <1>8, <1>9, <1>10, <1>11, <1>12, <1>13, <1>14, <1>15, <1>16, <1>17, <1>18, <1>19, <1>20, <1>21, <1>22, <1>23, <1>24 DEF Run

\* The rest of a call is as neat as before, and its use of the file maps the
\* same but where they are mapped and unmapped.
LEMMA MovesUse ==
    ASSUME GateInv, AllNeat, NEW t \in Threads, Run(t)
    PROVE  /\ AllNeat'
           /\ ~(Head(todo[t]) \in {"maps_init", "maps_term"} /\ step[t] = "inside")
                => Users' = Users
<1>1. /\ todo[t] # <<>> /\ todo[t] \in Seq(Stages)
      /\ \A u \in Threads \ {t} : todo'[u] = todo[u] /\ step'[u] = step[u]
      /\ Stays(t) \/ Ended(t) \/ Starts(t)
  BY Moves
<1>2. Neat(todo[t])
  BY DEF AllNeat
<1>3. Neat(todo'[t])
  <2>1. CASE Ended(t)
    BY <1>1, <1>2, <2>1, NeatTail DEF Ended
  <2>2. CASE Starts(t)
    BY <1>1, <1>2, <2>2, InitFirst DEF Starts
  <2> QED  BY <1>1, <1>2, <2>1, <2>2 DEF Stays
<1>4. AllNeat'
  BY <1>1, <1>3 DEF AllNeat
<1>5. ASSUME ~(Head(todo[t]) \in {"maps_init", "maps_term"} /\ step[t] = "inside")
      PROVE  UsingAt(todo'[t], step'[t]) <=> UsingAt(todo[t], step[t])
  <2>1. CASE Stays(t)
    BY <1>5, <2>1 DEF Stays, UsingAt
  <2>2. CASE Ended(t)
    <3>1. Head(todo[t]) \in {"maps_init", "maps_term"} => step[t] \in {"done", "leaving"}
      BY <2>2 DEF Ended, HookStages
    <3> QED  BY <1>1, <1>2, <2>2, <3>1, UsingTail DEF Ended
  <2>3. CASE Starts(t)
    <3> DEFINE q == todo[t]
               r == todo'[t]
    <3>1. Head(q) = "mc_init" /\ r = <<"init">> \o Tail(q)
      BY <2>3 DEF Starts
    <3>2. /\ Head(r) = "init"
          /\ \A x : x # "init" /\ x # "mc_init" => (Has(r, x) <=> Has(q, x))
      BY <1>1, <1>2, <3>1, InitFirst
    <3>3. (Has(r, "maps_term") <=> Has(q, "maps_term"))
          /\ (Has(r, "maps_init") <=> Has(q, "maps_init"))
      BY <3>2
    <3> HIDE DEF q, r
    <3>4. UsingAt(r, step[t]) <=> UsingAt(q, step[t])
      BY <3>1, <3>2, <3>3 DEF UsingAt
    <3>5. step'[t] = step[t]
      BY <2>3 DEF Starts
    <3> QED  BY <3>4, <3>5 DEF q, r
  <2> QED  BY <1>1, <2>1, <2>2, <2>3
<1> QED  BY <1>1, <1>4, <1>5, SameUsers

\* The first use maps, the last one unmaps (memchk_filemap.c:90-134).
LEMMA NextMaps ==
    ASSUME IsFiniteSet(Threads), GateInv, UseInv, NEW t \in Threads, Run(t)
    PROVE  MapsCounted'
<1> USE DEF gate, start, local, table, maps, count
<1> DEFINE n == Cardinality(Users)
<1>1. /\ todo[t] # <<>> /\ todo[t] \in Seq(Stages)
      /\ \A u \in Threads \ {t} : todo'[u] = todo[u] /\ step'[u] = step[u]
  BY Moves
<1>2. TypeOK /\ Neat(todo[t])
  BY DEF GateInv, UseInv, AllNeat
<1>3. IsFiniteSet(Users) /\ n \in Nat /\ Users \subseteq Threads
  <2>1. Users \subseteq Threads
    BY DEF Users
  <2> QED  BY <2>1, FS_Subset, FS_CardinalityType
<1>4. fails \in Nat /\ usage_cnt \in Int
  BY <1>2, HookGateAssumption DEF TypeOK
<1>5. fails = 0 =>
        /\ usage_cnt = n
        /\ mapped <=> usage_cnt # 0
        /\ \A f \in Files : symbols[f] # "freed" /\ (abfd[f] => mapped)
  BY DEF UseInv, MapsCounted
<1>6. MapsCounted' = (fails' = 0 =>
        /\ usage_cnt' = Cardinality(Users')
        /\ mapped' <=> usage_cnt' # 0
        /\ \A f \in Files : symbols'[f] # "freed" /\ (abfd'[f] => mapped'))
  BY DEF MapsCounted
<1>7. ~(Head(todo[t]) \in {"maps_init", "maps_term"} /\ step[t] = "inside") => Users' = Users
  BY MovesUse DEF UseInv
<1>8. ASSUME UNCHANGED <<usage_cnt, mapped, abfd, symbols, fails>>,
             ~(Head(todo[t]) \in {"maps_init", "maps_term"} /\ step[t] = "inside")
      PROVE  MapsCounted'
  BY <1>5, <1>6, <1>7, <1>8
<1>9. CASE MapsInit(t)
  <2>1. Head(todo[t]) = "maps_init" /\ step[t] = "inside" /\ todo'[t] = todo[t]
        /\ step'[t] = "done"
    BY <1>2, <1>9 DEF MapsInit, At, Goto, TypeOK
  <2>2. t \notin Users /\ Users' = Users \cup {t}
    <3>1. ~UsingAt(todo[t], step[t]) /\ UsingAt(todo'[t], step'[t])
      BY <1>1, <1>2, <2>1, UsingStage
    <3> QED  BY <1>1, <3>1 DEF Users
  <2>3. Cardinality(Users') = n + 1
    BY <1>3, <2>2, FS_AddElement
  <2>4. usage_cnt' = usage_cnt + 1 /\ fails' = fails
        /\ IF usage_cnt = 0
           THEN mapped' /\ \A f \in Files : ~abfd'[f] /\ symbols'[f] = "none"
           ELSE UNCHANGED <<mapped, abfd, symbols>>
    BY <1>9 DEF MapsInit, NoBfds
  <2>5. ASSUME fails = 0
        PROVE  /\ usage_cnt' # 0 /\ mapped'
               /\ \A f \in Files : symbols'[f] # "freed" /\ (abfd'[f] => mapped')
    <3>1. usage_cnt' # 0
      BY <1>3, <1>5, <2>4, <2>5
    <3> QED  BY <1>5, <2>4, <2>5, <3>1
  <2>6. fails = 0 => usage_cnt' = Cardinality(Users')
    BY <1>5, <2>3, <2>4
  <2> QED  BY <1>6, <2>4, <2>5, <2>6
<1>10. CASE MapsTerm(t)
  <2>1. Head(todo[t]) = "maps_term" /\ step[t] = "inside" /\ todo'[t] = todo[t]
        /\ step'[t] = "done"
    BY <1>2, <1>10 DEF MapsTerm, At, Goto, TypeOK
  <2>2. t \in Users /\ Users' = Users \ {t}
    <3>1. UsingAt(todo[t], step[t]) /\ ~UsingAt(todo'[t], step'[t])
      BY <1>1, <1>2, <2>1, UsingStage
    <3> QED  BY <1>1, <3>1 DEF Users
  <2>3. Cardinality(Users') = n - 1
    BY <1>3, <2>2, FS_RemoveElement
  <2>4. usage_cnt' = usage_cnt - 1 /\ fails' = fails
        /\ IF usage_cnt = 1
           THEN ~mapped' /\ \A f \in Files : ~abfd'[f] /\ symbols'[f] = "none"
           ELSE UNCHANGED <<mapped, abfd, symbols>>
    BY <1>10 DEF MapsTerm, NoBfds
  <2>5. fails = 0 => usage_cnt' = Cardinality(Users')
    BY <1>5, <2>3, <2>4
  <2>6. fails = 0 => usage_cnt # 0
    <3>1. n # 0
      BY <1>3, <2>2, FS_EmptySet
    <3> QED  BY <1>5, <3>1
  <2>7. ASSUME fails = 0
        PROVE  /\ mapped' <=> usage_cnt' # 0
               /\ \A f \in Files : symbols'[f] # "freed" /\ (abfd'[f] => mapped')
    <3>1. usage_cnt' # 0 <=> usage_cnt # 1
      BY <1>4, <2>4
    <3>2. CASE usage_cnt = 1
      BY <2>4, <3>1, <3>2
    <3>3. CASE usage_cnt # 1
      BY <1>5, <2>4, <2>6, <2>7, <3>1, <3>3
    <3> QED  BY <3>2, <3>3
  <2> QED  BY <1>6, <2>4, <2>5, <2>7
<1>11. CASE MapsInitFails(t) \/ LookupFails(t)
  <2>1. fails' = fails + 1
    BY <1>11 DEF MapsInitFails, LookupFails
  <2>2. fails' # 0
    BY <1>4, <2>1
  <2> QED  BY <1>6, <2>2
<1>12. CASE Lookup(t)
  <2>1. Head(todo[t]) = "lookup" /\ UNCHANGED <<usage_cnt, mapped, fails>>
    BY <1>12 DEF Lookup, At
  <2>2. t \in Users
    BY <1>1, <1>2, <2>1, UsingStage DEF Users
  <2>3. fails = 0 => mapped
    <3>1. n # 0
      BY <1>3, <2>2, FS_EmptySet
    <3> QED  BY <1>5, <3>1
  <2>4. \A f \in Files : symbols'[f] = symbols[f] \/ symbols'[f] = "valid"
    BY <1>2, <1>12 DEF Lookup, TypeOK
  <2>5. Users' = Users
    BY <1>7, <2>1
  <2>6. fails = 0 => \A f \in Files : symbols'[f] # "freed"
    BY <1>5, <2>4
  <2>7. fails = 0 => /\ usage_cnt' = Cardinality(Users')
                     /\ mapped' /\ usage_cnt' # 0
    BY <1>5, <2>1, <2>3, <2>5
  <2> QED  BY <1>6, <2>1, <2>6, <2>7
<1>13. CASE McInit(t)
  BY <1>8, <1>13 DEF McInit, At
<1>14. CASE Gate(t)
  BY <1>8, <1>14 DEF Gate, AtGate, Gates
<1>15. CASE DisableLock(t)
  BY <1>8, <1>15 DEF DisableLock, InHook
<1>16. CASE DisableCount(t)
  BY <1>8, <1>16 DEF DisableCount, InHook
<1>17. CASE EnableCount(t)
  BY <1>8, <1>17 DEF EnableCount, InHook
<1>18. CASE EnableUnlock(t)
  BY <1>8, <1>18 DEF EnableUnlock, InHook
<1>19. CASE Resolve(t)
  BY <1>8, <1>19 DEF Resolve, At
<1>20. CASE Backtrace(t)
  BY <1>8, <1>20 DEF Backtrace, At
<1>21. CASE CallstackLock(t)
  BY <1>8, <1>21 DEF CallstackLock, At
<1>22. CASE CallstackFind(t)
  BY <1>8, <1>22 DEF CallstackFind, At
<1>23. CASE CallstackAdd(t)
  BY <1>8, <1>23 DEF CallstackAdd, At
<1>24. CASE Count(t)
  BY <1>8, <1>24 DEF Count, At
<1>25. CASE ManageLock(t)
  BY <1>8, <1>25 DEF ManageLock, At
<1>26. CASE ManageUnlock(t)
  BY <1>8, <1>26 DEF ManageUnlock, At
<1>27. CASE Find(t)
  BY <1>8, <1>27 DEF Find, At
<1>28. CASE Demangled(t)
  BY <1>8, <1>28 DEF Demangled, At
<1> QED  BY <1>9, <1>10, <1>11, <1>12, <1>13, <1>14, <1>15, <1>16, <1>17, <1>18, <1>19, <1>20, <1>21, <1>22, <1>23, <1>24, <1>25, <1>26, <1>27, <1>28 DEF Run

\* What NoUndefined says of a step (memchk_hook.c:20-29, memchk_filemap.c:119-134,
\* memchk_symbol.c:51-68).
LEMMA NextUndefined ==
    ASSUME IsFiniteSet(Threads), GateInv, AimHeld, UseInv, ~broken, NEW t \in Threads, Run(t)
    PROVE  NoUndefined'
<1> USE DEF gate, start, local, table, maps, count
<1>1. todo[t] # <<>> /\ todo[t] \in Seq(Stages) /\ Neat(todo[t])
  BY Moves DEF UseInv, AllNeat
<1>2. /\ TypeOK /\ fails \in Nat /\ usage_cnt \in Int
      /\ IsFiniteSet(Users) /\ Cardinality(Users) \in Nat
  <2>1. Users \subseteq Threads /\ TypeOK
    BY DEF Users, GateInv
  <2> QED  BY <2>1, FS_Subset, FS_CardinalityType, HookGateAssumption DEF TypeOK
<1>3. ASSUME t \in Users, fails = 0 PROVE mapped /\ \A f \in Files : symbols[f] # "freed"
  <2>1. Cardinality(Users) # 0
    BY <1>2, <1>3, FS_EmptySet
  <2> QED  BY <1>3, <2>1 DEF UseInv, MapsCounted
<1>4. SUFFICES ASSUME broken' PROVE fails' > 0
  BY DEF NoUndefined
<1>5. CASE Gate(t)
  <2>1. ~resolved /\ Head(Tail(todo[t])) # "mc_init"
    BY <1>4, <1>5, GateOpen DEF Gate
  <2>2. t = Main
    BY <1>1, <2>1 DEF UseInv, FirstCall
  <2>3. Head(todo[Main]) \in Gates
    BY <1>5, <2>2 DEF Gate, AtGate, Gates
  <2>4. todo[Main] \in {Script["constructor"], Script["malloc"], Script["calloc"]}
    BY <1>1, <2>1, <2>2, <2>3 DEF UseInv, FirstCall, Gates
  <2>5. /\ Script["constructor"] = <<"mc_init">>
        /\ Script["malloc"] = Malloc /\ Script["calloc"] = <<"gate">> \o Malloc
    BY DEF Script
  <2>6. Malloc \in Seq(Stages) /\ Malloc # <<>> /\ Head(Malloc) = "mc_init"
    BY DEF Malloc, Register, Stages, Gates, HookStages
  <2>7. Tail(<<"gate">> \o Malloc) = Malloc
    BY <2>6
  <2>8. Head(<<"mc_init">>) = "mc_init"
    OBVIOUS
  <2> QED  BY <2>1, <2>2, <2>3, <2>4, <2>5, <2>6, <2>7, <2>8 DEF Gates
<1>6. CASE MapsTerm(t)
  <2>1. Head(todo[t]) = "maps_term" /\ step[t] = "inside" /\ fails' = fails
    BY <1>6 DEF MapsTerm, At
  <2>2. t \in Users
    BY <1>1, <2>1, UsingStage DEF Users
  <2>3. ~mapped \/ \E f \in Files : symbols[f] = "freed"
    BY <1>4, <1>6 DEF MapsTerm
  <2> QED  BY <1>2, <1>3, <2>1, <2>2, <2>3
<1>7. CASE Lookup(t)
  <2>1. Head(todo[t]) = "lookup" /\ fails' = fails /\ ~mapped
    BY <1>4, <1>7 DEF Lookup, At
  <2>2. t \in Users
    BY <1>1, <2>1, UsingStage DEF Users
  <2> QED  BY <1>2, <1>3, <2>1, <2>2
<1>8. CASE Find(t)
  <2>1. /\ Head(todo[t]) = "lookup" /\ step[t] = "aimed" /\ fails' = fails
        /\ ~mapped \/ symbols[aim] = "freed"
    BY <1>4, <1>8 DEF Find, At
  <2>2. t \in Users /\ aim \in Files
    BY <1>1, <2>1, UsingStage DEF Users, UseInv, AimInFiles
  <2> QED  BY <1>2, <1>3, <2>1, <2>2
<1>9. CASE UNCHANGED broken
  BY <1>4, <1>9
<1> QED
  BY <1>5, <1>6, <1>7, <1>8, <1>9 DEF Run, McInit, DisableLock, DisableCount, EnableCount,
     EnableUnlock, Resolve, Backtrace, CallstackLock, CallstackFind, CallstackAdd, Count,
     ManageLock, ManageUnlock, MapsInit, MapsInitFails, LookupFails, Demangled

LEMMA NextHeld ==
    ASSUME GateInv, UseInv, NEW t \in Threads, Run(t)
    PROVE  ManageHeld'
<1> USE DEF gate, start, local, table, maps, count
<1>1. /\ todo[t] # <<>> /\ todo[t] \in Seq(Stages)
      /\ \A u \in Threads \ {t} : todo'[u] = todo[u] /\ step'[u] = step[u]
      /\ Stays(t) \/ Ended(t) \/ Starts(t)
  BY Moves
<1>2. Neat(todo[t])
  BY DEF UseInv, AllNeat
<1>3. Head(todo[t]) # "manage_unlock" /\ Has(todo[t], "manage_unlock")
        => Has(todo'[t], "manage_unlock")
  <2>1. CASE Ended(t)
    BY <1>1, <2>1, HasTail DEF Ended
  <2>2. CASE Starts(t)
    BY <1>1, <1>2, <2>2, InitFirst DEF Starts
  <2> QED  BY <1>1, <2>1, <2>2 DEF Stays
<1>4. CASE ManageLock(t)
  <2>1. manage_mtx' = t /\ Head(todo[t]) = "manage_lock" /\ todo'[t] = Tail(todo[t])
    BY <1>4 DEF ManageLock, At, Leave, GateInv, TypeOK
  <2>2. Has(todo[t], "manage_unlock")
    <3>1. 1 \in DOMAIN todo[t] /\ todo[t][1] = "manage_lock"
      BY <1>1, <2>1, TailAt
    <3> QED  BY <1>2, <3>1 DEF Neat, Ends, Has
  <2> QED  BY <1>3, <2>1, <2>2 DEF ManageHeld
<1>5. CASE ManageUnlock(t)
  <2>1. manage_mtx' = NULL
    BY <1>5 DEF ManageUnlock
  <2> QED  BY <2>1, HookGateAssumption DEF ManageHeld
<1>6. CASE UNCHANGED manage_mtx /\ Head(todo[t]) # "manage_unlock"
  <2> SUFFICES ASSUME NEW u \in Threads, manage_mtx = u PROVE Has(todo'[u], "manage_unlock")
    BY <1>6 DEF ManageHeld
  <2>1. Has(todo[u], "manage_unlock")
    BY DEF UseInv, ManageHeld
  <2> QED  BY <1>1, <1>3, <1>6, <2>1
<1> QED
  BY <1>4, <1>5, <1>6 DEF Run, At, AtGate, Gates, InHook, HookStages, McInit, Gate, DisableLock,
     DisableCount, EnableCount, EnableUnlock, Resolve, Backtrace, CallstackLock, CallstackFind, CallstackAdd,
     Count, MapsInit, MapsInitFails, MapsTerm, Lookup, LookupFails, Find, Demangled

LEMMA NextFirst ==
    ASSUME GateInv, UseInv, NEW t \in Threads, Run(t)
    PROVE  FirstCall'
<1> USE DEF gate, start, local, table, maps, count
<1>1. /\ todo[t] # <<>> /\ todo[t] \in Seq(Stages)
      /\ \A u \in Threads \ {t} : todo'[u] = todo[u] /\ step'[u] = step[u]
      /\ Stays(t) \/ Ended(t) \/ Starts(t)
  BY Moves
<1>2. t \in started /\ (~resolved => t = Main)
  BY <1>1 DEF UseInv, FirstCall
<1>3. started \subseteq started'
  BY DEF Run, McInit, Gate, DisableLock, DisableCount, EnableCount, EnableUnlock, Resolve,
         Backtrace, CallstackLock, CallstackFind, CallstackAdd, Count, ManageLock, ManageUnlock,
         MapsInit, MapsInitFails, MapsTerm, Lookup, LookupFails, Find, Demangled
<1>4. \A u \in Threads \ started' : todo'[u] = <<>>
  BY <1>1, <1>2, <1>3 DEF UseInv, FirstCall
<1>5. CASE Resolve(t)
  <2>1. resolved'
    BY <1>5 DEF Resolve
  <2> QED  BY <1>4, <2>1 DEF FirstCall
<1>6. UNCHANGED <<resolved, started>> \/ Resolve(t)
  BY DEF Run, McInit, Gate, DisableLock, DisableCount, EnableCount, EnableUnlock,
         Backtrace, CallstackLock, CallstackFind, CallstackAdd, Count, ManageLock, ManageUnlock,
         MapsInit, MapsInitFails, MapsTerm, Lookup, LookupFails, Find, Demangled
<1>7. CASE UNCHANGED <<resolved, started>> /\ resolved
  BY <1>4, <1>7 DEF FirstCall
<1>8. CASE UNCHANGED <<resolved, started>> /\ ~resolved /\ ~initialized
  <2>1. t = Main /\ started' = {Main} /\ Main \in Threads
    BY <1>2, <1>8, HookGateAssumption DEF UseInv, FirstCall
  <2>2. todo[Main] \in {Script["constructor"], Script["malloc"], Script["calloc"]}
    BY <1>1, <1>8, <2>1 DEF UseInv, FirstCall
  <2>3. Head(todo[Main]) \in {"mc_init", "gate"}
    BY <2>2 DEF Script, Malloc, Register
  <2>4. CASE McInit(t)
    <3>1. initialized' /\ todo'[t] = <<"init">> \o Tail(todo[t]) /\ step'[t] = "start"
          /\ Head(todo[t]) = "mc_init"
      BY <1>8, <2>4 DEF McInit, At, GateInv, TypeOK
    <3>2. todo'[Main] # <<>> /\ Head(todo'[Main]) = "init"
      BY <1>1, <2>1, <3>1, InitFirst DEF UseInv, AllNeat
    <3> QED  BY <1>4, <2>1, <3>1, <3>2 DEF FirstCall
  <2>5. CASE Gate(t)
    <3>1. todo'[Main] = Tail(todo[Main]) /\ Head(todo[Main]) \in Gates /\ ~initialized'
      BY <1>8, <2>1, <2>5, GateOpen DEF Gate, AtGate, Leave, GateInv, TypeOK
    <3>2. todo[Main] = <<"gate">> \o Malloc /\ Malloc \in Seq(Stages)
      BY <2>2, <3>1 DEF Script, Malloc, Register, Stages, Gates, HookStages
    <3>3. todo'[Main] = Script["malloc"]
      BY <3>1, <3>2 DEF Script
    <3> QED  BY <1>4, <1>8, <2>1, <3>1, <3>3 DEF FirstCall
  <2>6. McInit(t) \/ Gate(t)
    BY <2>1, <2>3 DEF Run, At, AtGate, InHook, HookStages, McInit, Gate, DisableLock,
       DisableCount, EnableCount, EnableUnlock, Resolve, Backtrace, CallstackLock, CallstackFind, CallstackAdd,
       Count, ManageLock, ManageUnlock, MapsInit, MapsInitFails, MapsTerm, Lookup, LookupFails,
       Find, Demangled
  <2> QED  BY <2>4, <2>5, <2>6
<1>9. CASE UNCHANGED <<resolved, started>> /\ ~resolved /\ initialized
  <2>1. /\ t = Main /\ started' = {Main} /\ Main \in Threads
        /\ Head(todo[t]) = "init" /\ step[t] \in {"start", "locked", "inside"}
    BY <1>2, <1>9, HookGateAssumption DEF UseInv, FirstCall
  <2>2. DisableLock(t) \/ DisableCount(t)
    BY <1>9, <2>1 DEF Run, At, AtGate, Gates, InHook, McInit, Gate, EnableCount, EnableUnlock,
       Resolve, Backtrace, CallstackLock, CallstackFind, CallstackAdd, Count, ManageLock, ManageUnlock,
       MapsInit, MapsInitFails, MapsTerm, Lookup, LookupFails, Find, Demangled
  <2>3. todo'[t] = todo[t] /\ step'[t] \in {"locked", "inside"} /\ UNCHANGED initialized
    BY <2>2 DEF DisableLock, DisableCount, Goto, GateInv, TypeOK
  <2> QED  BY <1>1, <1>4, <1>9, <2>1, <2>3 DEF FirstCall
<1> QED  BY <1>5, <1>6, <1>7, <1>8, <1>9

LEMMA NextUse ==
    ASSUME IsFiniteSet(Threads), GateInv, AimHeld, UseInv, [Next]_vars
    PROVE  UseInv'
<1> USE DEF gate, start, local, table, maps, count
<1>1. CASE UNCHANGED vars
  <2>1. Users' = Users
    BY <1>1 DEF vars, Users
  <2> QED  BY <1>1, <2>1 DEF vars, UseInv, AllNeat, MapsCounted, ManageHeld, AimInFiles,
               FirstCall, NoUndefined
<1> SUFFICES ASSUME ~broken, NEW t \in Threads, Spawn(t) \/ Begin(t) \/ Run(t)
             PROVE  UseInv'
  BY <1>1 DEF Next
<1>2. CASE Spawn(t)
  <2>1. Users' = Users
    BY <1>2 DEF Spawn, Users
  <2>2. resolved /\ resolved' /\ started \subseteq started'
    BY <1>2 DEF Spawn, UseInv, FirstCall
  <2>3. FirstCall'
    BY <1>2, <2>2 DEF Spawn, UseInv, FirstCall
  <2> QED  BY <1>2, <2>1, <2>3 DEF Spawn, UseInv, AllNeat, MapsCounted, ManageHeld, AimInFiles,
               NoUndefined
<1>3. CASE Begin(t)
  <2>1. PICK c \in CallsOf(t) : todo' = [todo EXCEPT ![t] = Script[c]]
    BY <1>3 DEF Begin
  <2>2. c \in DOMAIN Script /\ (~initialized /\ t # Worker => c \in FirstCalls)
    BY DEF CallsOf, FirstCalls, WorkerCalls, Script
  <2>3. /\ todo[t] = <<>> /\ t \in started /\ UNCHANGED <<step, maps, start, fails, broken, manage_mtx>>
        /\ todo'[t] = Script[c] /\ \A u \in Threads \ {t} : todo'[u] = todo[u]
    BY <1>3, <2>1 DEF Begin, GateInv, TypeOK
  <2>4. step[t] \notin Deep
    BY <2>3 DEF GateInv, StepFits
  <2>5. AllNeat'
    BY <2>2, <2>3, ScriptNeat DEF UseInv, AllNeat
  <2>6. MapsCounted'
    <3>1. ~UsingAt(todo[t], step[t])
      BY <2>3 DEF UsingAt, Has
    <3>2. ~UsingAt(todo'[t], step'[t])
      BY <2>2, <2>3, <2>4, ScriptNeat DEF UsingAt, Deep
    <3>3. Users' = Users
      BY <2>3, <3>1, <3>2, SameUsers
    <3> QED  BY <2>3, <3>3 DEF UseInv, MapsCounted
  <2>7. ManageHeld'
    <3>1. manage_mtx # t
      BY <2>3 DEF UseInv, ManageHeld, Has
    <3> QED  BY <2>3, <3>1 DEF UseInv, ManageHeld
  <2>8. AimInFiles' /\ NoUndefined'
    BY <2>3 DEF UseInv, AimInFiles, NoUndefined
  <2>9. FirstCall'
    <3>1. ASSUME ~resolved PROVE t = Main /\ t # Worker /\ ~initialized
      BY <2>3, <3>1, HookGateAssumption DEF UseInv, FirstCall
    <3>2. ASSUME ~resolved PROVE todo'[Main] \in {Script["constructor"], Script["malloc"],
                                                  Script["calloc"]}
      BY <2>2, <2>3, <3>1, <3>2 DEF FirstCalls
    <3>3. \A u \in Threads \ started' : todo'[u] = <<>>
      BY <2>3 DEF UseInv, FirstCall
    <3> QED  BY <2>3, <3>1, <3>2, <3>3 DEF UseInv, FirstCall
  <2> QED  BY <2>5, <2>6, <2>7, <2>8, <2>9 DEF UseInv
<1>4. CASE Run(t)
  <2>1. AllNeat' /\ MapsCounted' /\ ManageHeld' /\ FirstCall' /\ NoUndefined'
    BY <1>4, MovesUse, NextMaps, NextHeld, NextFirst, NextUndefined DEF UseInv
  <2>2. AimInFiles'
    <3>1. CASE Lookup(t)
      BY <3>1 DEF Lookup, AimInFiles
    <3>2. CASE ~Lookup(t)
      <4>1. UNCHANGED aim
        BY <1>4, <3>2 DEF Run, McInit, Gate, DisableLock, DisableCount, EnableCount,
           EnableUnlock, Resolve, Backtrace, CallstackLock, CallstackFind, CallstackAdd, Count,
           ManageLock, ManageUnlock, MapsInit, MapsInitFails, MapsTerm, LookupFails, Find,
           Demangled
      <4>2. step'[t] = "aimed" => step[t] = "aimed"
        BY <1>4, <3>2 DEF Run, McInit, Gate, DisableLock, DisableCount, EnableCount,
           EnableUnlock, Resolve, Backtrace, CallstackLock, CallstackFind, CallstackAdd, Count,
           ManageLock, ManageUnlock, MapsInit, MapsInitFails, MapsTerm, LookupFails, Find,
           Demangled, Goto, Leave, GateInv, TypeOK
      <4>3. \A u \in Threads \ {t} : step'[u] = step[u]
        BY <1>4, Moves
      <4> QED  BY <4>1, <4>2, <4>3 DEF UseInv, AimInFiles
    <3> QED  BY <3>1, <3>2
  <2> QED  BY <2>1, <2>2 DEF UseInv
<1> QED  BY <1>2, <1>3, <1>4

LEMMA InitAim == Init => AimHeld
BY DEF Init, AimHeld

\* For any number of threads, no report reads file maps that another thread has
\* unmapped or symbols that were freed, and no call uses a pointer of libc that
\* is not set (memchk_filemap.c:90-134, memchk_symbol.c:51-68, memchk_hook.c:20-29).
THEOREM NothingUndefined == IsFiniteSet(Threads) => (Spec => []NoUndefined)
<1> SUFFICES ASSUME IsFiniteSet(Threads) PROVE Spec => []NoUndefined
  OBVIOUS
<1> DEFINE I == GateInv /\ AimHeld /\ UseInv
<1>1. Init => I
  BY InitGate, InitAim, InitUse
<1>2. I /\ [Next]_vars => I'
  BY NextGate, NextAim, NextUse
<1>3. I => NoUndefined
  BY DEF UseInv
<1> HIDE DEF I
<1> QED  BY <1>1, <1>2, <1>3, PTL DEF Spec

\* For any number of threads, calls that have all returned leave no use of the
\* file maps, no open bfd and no lock behind, unless something failed
\* (memchk_filemap.c:119-134, memchk_hook.c:31-43, memchk_callstack.c:26-55).
THEOREM EverythingReleased == IsFiniteSet(Threads) => (Spec => []AllReleased)
<1> SUFFICES ASSUME IsFiniteSet(Threads) PROVE Spec => []AllReleased
  OBVIOUS
<1> DEFINE I == /\ GateInv /\ AimHeld /\ UseInv
                /\ CallstackHeld /\ AddIsNew /\ OneEntryPerTrace
<1>1. Init => I
  BY InitGate, InitAim, InitUse, InitTable
<1>2. I /\ [Next]_vars => I'
  BY NextGate, NextAim, NextUse, NextTable
<1>3. I => AllReleased
  <2> SUFFICES ASSUME I, \A t \in Threads : todo[t] = <<>>, fails = 0
               PROVE  /\ hook = NULL /\ do_not_hook = 0
                      /\ callstack_mtx = NULL /\ manage_mtx = NULL
                      /\ usage_cnt = 0 /\ ~mapped /\ \A f \in Files : ~abfd[f]
    BY DEF AllReleased
  <2>1. \A t \in Threads : step[t] \notin Deep \cup {"find", "add"}
    BY DEF GateInv, StepFits
  <2>2. hook = NULL /\ callstack_mtx = NULL /\ do_not_hook = 0
    BY <2>1 DEF GateInv, TypeOK, HookHeld, CallstackHeld, CountAgrees
  <2>3. manage_mtx = NULL
    BY DEF GateInv, TypeOK, UseInv, ManageHeld, Has
  <2>4. usage_cnt = 0
    <3>1. Users = {}
      BY DEF Users, UsingAt, Has
    <3> QED  BY <3>1, FS_EmptySet DEF UseInv, MapsCounted
  <2> QED  BY <2>2, <2>3, <2>4 DEF UseInv, MapsCounted
<1> HIDE DEF I
<1> QED  BY <1>1, <1>2, <1>3, PTL DEF Spec
=============================================================================
