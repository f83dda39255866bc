------------------------------- MODULE HookGate -------------------------------
(*****************************************************************************)
(* The gate that tells memchk's own allocations from the program's           *)
(* (memchk_hook.c), the start in memchk_init.c, and what runs behind the     *)
(* gate: the entries of call stacks (memchk_callstack.c), the file maps      *)
(* (memchk_filemap.c) and the symbol lookup (memchk_symbol.c), with every    *)
(* lock they hold.                                                           *)
(*                                                                           *)
(* A call is a sequence of stages, and todo[t] is what thread t has before   *)
(* it. A stage between mc_disable_hook and mc_enable_hook passes through     *)
(*   start -(lock)-> locked -(count)-> inside -(body)-> done -(count)->      *)
(*   leaving -(unlock)-> the next stage.                                     *)
(*****************************************************************************)
EXTENDS Integers, Sequences, Functions

CONSTANTS
    Threads,
    Main,       \* the thread that runs the constructor
    Worker,     \* work_thread, created in mc_signal_init
    Traces,     \* call stacks backtrace can return
    Files,      \* executable mappings of /proc/self/maps
    MaxCalls,   \* bound: calls in a behaviour
    MaxFail,    \* bound: failures of mmap and of libbfd in a behaviour
    NULL

ASSUME HookGateAssumption ==
    /\ Main \in Threads /\ Worker \in Threads /\ Main # Worker
    /\ NULL \notin Threads \cup Traces \cup Files
    /\ MaxCalls \in Nat /\ MaxFail \in Nat

VARIABLES
    hook, do_not_hook,           \* owner of the recursive __mtx of memchk_hook.c, its counter
    initialized, resolved,       \* of mc_init; the mc_orig_* pointers are set
    started,                     \* threads that exist
    todo, step, trace, file,     \* of each thread: stages left, place in the first, locals
    callstack_mtx, manage_mtx,   \* owners of __mtx of memchk_callstack.c and manage_memblk.c
    entries,                     \* mc_callstack_hashtable, in the order of insertion
    usage_cnt, mapped,           \* __usage_cnt; __filemap points to mapped memory
    abfd, symbols,               \* of each file map
    aim,                         \* __symbols and __offset of memchk_symbol.c
    calls, fails,                \* calls begun and failures so far
    broken,                      \* undefined behaviour has happened: the model stops
    strays                       \* calls that took the wrong way at the gate

gate  == <<hook, do_not_hook>>
start == <<initialized, resolved, started>>
local == <<trace, file>>
table == <<callstack_mtx, entries>>
maps  == <<usage_cnt, mapped, abfd, symbols, aim>>
count == <<calls, fails>>
vars == <<gate, start, todo, step, local, table, manage_mtx, maps, count, broken, strays>>

-----------------------------------------------------------------------------
(* Calls *)

\* The stages between mc_disable_hook and mc_enable_hook.
HookStages == {"init", "backtrace", "maps_init", "lookup", "maps_term"}

\* The test of do_not_hook: in a call of the program, and in one that memchk
\* itself has libc make with the hook enabled.
Gates == {"gate", "own"}

Stages == HookStages \cup Gates \cup
    {"mc_init", "callstack", "count", "manage_lock", "manage_unlock"}

\* mc_get_callstack, and mc_register_memblk and mc_unregister_memblk around it.
Register == <<"backtrace", "callstack", "count">>

Malloc == <<"mc_init", "gate">> \o Register
Free == <<"gate">> \o Register

\* fopen, fgets and fclose of __init_filemaps_from_procmap in memchk_virtmem.c:
\* fopen allocates a stream, the first fgets its buffer, and fclose frees both;
\* the two count as one block here. No mc_disable_hook is around them, so they
\* go the way of the program's calls.
OwnMalloc == <<"mc_init", "own">> \o Register
OwnFree == <<"own">> \o Register

Script == [
    constructor  |-> <<"mc_init">>,
    malloc       |-> Malloc,
    calloc       |-> <<"gate">> \o Malloc,
    realloc      |-> <<"gate">> \o Malloc \o Free,
    memalign     |-> Register,
    free         |-> Free,
    free_overrun |-> <<"gate", "maps_init", "lookup", "backtrace", "lookup", "maps_term">>
                       \o Register,
    free_illegal |-> <<"gate", "maps_init", "backtrace", "lookup", "maps_term">>,
    list         |-> <<"maps_init", "lookup", "maps_term">>,
    check        |-> <<"manage_lock", "maps_init", "lookup", "maps_term", "manage_unlock">>,
    virtual_memory |-> OwnMalloc \o OwnFree]

\* The commands of work_thread that call a library: "list" stands for the
\* listings and the comparisons. Creating and deleting a snapshot and printing
\* the histogram call none.
WorkerCalls == {"list", "check", "virtual_memory"}

\* Before the constructor has run only libraries it depends on can call, and
\* they begin with an allocation that comes to mc_init.
FirstCalls == {"constructor", "malloc", "calloc"}

CallsOf(t) ==
    IF t = Worker THEN WorkerCalls
    ELSE IF initialized THEN DOMAIN Script \ (WorkerCalls \cup {"constructor"})
    ELSE FirstCalls

AtGate(t) == todo[t] # <<>> /\ Head(todo[t]) \in Gates /\ step[t] = "start"
At(t, stage, where) == todo[t] # <<>> /\ Head(todo[t]) = stage /\ step[t] = where
InHook(t, where) == todo[t] # <<>> /\ Head(todo[t]) \in HookStages /\ step[t] = where

Goto(t, where) == step' = [step EXCEPT ![t] = where] /\ UNCHANGED todo
Leave(t) == /\ todo' = [todo EXCEPT ![t] = Tail(todo[t])]
            /\ step' = [step EXCEPT ![t] = "start"]

-----------------------------------------------------------------------------

TypeOK ==
    /\ hook \in Threads \cup {NULL} /\ do_not_hook \in Nat
    /\ initialized \in BOOLEAN /\ resolved \in BOOLEAN /\ started \subseteq Threads
    /\ todo \in [Threads -> Seq(Stages)]
    /\ step \in [Threads -> {"start", "locked", "inside", "aimed", "demangle", "done",
                             "leaving", "find", "add"}]
    /\ trace \in [Threads -> Traces \cup {NULL}]
    /\ file \in [Threads -> Files \cup {NULL}]
    /\ callstack_mtx \in Threads \cup {NULL} /\ manage_mtx \in Threads \cup {NULL}
    /\ entries \in Seq([trace : Traces \cup {NULL}, usage : Nat])
    /\ usage_cnt \in Int /\ mapped \in BOOLEAN
    /\ abfd \in [Files -> BOOLEAN]
    /\ symbols \in [Files -> {"none", "valid", "freed"}]
    /\ aim \in Files \cup {NULL}
    /\ calls \in 0..MaxCalls /\ fails \in 0..MaxFail
    /\ broken \in BOOLEAN
    /\ strays \subseteq {"bypassed", "recursed", "unguarded"}

Init ==
    /\ hook = NULL /\ do_not_hook = 0
    /\ initialized = FALSE /\ resolved = FALSE /\ started = {Main}
    /\ todo = [t \in Threads |-> <<>>] /\ step = [t \in Threads |-> "start"]
    /\ trace = [t \in Threads |-> NULL] /\ file = [t \in Threads |-> NULL]
    /\ callstack_mtx = NULL /\ manage_mtx = NULL
    /\ entries = <<>>
    /\ usage_cnt = 0 /\ mapped = FALSE
    /\ abfd = [f \in Files |-> FALSE] /\ symbols = [f \in Files |-> "none"]
    /\ aim = NULL
    /\ calls = 0 /\ fails = 0
    /\ broken = FALSE /\ strays = {}

-----------------------------------------------------------------------------
(* Calls and the gate *)

\* The main thread creates a thread, outside of any call of its own.
Spawn(t) ==
    /\ t # Worker /\ t \notin started
    /\ initialized /\ todo[Main] = <<>>
    /\ started' = started \cup {t}
    /\ UNCHANGED <<gate, initialized, resolved, todo, step, local, table, manage_mtx, maps, count, broken, strays>>

Begin(t) ==
    /\ t \in started /\ todo[t] = <<>>
    /\ calls < MaxCalls /\ calls' = calls + 1
    /\ \E c \in CallsOf(t) : todo' = [todo EXCEPT ![t] = Script[c]]
    /\ UNCHANGED <<gate, start, step, local, table, manage_mtx, maps, fails, broken, strays>>

\* mc_init: __mc_init comes before what the call has left to do.
McInit(t) ==
    /\ At(t, "mc_init", "start")
    /\ initialized' = TRUE
    /\ IF initialized
       THEN Leave(t)
       ELSE todo' = [todo EXCEPT ![t] = <<"init">> \o Tail(todo[t])] /\ UNCHANGED step
    /\ UNCHANGED <<gate, resolved, started, local, table, manage_mtx, maps, count, broken, strays>>

\* What passes the gate is registered, also a call memchk had libc make.
Registered(t) == IF Head(todo[t]) = "own" THEN {"unguarded"} ELSE {}

Gate_NoLock(t) ==
    /\ AtGate(t)
    /\ IF do_not_hook # 0
       THEN strays' = strays \cup {"bypassed"} /\ todo' = [todo EXCEPT ![t] = <<>>] /\ UNCHANGED step
       ELSE Leave(t) /\ strays' = strays \cup Registered(t)
    /\ broken' = (~resolved /\ (do_not_hook # 0 \/ Head(Tail(todo[t])) # "mc_init"))
    /\ UNCHANGED <<gate, start, local, table, manage_mtx, maps, count>>

\* The test of do_not_hook in malloc, free, realloc and calloc, under the lock:
\* with the hook disabled the call goes to libc, past everything else.
Gate(t) ==
    /\ AtGate(t) /\ hook \in {NULL, t}
    /\ IF do_not_hook # 0
       THEN strays' = strays \cup {"bypassed"} /\ todo' = [todo EXCEPT ![t] = <<>>] /\ UNCHANGED step
       ELSE Leave(t) /\ strays' = strays \cup Registered(t)
    /\ broken' = (~resolved /\ (do_not_hook # 0 \/ Head(Tail(todo[t])) # "mc_init"))
    /\ UNCHANGED <<gate, start, local, table, manage_mtx, maps, count>>

\* The same test when a library function allocates inside a stage.
Inside == strays' = IF do_not_hook = 0 THEN strays \cup {"recursed"} ELSE strays

DisableLock_NoWait(t) ==
    /\ InHook(t, "start")
    /\ hook' = t
    /\ Goto(t, "locked")
    /\ UNCHANGED <<do_not_hook, start, local, table, manage_mtx, maps, count, broken, strays>>

DisableLock(t) ==
    /\ InHook(t, "start") /\ hook = NULL
    /\ hook' = t
    /\ Goto(t, "locked")
    /\ UNCHANGED <<do_not_hook, start, local, table, manage_mtx, maps, count, broken, strays>>

DisableCount_Forgets(t) ==
    /\ InHook(t, "locked")
    /\ Goto(t, "inside")
    /\ UNCHANGED <<gate, start, local, table, manage_mtx, maps, count, broken, strays>>

DisableCount(t) ==
    /\ InHook(t, "locked")
    /\ do_not_hook' = do_not_hook + 1
    /\ Goto(t, "inside")
    /\ UNCHANGED <<hook, start, local, table, manage_mtx, maps, count, broken, strays>>

EnableCount(t) ==
    /\ InHook(t, "done")
    /\ do_not_hook' = do_not_hook - 1
    /\ Goto(t, "leaving")
    /\ UNCHANGED <<hook, start, local, table, manage_mtx, maps, count, broken, strays>>

EnableUnlock(t) ==
    /\ InHook(t, "leaving")
    /\ hook' = NULL
    /\ Leave(t)
    /\ UNCHANGED <<do_not_hook, start, local, table, manage_mtx, maps, count, broken, strays>>

-----------------------------------------------------------------------------
(* Behind the gate *)

\* The body of __mc_init, down to pthread_create in mc_signal_init.
Resolve(t) ==
    /\ At(t, "init", "inside")
    /\ resolved' = TRUE
    /\ started' = started \cup {Worker}
    /\ Inside
    /\ Goto(t, "done")
    /\ UNCHANGED <<gate, initialized, local, table, manage_mtx, maps, count, broken>>

Backtrace(t) ==
    /\ At(t, "backtrace", "inside")
    /\ \E b \in Traces : trace' = [trace EXCEPT ![t] = b]
    /\ Inside
    /\ Goto(t, "done")
    /\ UNCHANGED <<gate, start, file, table, manage_mtx, maps, count, broken>>

CallstackLock_None(t) ==
    /\ At(t, "callstack", "start")
    /\ Goto(t, "find")
    /\ UNCHANGED <<gate, start, local, table, manage_mtx, maps, count, broken, strays>>

\* mc_get_callstack under CALLSTACK_LOCK: find the entry, or add one.
CallstackLock(t) ==
    /\ At(t, "callstack", "start") /\ callstack_mtx = NULL
    /\ callstack_mtx' = t
    /\ Goto(t, "find")
    /\ UNCHANGED <<gate, start, local, entries, manage_mtx, maps, count, broken, strays>>

CallstackFind_KeepsLock(t) ==
    /\ At(t, "callstack", "find")
    /\ IF \E i \in DOMAIN entries : entries[i].trace = trace[t]
       THEN Leave(t) ELSE Goto(t, "add")
    /\ UNCHANGED <<gate, start, local, table, manage_mtx, maps, count, broken, strays>>

CallstackFind(t) ==
    /\ At(t, "callstack", "find")
    /\ IF \E i \in DOMAIN entries : entries[i].trace = trace[t]
       THEN /\ entries' = [i \in DOMAIN entries |->
                 IF entries[i].trace = trace[t]
                 THEN [entries[i] EXCEPT !.usage = @ + 1] ELSE entries[i]]
            /\ callstack_mtx' = NULL
            /\ Leave(t)
       ELSE Goto(t, "add") /\ UNCHANGED table
    /\ UNCHANGED <<gate, start, local, manage_mtx, maps, count, broken, strays>>

CallstackAdd(t) ==
    /\ At(t, "callstack", "add")
    /\ entries' = Append(entries, [trace |-> trace[t], usage |-> 1])
    /\ callstack_mtx' = NULL
    /\ Leave(t)
    /\ UNCHANGED <<gate, start, local, manage_mtx, maps, count, broken, strays>>

\* The counters of mc_register_memblk and mc_unregister_memblk.
Count(t) ==
    /\ At(t, "count", "start") /\ manage_mtx = NULL
    /\ Leave(t)
    /\ UNCHANGED <<gate, start, local, table, manage_mtx, maps, count, broken, strays>>

\* mc_check_all_memblk holds MANAGE_LOCK while it reports.
ManageLock(t) ==
    /\ At(t, "manage_lock", "start") /\ manage_mtx = NULL
    /\ manage_mtx' = t
    /\ Leave(t)
    /\ UNCHANGED <<gate, start, local, table, maps, count, broken, strays>>

ManageUnlock(t) ==
    /\ At(t, "manage_unlock", "start")
    /\ manage_mtx' = NULL
    /\ Leave(t)
    /\ UNCHANGED <<gate, start, local, table, maps, count, broken, strays>>

-----------------------------------------------------------------------------
(* File maps and symbols *)

\* No file map has an open bfd or symbols: as __add_filemap makes each one, and
\* as __term_bfd_filemap leaves it.
NoBfds ==
    /\ abfd' = [f \in Files |-> FALSE]
    /\ symbols' = [f \in Files |-> "none"]

\* __init_filemaps: only the first use reads /proc/self/maps.
MapsInit(t) ==
    /\ At(t, "maps_init", "inside")
    /\ usage_cnt' = usage_cnt + 1
    /\ IF usage_cnt = 0
       THEN mapped' = TRUE /\ NoBfds
       ELSE UNCHANGED <<mapped, abfd, symbols>>
    /\ Inside
    /\ Goto(t, "done")
    /\ UNCHANGED <<gate, start, local, table, manage_mtx, aim, count, broken>>

\* No memory for the file maps: the use is not counted, and no caller looks.
MapsInitFails(t) ==
    /\ At(t, "maps_init", "inside")
    /\ usage_cnt = 0
    /\ fails < MaxFail /\ fails' = fails + 1
    /\ mapped' = FALSE
    /\ Goto(t, "done")
    /\ UNCHANGED <<gate, start, local, table, manage_mtx, usage_cnt, abfd, symbols, aim, calls, broken, strays>>

MapsTerm_Always(t) ==
    /\ At(t, "maps_term", "inside")
    /\ usage_cnt' = usage_cnt - 1
    /\ broken' = (~mapped \/ \E f \in Files : symbols[f] = "freed")
    /\ mapped' = FALSE /\ NoBfds
    /\ Inside
    /\ Goto(t, "done")
    /\ UNCHANGED <<gate, start, local, table, manage_mtx, aim, count>>

MapsTerm_KeepsBfd(t) ==
    /\ At(t, "maps_term", "inside")
    /\ usage_cnt' = usage_cnt - 1
    /\ mapped' = (mapped /\ usage_cnt # 1)
    /\ broken' = (usage_cnt = 1 /\ ~mapped)
    /\ Inside
    /\ Goto(t, "done")
    /\ UNCHANGED <<gate, start, local, table, manage_mtx, abfd, symbols, aim, count>>

\* mc_term_filemaps: the last use closes every bfd and frees its symbols.
MapsTerm(t) ==
    /\ At(t, "maps_term", "inside")
    /\ usage_cnt' = usage_cnt - 1
    /\ IF usage_cnt = 1
       THEN /\ broken' = (~mapped \/ \E f \in Files : symbols[f] = "freed")
            /\ mapped' = FALSE /\ NoBfds
       ELSE UNCHANGED <<mapped, abfd, symbols, broken>>
    /\ Inside
    /\ Goto(t, "done")
    /\ UNCHANGED <<gate, start, local, table, manage_mtx, aim, count>>

\* mc_find_and_init_bfd_filemap opens the file of a frame at its first use; then
\* mc_get_symbol_from_offset sets the statics that the lookup reads.
Lookup(t) ==
    /\ At(t, "lookup", "inside")
    /\ broken' = ~mapped
    /\ \E f \in Files :
        /\ abfd' = [abfd EXCEPT ![f] = TRUE]
        /\ symbols' = [symbols EXCEPT ![f] = IF abfd[f] THEN @ ELSE "valid"]
        /\ file' = [file EXCEPT ![t] = f]
        /\ aim' = f
    /\ Inside
    /\ Goto(t, "aimed")
    /\ UNCHANGED <<gate, start, trace, table, manage_mtx, usage_cnt, mapped, count>>

\* The symbols of a file cannot be read: they are freed, but the file map keeps
\* the pointer and the open bfd. The frame is printed without a name.
LookupFails(t) ==
    /\ At(t, "lookup", "inside") /\ mapped
    /\ fails < MaxFail /\ fails' = fails + 1
    /\ \E f \in Files :
        /\ ~abfd[f]
        /\ abfd' = [abfd EXCEPT ![f] = TRUE]
        /\ symbols' = [symbols EXCEPT ![f] = "freed"]
    /\ Goto(t, "done")
    /\ UNCHANGED <<gate, start, local, table, manage_mtx, usage_cnt, mapped, aim, calls, broken, strays>>

\* bfd_find_nearest_line in the file that the statics name, and the inner
\* mc_disable_hook around bfd_demangle.
Find(t) ==
    /\ At(t, "lookup", "aimed")
    /\ broken' = (~mapped \/ symbols[aim] = "freed")
    /\ do_not_hook' = do_not_hook + 1
    /\ Goto(t, "demangle")
    /\ UNCHANGED <<hook, start, local, table, manage_mtx, maps, count, strays>>

Demangled(t) ==
    /\ At(t, "lookup", "demangle")
    /\ Inside
    /\ do_not_hook' = do_not_hook - 1
    /\ Goto(t, "done")
    /\ UNCHANGED <<hook, start, local, table, manage_mtx, maps, count, broken>>

-----------------------------------------------------------------------------

Run(t) ==
    \/ McInit(t) \/ Gate(t)
    \/ DisableLock(t) \/ DisableCount(t) \/ EnableCount(t) \/ EnableUnlock(t)
    \/ Resolve(t) \/ Backtrace(t)
    \/ CallstackLock(t) \/ CallstackFind(t) \/ CallstackAdd(t)
    \/ Count(t) \/ ManageLock(t) \/ ManageUnlock(t)
    \/ MapsInit(t) \/ MapsInitFails(t) \/ MapsTerm(t)
    \/ Lookup(t) \/ LookupFails(t) \/ Find(t) \/ Demangled(t)

Next == ~broken /\ \E t \in Threads : Spawn(t) \/ Begin(t) \/ Run(t)

Spec == Init /\ [][Next]_vars

\* A thread that can take a step of its call takes it: the locks are mutexes
\* that are held for a bounded time, and the calls of a behaviour are bounded.
FairSpec == Spec /\ \A t \in Threads : WF_vars(~broken /\ Run(t))

-----------------------------------------------------------------------------
(* Properties *)

\* Every call takes the way at the gate that its place in the code asks for,
\* whatever other threads do at that moment. One made outside of mc_disable_hook
\* and mc_enable_hook is always registered and never passed on to libc: all calls
\* of the program, and those of the virtual memory command, whose streams are
\* freed the way they were allocated. One that libc or libbfd make between the
\* two is never registered, so that memchk does not come back into itself. The
\* one thing of memchk's own that is registered is what the virtual memory
\* command has libc allocate with the hook enabled (memchk_virtmem.c:157-160).
GateTells == strays \subseteq {"unguarded"}

\* The lookup reads the file it has set the statics for, although they are set
\* before SYMBOL_LOCK is taken: they are memchk's only while the hook is disabled.
AimHeld == \A t \in Threads : step[t] = "aimed" => aim = file[t]

\* Two threads with the same call stack share one entry, so that grouping by
\* entry is grouping by call stack.
OneEntryPerTrace ==
    \A i, j \in DOMAIN entries : entries[i].trace = entries[j].trace => i = j

\* Unless mmap or libbfd has failed, no report reads file maps that another has
\* unmapped, no symbols are used after they were freed, and no call goes through
\* a pointer of libc that mc_init has yet to set.
NoUndefined == broken => fails > 0

\* When no call is under way and nothing has failed, the file maps are unmapped,
\* every bfd is closed, the hook is enabled and no lock is held.
AllReleased ==
    (\A t \in Threads : todo[t] = <<>>) /\ fails = 0 =>
        /\ hook = NULL /\ do_not_hook = 0
        /\ callstack_mtx = NULL /\ manage_mtx = NULL
        /\ usage_cnt = 0 /\ ~mapped /\ \A f \in Files : ~abfd[f]

\* Every call returns, although reports take the lock of the hook inside
\* MANAGE_LOCK and other threads wait for either.
CallsReturn == \A t \in Threads : todo[t] # <<>> ~> (todo[t] = <<>> \/ broken)
=============================================================================
