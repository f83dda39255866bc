----------------------------- MODULE CommandWorker -----------------------------
(*****************************************************************************)
(* How a command of the memchk client reaches the worker: memchk_signal.c.   *)
(*                                                                           *)
(* The client sends a real-time signal per command. The kernel interrupts    *)
(* some thread of the process with it, at any instruction, and the handler   *)
(* calls notify, which stores the command in __cmd under __mtx and signals   *)
(* __cond. work_thread waits for __cond and runs the command with __mtx      *)
(* held. A handler can so interrupt the holder of __mtx, or the holder of a  *)
(* lock of the tracker that the worker needs. The one handler that does not  *)
(* call notify, get_status, is left out.                                     *)
(*****************************************************************************)
EXTENDS Integers, Sequences, SequencesExt

CONSTANTS
    Apps,       \* threads of the program under test
    Worker,     \* the thread of work_thread
    Commands,   \* GET_ALL_MEMBLK .. GET_VIRTUAL_MEMORY_STATUS
    MaxSent,    \* bound: signals the client sends
    MaxSpurious, \* bound: spurious returns of pthread_cond_wait
    NULL

ASSUME CommandWorkerAssumption ==
    /\ Worker \notin Apps /\ NULL \notin Apps \cup {Worker}
    /\ Commands \subseteq 1..9
    /\ MaxSent \in Nat /\ MaxSpurious \in Nat

Threads == Apps \cup {Worker}

VARIABLES
    pending,    \* queued signals of the process, by command
    frames,     \* the handlers a thread is in, the innermost last
    mtx,        \* holder of __mtx
    cmd,        \* __cmd
    wpc,        \* where work_thread is
    running,    \* the value work_thread switched on
    tracker,    \* holder of the locks of the tracker and of the log
    sent, spurious  \* counts for the bounds

vars == <<pending, frames, mtx, cmd, wpc, running, tracker, sent, spurious>>

\* A handler at a line of notify.
Frame == [cmd : Commands, pc : {"lock", "store", "signal", "unlock"}]

TypeOK ==
    /\ pending \in [Commands -> Nat]
    /\ frames \in [Threads -> Seq(Frame)]
    /\ mtx \in Threads \cup {NULL}
    /\ cmd \in Commands \cup {0}
    /\ wpc \in {"lock", "test", "wait", "wake", "switch", "run", "print", "clear"}
    /\ running \in Commands \cup {0}
    /\ tracker \in Threads \cup {NULL}
    /\ sent \in 0..MaxSent /\ spurious \in 0..MaxSpurious

\* mc_signal_init has installed the handlers and created the worker.
Init ==
    /\ pending = [c \in Commands |-> 0]
    /\ frames = [t \in Threads |-> <<>>]
    /\ mtx = NULL
    /\ cmd = 0
    /\ wpc = "lock"
    /\ running = 0
    /\ tracker = NULL
    /\ sent = 0 /\ spurious = 0

-----------------------------------------------------------------------------
(* Signals *)

\* The client: kill -<SIGRTMIN + c> <pid>.
Send(c) ==
    /\ sent < MaxSent
    /\ sent' = sent + 1
    /\ pending' = [pending EXCEPT ![c] = @ + 1]
    /\ UNCHANGED <<frames, mtx, cmd, wpc, running, tracker, spurious>>

\* signal() blocks a signal in its own handler.
Deliverable(t, c) == pending[c] > 0 /\ \A i \in DOMAIN frames[t] : frames[t][i].cmd # c

\* The kernel interrupts t with the lowest signal that t does not block.
Deliver(t, c) ==
    /\ Deliverable(t, c)
    /\ \A d \in Commands : Deliverable(t, d) => c <= d
    /\ pending' = [pending EXCEPT ![c] = @ - 1]
    /\ frames' = [frames EXCEPT ![t] = Append(@, [cmd |-> c, pc |-> "lock"])]
    /\ UNCHANGED <<mtx, cmd, wpc, running, tracker, sent, spurious>>

InHandler(t) == frames[t] # <<>>

\* The innermost handler of t is at pc.
HandlerAt(t, pc) == InHandler(t) /\ Last(frames[t]).pc = pc

HandlerTo(t, pc) == frames' = [frames EXCEPT ![t][Len(frames[t])].pc = pc]

-----------------------------------------------------------------------------
(* notify *)

NotifyLock_Recursive(t) ==
    /\ HandlerAt(t, "lock")
    /\ mtx \in {NULL, t}
    /\ mtx' = t
    /\ HandlerTo(t, "store")
    /\ UNCHANGED <<pending, cmd, wpc, running, tracker, sent, spurious>>

NotifyLock(t) ==
    /\ HandlerAt(t, "lock")
    /\ mtx = NULL
    /\ mtx' = t
    /\ HandlerTo(t, "store")
    /\ UNCHANGED <<pending, cmd, wpc, running, tracker, sent, spurious>>

NotifyStore_Signum(t) ==
    /\ HandlerAt(t, "store")
    /\ cmd' = 34 + Last(frames[t]).cmd
    /\ HandlerTo(t, "signal")
    /\ UNCHANGED <<pending, mtx, wpc, running, tracker, sent, spurious>>

NotifyStore(t) ==
    /\ HandlerAt(t, "store")
    /\ cmd' = Last(frames[t]).cmd
    /\ HandlerTo(t, "signal")
    /\ UNCHANGED <<pending, mtx, wpc, running, tracker, sent, spurious>>

NotifySignal_Skip(t) ==
    /\ HandlerAt(t, "signal")
    /\ HandlerTo(t, "unlock")
    /\ UNCHANGED <<pending, mtx, cmd, wpc, running, tracker, sent, spurious>>

\* pthread_cond_signal: the worker leaves the wait, if it is in it.
NotifySignal(t) ==
    /\ HandlerAt(t, "signal")
    /\ wpc' = IF wpc = "wait" THEN "wake" ELSE wpc
    /\ HandlerTo(t, "unlock")
    /\ UNCHANGED <<pending, mtx, cmd, running, tracker, sent, spurious>>

\* notify unlocks, and the handler returns to what it interrupted.
NotifyUnlock(t) ==
    /\ HandlerAt(t, "unlock")
    /\ mtx' = NULL
    /\ frames' = [frames EXCEPT ![t] = Front(@)]
    /\ UNCHANGED <<pending, cmd, wpc, running, tracker, sent, spurious>>

Notify(t) == NotifyLock(t) \/ NotifyStore(t) \/ NotifySignal(t) \/ NotifyUnlock(t)

-----------------------------------------------------------------------------
(* work_thread *)

WorkAt(pc) == wpc = pc /\ ~InHandler(Worker)

WorkLock ==
    /\ WorkAt("lock")
    /\ mtx = NULL /\ mtx' = Worker
    /\ wpc' = "test"
    /\ UNCHANGED <<pending, frames, cmd, running, tracker, sent, spurious>>

WorkWait_KeepLock ==
    /\ WorkAt("test")
    /\ cmd = 0
    /\ wpc' = "wait"
    /\ UNCHANGED <<pending, frames, mtx, cmd, running, tracker, sent, spurious>>

WorkWait_Always ==
    /\ WorkAt("test")
    /\ mtx' = NULL
    /\ wpc' = "wait"
    /\ UNCHANGED <<pending, frames, cmd, running, tracker, sent, spurious>>

\* if (__cmd == 0) pthread_cond_wait: it releases __mtx and sleeps in one step.
WorkWait ==
    /\ WorkAt("test")
    /\ cmd = 0
    /\ mtx' = NULL
    /\ wpc' = "wait"
    /\ UNCHANGED <<pending, frames, cmd, running, tracker, sent, spurious>>

WorkNoWait ==
    /\ WorkAt("test")
    /\ cmd # 0
    /\ wpc' = "switch"
    /\ UNCHANGED <<pending, frames, mtx, cmd, running, tracker, sent, spurious>>

\* pthread_cond_wait returns without a signal.
WorkSpurious ==
    /\ WorkAt("wait")
    /\ spurious < MaxSpurious /\ spurious' = spurious + 1
    /\ wpc' = "wake"
    /\ UNCHANGED <<pending, frames, mtx, cmd, running, tracker, sent>>

\* pthread_cond_wait takes __mtx again and returns.
WorkWake ==
    /\ WorkAt("wake")
    /\ mtx = NULL /\ mtx' = Worker
    /\ wpc' = "switch"
    /\ UNCHANGED <<pending, frames, cmd, running, tracker, sent, spurious>>

WorkSwitch_Unlock ==
    /\ WorkAt("switch")
    /\ running' = cmd
    /\ wpc' = IF cmd = 0 THEN "clear" ELSE "run"
    /\ mtx' = NULL
    /\ UNCHANGED <<pending, frames, cmd, tracker, sent, spurious>>

\* switch (__cmd), with 0 for its default.
WorkSwitch ==
    /\ WorkAt("switch")
    /\ running' = cmd
    /\ wpc' = IF cmd = 0 THEN "clear" ELSE "run"
    /\ UNCHANGED <<pending, frames, mtx, cmd, tracker, sent, spurious>>

\* Each command takes a lock of the tracker, or of the log, that threads use.
WorkRun ==
    /\ WorkAt("run")
    /\ tracker = NULL /\ tracker' = Worker
    /\ wpc' = "print"
    /\ UNCHANGED <<pending, frames, mtx, cmd, running, sent, spurious>>

WorkRan ==
    /\ WorkAt("print")
    /\ tracker' = NULL
    /\ wpc' = "clear"
    /\ UNCHANGED <<pending, frames, mtx, cmd, running, sent, spurious>>

WorkClear ==
    /\ WorkAt("clear")
    /\ cmd' = 0
    /\ running' = 0
    /\ wpc' = "test"
    /\ UNCHANGED <<pending, frames, mtx, tracker, sent, spurious>>

Work == WorkLock \/ WorkWait \/ WorkNoWait \/ WorkWake \/ WorkSwitch \/ WorkRun \/ WorkRan \/ WorkClear

-----------------------------------------------------------------------------
(* The program: malloc and free take the locks of the tracker. *)

AppLock(t) ==
    /\ ~InHandler(t)
    /\ tracker = NULL /\ tracker' = t
    /\ UNCHANGED <<pending, frames, mtx, cmd, wpc, running, sent, spurious>>

AppUnlock(t) ==
    /\ ~InHandler(t)
    /\ tracker = t /\ tracker' = NULL
    /\ UNCHANGED <<pending, frames, mtx, cmd, wpc, running, sent, spurious>>

-----------------------------------------------------------------------------

Next ==
    \/ \E c \in Commands : Send(c)
    \/ \E t \in Threads, c \in Commands : Deliver(t, c)
    \/ \E t \in Threads : Notify(t)
    \/ Work
    \/ WorkSpurious
    \/ \E t \in Apps : AppLock(t) \/ AppUnlock(t)

Spec == Init /\ [][Next]_vars

\* Threads run; a mutex that is free again and again is got in the end.
Fairness ==
    /\ \A t \in Threads : WF_vars(Notify(t))
    /\ WF_vars(Work) /\ SF_vars(WorkRun)
    /\ \A t \in Apps : WF_vars(AppUnlock(t))

FairSpec == Spec /\ Fairness

-----------------------------------------------------------------------------
(* Properties *)

\* A thread waits for __mtx in a handler that interrupted its own critical
\* section: in an outer handler, or in the worker as it runs a command.
HoldsWhatItWaitsFor == \E t \in Threads : mtx = t /\ HandlerAt(t, "lock")

\* The worker needs a lock of a thread that waits in a handler for __mtx, which
\* the worker holds.
WorkerAndThreadWait ==
    mtx = Worker /\ wpc = "run" /\ \E t \in Apps : tracker = t /\ HandlerAt(t, "lock")

Stuck == HoldsWhatItWaitsFor \/ WorkerAndThreadWait

\* The worker never sleeps over a command unless its wakeup is on the way: no
\* order of the handlers, the test of __cmd and the wait loses one.
NoLostWakeup ==
    wpc = "wait" /\ cmd # 0 =>
        \E t \in Threads : mtx = t /\ \E i \in DOMAIN frames[t] : frames[t][i].pc = "signal"

\* "__cmd = 0" erases the command that was run, never a newer one.
NotErased == [][cmd # 0 /\ cmd' = 0 => running = cmd]_vars

\* Neither of the two deadlocks ever resolves.
StuckForever == [][Stuck => Stuck']_vars

\* They are the only ones that stop a handler which calls notify: otherwise it
\* returns to the program. The handler of the status, which prints and may wait
\* for a lock of stdio (get_status, memchk_signal.c:99-112), is not modelled.
HandlersReturn == \A t \in Threads : InHandler(t) ~> ~InHandler(t) \/ Stuck

\* A stored command is run, or replaced by another one.
CommandRuns == \A c \in Commands : cmd = c ~> running = c \/ cmd \notin {0, c} \/ Stuck

\* A command given is executed (README.md:21, "Execute various commands"): it
\* stays in __cmd until the worker has run it.
EveryCommandRuns == [][cmd # 0 /\ cmd' # cmd => running = cmd]_vars
=============================================================================
