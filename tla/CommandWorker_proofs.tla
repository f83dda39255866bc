-------------------------- MODULE CommandWorker_proofs --------------------------
(*****************************************************************************)
(* Proofs about CommandWorker, for any threads, commands and numbers of      *)
(* signals and spurious wakeups.                                             *)
(*****************************************************************************)
EXTENDS CommandWorker, TLAPS

-----------------------------------------------------------------------------
(* What delivery, a step and the return of a handler do to the frames. *)

\* Delivery of a signal adds a frame and leaves the others.
LEMMA Push ==
    ASSUME NEW F \in [Threads -> Seq(Frame)], NEW t \in Threads, NEW f \in Frame,
           NEW G, G = [F EXCEPT ![t] = Append(@, f)]
    PROVE  /\ G \in [Threads -> Seq(Frame)]
           /\ \A u \in Threads \ {t} : G[u] = F[u]
           /\ DOMAIN G[t] = DOMAIN F[t] \cup {Len(F[t]) + 1}
           /\ \A i \in DOMAIN F[t] : G[t][i] = F[t][i]
           /\ Len(G[t]) = Len(F[t]) + 1
           /\ G[t][Len(G[t])] = f
<1>1. F[t] \in Seq(Frame) /\ G[t] = Append(F[t], f)
  OBVIOUS
<1>2. Append(F[t], f) \in Seq(Frame) /\ Len(Append(F[t], f)) = Len(F[t]) + 1
  BY <1>1
<1>3. DOMAIN F[t] = 1..Len(F[t]) /\ DOMAIN G[t] = 1..(Len(F[t]) + 1) /\ Len(F[t]) \in Nat
  BY <1>1, <1>2
<1>4. /\ \A i \in 1..Len(F[t]) : Append(F[t], f)[i] = F[t][i]
      /\ Append(F[t], f)[Len(F[t]) + 1] = f
  BY <1>1
<1>5. G \in [Threads -> Seq(Frame)] /\ \A u \in Threads \ {t} : G[u] = F[u]
  BY <1>2
<1>6. 1..(Len(F[t]) + 1) = (1..Len(F[t])) \cup {Len(F[t]) + 1}
  BY <1>3
<1> QED  BY <1>1, <1>2, <1>3, <1>4, <1>5, <1>6

-----------------------------------------------------------------------------
(* The invariant: who is in the critical section of __mtx. *)

\* A handler between its lock and its unlock.
Locked(f) == f.pc # "lock"

\* The worker between its lock and the unlock inside pthread_cond_wait.
WorkLocked == wpc \in {"test", "switch", "run", "print", "clear"}

HandlerHolds ==
    \A t \in Threads : \A i \in DOMAIN frames[t] :
        Locked(frames[t][i]) => mtx = t /\ ~WorkLocked

OneHandler ==
    \A t \in Threads : \A i, j \in DOMAIN frames[t] :
        Locked(frames[t][i]) /\ Locked(frames[t][j]) => i = j

WorkerHolds == WorkLocked => mtx = Worker

RunsCmd == wpc \in {"run", "print", "clear"} => running = cmd

Inv == TypeOK /\ HandlerHolds /\ OneHandler /\ WorkerHolds /\ RunsCmd /\ NoLostWakeup

LEMMA InitInv == Init => Inv
<1> SUFFICES ASSUME Init PROVE Inv
  OBVIOUS
<1> USE DEF Init
<1>1. TypeOK
  <2>1. <<>> \in Seq(Frame)
    OBVIOUS
  <2>2. frames \in [Threads -> Seq(Frame)]
    BY <2>1
  <2> QED  BY <2>2, CommandWorkerAssumption DEF TypeOK
<1>2. \A t \in Threads : DOMAIN frames[t] = {}
  OBVIOUS
<1>3. HandlerHolds /\ OneHandler
  BY <1>2 DEF HandlerHolds, OneHandler
<1>4. WorkerHolds /\ RunsCmd /\ NoLostWakeup
  BY DEF WorkerHolds, WorkLocked, RunsCmd, NoLostWakeup
<1> QED  BY <1>1, <1>3, <1>4 DEF Inv

\* The innermost frame of a thread in a handler.
LEMMA Innermost ==
    ASSUME TypeOK, NEW t \in Threads, NEW p, HandlerAt(t, p)
    PROVE  /\ frames[t] # <<>> /\ frames[t] \in Seq(Frame)
           /\ Len(frames[t]) \in DOMAIN frames[t]
           /\ frames[t][Len(frames[t])] \in Frame
           /\ frames[t][Len(frames[t])].pc = p
           /\ Last(frames[t]) = frames[t][Len(frames[t])]
<1>1. frames[t] \in Seq(Frame) /\ frames[t] # <<>> /\ Last(frames[t]).pc = p
  BY DEF TypeOK, HandlerAt, InHandler
<1> QED  BY <1>1 DEF Last

-----------------------------------------------------------------------------
(* Every step keeps it. *)

LEMMA SendInv == ASSUME Inv, NEW c \in Commands, Send(c) PROVE Inv'
<1> USE DEF Inv, Send
<1>1. TypeOK'
  BY CommandWorkerAssumption DEF TypeOK
<1>2. HandlerHolds' /\ OneHandler' /\ WorkerHolds' /\ RunsCmd' /\ NoLostWakeup'
  BY DEF HandlerHolds, OneHandler, WorkerHolds, WorkLocked, RunsCmd, NoLostWakeup, Locked
<1> QED  BY <1>1, <1>2

LEMMA DeliverInv == ASSUME Inv, NEW t \in Threads, NEW c \in Commands, Deliver(t, c) PROVE Inv'
<1> DEFINE f == [cmd |-> c, pc |-> "lock"]
<1>0. TypeOK
  BY DEF Inv
<1>1. frames \in [Threads -> Seq(Frame)] /\ f \in Frame /\ f.pc = "lock"
  BY <1>0 DEF TypeOK, Frame
<1>2. frames' = [frames EXCEPT ![t] = Append(@, f)]
  BY DEF Deliver
<1> HIDE DEF f
<1>3. /\ frames' \in [Threads -> Seq(Frame)]
      /\ \A u \in Threads \ {t} : frames'[u] = frames[u]
      /\ DOMAIN frames'[t] = DOMAIN frames[t] \cup {Len(frames[t]) + 1}
      /\ \A i \in DOMAIN frames[t] : frames'[t][i] = frames[t][i]
      /\ frames'[t][Len(frames[t]) + 1] = f
  <2>1. Len(frames'[t]) = Len(frames[t]) + 1 /\ frames'[t][Len(frames'[t])] = f
    BY <1>1, <1>2, Push
  <2> QED  BY <1>1, <1>2, <2>1, Push
<1>4. UNCHANGED <<mtx, cmd, wpc, running, tracker, sent, spurious>>
  BY DEF Deliver
<1>5. \A u \in Threads : \A i \in DOMAIN frames'[u] :
        Locked(frames'[u][i]) => i \in DOMAIN frames[u] /\ Locked(frames[u][i])
  BY <1>1, <1>3 DEF Locked
<1>6. TypeOK'
  <2>1. pending' \in [Commands -> Nat]
    <3>1. pending \in [Commands -> Nat]
      BY <1>0 DEF TypeOK
    <3>2. pending[c] > 0 /\ pending' = [pending EXCEPT ![c] = @ - 1]
      BY DEF Deliver, Deliverable
    <3> QED  BY <3>1, <3>2
  <2> QED  BY <1>0, <1>3, <1>4, <2>1 DEF TypeOK
<1>7. HandlerHolds' /\ OneHandler'
  BY <1>4, <1>5 DEF Inv, HandlerHolds, OneHandler, WorkLocked
<1>8. WorkerHolds' /\ RunsCmd'
  BY <1>4 DEF Inv, WorkerHolds, WorkLocked, RunsCmd
<1>9. NoLostWakeup'
  <2> SUFFICES ASSUME wpc = "wait", cmd # 0
               PROVE  \E u \in Threads : mtx = u /\ \E i \in DOMAIN frames'[u] : frames'[u][i].pc = "signal"
    BY <1>4 DEF NoLostWakeup
  <2>1. PICK u \in Threads : mtx = u /\ \E i \in DOMAIN frames[u] : frames[u][i].pc = "signal"
    BY DEF Inv, NoLostWakeup
  <2>2. PICK i \in DOMAIN frames[u] : frames[u][i].pc = "signal"
    BY <2>1
  <2>3. i \in DOMAIN frames'[u] /\ frames'[u][i] = frames[u][i]
    BY <1>3
  <2> QED  BY <2>1, <2>2, <2>3
<1> QED  BY <1>6, <1>7, <1>8, <1>9 DEF Inv

\* A line of notify moves the innermost frame and no other.
LEMMA Moved ==
    ASSUME TypeOK, NEW t \in Threads, NEW p, HandlerAt(t, p),
           NEW q \in {"lock", "store", "signal", "unlock"}, HandlerTo(t, q)
    PROVE  /\ frames' \in [Threads -> Seq(Frame)]
           /\ \A u \in Threads \ {t} : frames'[u] = frames[u]
           /\ DOMAIN frames'[t] = DOMAIN frames[t]
           /\ Len(frames[t]) \in DOMAIN frames[t]
           /\ \A i \in DOMAIN frames[t] \ {Len(frames[t])} : frames'[t][i] = frames[t][i]
           /\ frames'[t][Len(frames[t])].pc = q
<1> DEFINE s == frames[t]
           n == Len(frames[t])
           g == [s EXCEPT ![n].pc = q]
<1>0. frames \in [Threads -> Seq(Frame)] /\ s # <<>>
  BY Innermost DEF TypeOK
<1>1. s \in Seq(Frame) /\ n \in Nat \ {0} /\ DOMAIN s = 1..n
  BY <1>0
<1>2. s[n] \in Frame
  BY <1>1
<1>3. [s[n] EXCEPT !.pc = q] \in Frame /\ [s[n] EXCEPT !.pc = q].pc = q
  BY <1>2 DEF Frame
<1>4. frames' = [frames EXCEPT ![t][n].pc = q]
  BY DEF HandlerTo
<1>5. frames'[t] = g /\ \A u \in Threads \ {t} : frames'[u] = frames[u]
  BY <1>0, <1>4
<1>6. g = [s EXCEPT ![n] = [s[n] EXCEPT !.pc = q]]
  OBVIOUS
<1>7. /\ g \in Seq(Frame) /\ Len(g) = n /\ DOMAIN g = DOMAIN s
      /\ g[n] = [s[n] EXCEPT !.pc = q]
      /\ \A i \in DOMAIN s \ {n} : g[i] = s[i]
  BY <1>1, <1>3, <1>6
<1>8. frames' = [frames EXCEPT ![t] = g]
  BY <1>4
<1>9. frames' \in [Threads -> Seq(Frame)]
  BY <1>0, <1>7, <1>8
<1> QED  BY <1>1, <1>3, <1>5, <1>7, <1>9

\* The return of a handler drops the innermost frame.
LEMMA Returned ==
    ASSUME TypeOK, NEW t \in Threads, NotifyUnlock(t)
    PROVE  /\ frames' \in [Threads -> Seq(Frame)]
           /\ \A u \in Threads \ {t} : frames'[u] = frames[u]
           /\ DOMAIN frames'[t] = DOMAIN frames[t] \ {Len(frames[t])}
           /\ \A i \in DOMAIN frames'[t] : frames'[t][i] = frames[t][i]
<1> DEFINE s == frames[t]
           n == Len(frames[t])
           g == SubSeq(s, 1, n - 1)
<1>0. frames \in [Threads -> Seq(Frame)] /\ s # <<>>
  BY Innermost DEF TypeOK, NotifyUnlock
<1>1. s \in Seq(Frame) /\ n \in Nat \ {0} /\ DOMAIN s = 1..n
  BY <1>0
<1>2. frames' = [frames EXCEPT ![t] = g]
  BY DEF NotifyUnlock, Front
<1>3. g \in Seq(Frame) /\ Len(g) = n - 1
  BY <1>1
<1>4. \A i \in 1..(n - 1) : g[i] = s[i]
  BY <1>1
<1> HIDE DEF g
<1>5. frames' \in [Threads -> Seq(Frame)] /\ frames'[t] = g /\ \A u \in Threads \ {t} : frames'[u] = frames[u]
  BY <1>0, <1>2, <1>3
<1>6. DOMAIN frames'[t] = 1..(n - 1) /\ (1..n) \ {n} = 1..(n - 1)
  BY <1>1, <1>3, <1>5
<1> QED  BY <1>1, <1>4, <1>5, <1>6

LEMMA NotifyLockInv == ASSUME Inv, NEW t \in Threads, NotifyLock(t) PROVE Inv'
<1> DEFINE n == Len(frames[t])
<1>0. TypeOK /\ HandlerAt(t, "lock") /\ mtx = NULL /\ mtx' = t
  BY DEF Inv, NotifyLock
<1>1. /\ frames' \in [Threads -> Seq(Frame)]
      /\ \A u \in Threads \ {t} : frames'[u] = frames[u]
      /\ DOMAIN frames'[t] = DOMAIN frames[t] /\ n \in DOMAIN frames[t]
      /\ \A i \in DOMAIN frames[t] \ {n} : frames'[t][i] = frames[t][i]
      /\ frames'[t][n].pc = "store"
  BY <1>0, Moved DEF NotifyLock
<1>2. UNCHANGED <<pending, cmd, wpc, running, tracker, sent, spurious>>
  BY DEF NotifyLock
<1> HIDE DEF n
<1>3. NULL \notin Threads
  BY CommandWorkerAssumption DEF Threads
<1>4. \A u \in Threads : \A i \in DOMAIN frames[u] : ~Locked(frames[u][i])
  BY <1>0, <1>3 DEF Inv, HandlerHolds
<1>5. \A u \in Threads : \A i \in DOMAIN frames'[u] : Locked(frames'[u][i]) => u = t /\ i = n
  BY <1>1, <1>4
<1>6. ~WorkLocked
  BY <1>0, <1>3 DEF Inv, WorkerHolds, Threads
<1>7. TypeOK'
  BY <1>0, <1>1, <1>2 DEF TypeOK
<1>8. HandlerHolds' /\ OneHandler' /\ WorkerHolds' /\ RunsCmd'
  BY <1>0, <1>2, <1>5, <1>6 DEF Inv, HandlerHolds, OneHandler, WorkerHolds, WorkLocked, RunsCmd
<1>9. NoLostWakeup'
  <2>1. ~(wpc = "wait" /\ cmd # 0)
    BY <1>0, <1>3 DEF Inv, NoLostWakeup
  <2> QED  BY <1>2, <2>1 DEF NoLostWakeup
<1> QED  BY <1>7, <1>8, <1>9 DEF Inv

\* A handler at a line behind the lock has the mutex, and it alone.
LEMMA Holder ==
    ASSUME Inv, NEW t \in Threads, NEW p, p # "lock", HandlerAt(t, p)
    PROVE  /\ mtx = t /\ ~WorkLocked
           /\ Len(frames[t]) \in DOMAIN frames[t] /\ frames[t][Len(frames[t])].pc = p
           /\ \A u \in Threads : \A i \in DOMAIN frames[u] :
                 Locked(frames[u][i]) => u = t /\ i = Len(frames[t])
<1>1. Len(frames[t]) \in DOMAIN frames[t] /\ frames[t][Len(frames[t])].pc = p
  BY Innermost DEF Inv
<1>2. Locked(frames[t][Len(frames[t])])
  BY <1>1 DEF Locked
<1>3. mtx = t /\ ~WorkLocked
  BY <1>1, <1>2 DEF Inv, HandlerHolds
<1>4. \A u \in Threads : \A i \in DOMAIN frames[u] : Locked(frames[u][i]) => u = t
  BY <1>3 DEF Inv, HandlerHolds
<1> QED  BY <1>1, <1>2, <1>3, <1>4 DEF Inv, OneHandler

LEMMA NotifyStoreInv == ASSUME Inv, NEW t \in Threads, NotifyStore(t) PROVE Inv'
<1> DEFINE n == Len(frames[t])
<1>0. TypeOK /\ HandlerAt(t, "store")
  BY DEF Inv, NotifyStore
<1>1. /\ frames' \in [Threads -> Seq(Frame)]
      /\ \A u \in Threads \ {t} : frames'[u] = frames[u]
      /\ DOMAIN frames'[t] = DOMAIN frames[t]
      /\ \A i \in DOMAIN frames[t] \ {n} : frames'[t][i] = frames[t][i]
      /\ frames'[t][n].pc = "signal"
  BY <1>0, Moved DEF NotifyStore
<1>2. UNCHANGED <<pending, mtx, wpc, running, tracker, sent, spurious>>
  BY DEF NotifyStore
<1>3. /\ mtx = t /\ ~WorkLocked /\ n \in DOMAIN frames[t]
      /\ \A u \in Threads : \A i \in DOMAIN frames[u] : Locked(frames[u][i]) => u = t /\ i = n
  BY <1>0, Holder
<1>4. cmd' \in Commands
  BY <1>0, Innermost DEF NotifyStore, Frame
<1> HIDE DEF n
<1>5. \A u \in Threads : \A i \in DOMAIN frames'[u] : Locked(frames'[u][i]) => u = t /\ i = n
  BY <1>1, <1>3
<1>6. TypeOK'
  BY <1>0, <1>1, <1>2, <1>4 DEF TypeOK
<1>7. HandlerHolds' /\ OneHandler' /\ WorkerHolds' /\ RunsCmd'
  BY <1>2, <1>3, <1>5 DEF Inv, HandlerHolds, OneHandler, WorkerHolds, WorkLocked, RunsCmd
<1>8. NoLostWakeup'
  BY <1>1, <1>2, <1>3 DEF NoLostWakeup
<1> QED  BY <1>6, <1>7, <1>8 DEF Inv

LEMMA NotifySignalInv == ASSUME Inv, NEW t \in Threads, NotifySignal(t) PROVE Inv'
<1> DEFINE n == Len(frames[t])
<1>0. TypeOK /\ HandlerAt(t, "signal")
  BY DEF Inv, NotifySignal
<1>1. /\ frames' \in [Threads -> Seq(Frame)]
      /\ \A u \in Threads \ {t} : frames'[u] = frames[u]
      /\ DOMAIN frames'[t] = DOMAIN frames[t]
      /\ \A i \in DOMAIN frames[t] \ {n} : frames'[t][i] = frames[t][i]
  BY <1>0, Moved DEF NotifySignal
<1>2. /\ UNCHANGED <<pending, mtx, cmd, running, tracker, sent, spurious>>
      /\ wpc' = IF wpc = "wait" THEN "wake" ELSE wpc
  BY DEF NotifySignal
<1>3. /\ mtx = t /\ ~WorkLocked /\ n \in DOMAIN frames[t]
      /\ \A u \in Threads : \A i \in DOMAIN frames[u] : Locked(frames[u][i]) => u = t /\ i = n
  BY <1>0, Holder
<1> HIDE DEF n
<1>4. \A u \in Threads : \A i \in DOMAIN frames'[u] : Locked(frames'[u][i]) => u = t /\ i = n
  BY <1>1, <1>3
<1>5. ~WorkLocked' /\ wpc' # "wait"
  BY <1>2, <1>3 DEF WorkLocked
<1>6. TypeOK'
  BY <1>0, <1>1, <1>2 DEF TypeOK
<1>7. HandlerHolds' /\ OneHandler' /\ WorkerHolds' /\ RunsCmd'
  BY <1>2, <1>3, <1>4, <1>5 DEF HandlerHolds, OneHandler, WorkerHolds, WorkLocked, RunsCmd
<1>8. NoLostWakeup'
  BY <1>5 DEF NoLostWakeup
<1> QED  BY <1>6, <1>7, <1>8 DEF Inv

LEMMA NotifyUnlockInv == ASSUME Inv, NEW t \in Threads, NotifyUnlock(t) PROVE Inv'
<1> DEFINE n == Len(frames[t])
<1>0. TypeOK /\ HandlerAt(t, "unlock")
  BY DEF Inv, NotifyUnlock
<1>1. /\ frames' \in [Threads -> Seq(Frame)]
      /\ \A u \in Threads \ {t} : frames'[u] = frames[u]
      /\ DOMAIN frames'[t] = DOMAIN frames[t] \ {n}
      /\ \A i \in DOMAIN frames'[t] : frames'[t][i] = frames[t][i]
  BY <1>0, Returned
<1>2. UNCHANGED <<pending, cmd, wpc, running, tracker, sent, spurious>> /\ mtx' = NULL
  BY DEF NotifyUnlock
<1>3. /\ mtx = t /\ ~WorkLocked /\ frames[t][n].pc = "unlock"
      /\ \A u \in Threads : \A i \in DOMAIN frames[u] : Locked(frames[u][i]) => u = t /\ i = n
  BY <1>0, Holder
<1> HIDE DEF n
<1>4. \A u \in Threads : \A i \in DOMAIN frames'[u] : ~Locked(frames'[u][i])
  BY <1>1, <1>3
<1>5. TypeOK'
  BY <1>0, <1>1, <1>2 DEF TypeOK
<1>6. HandlerHolds' /\ OneHandler' /\ WorkerHolds' /\ RunsCmd'
  BY <1>2, <1>3, <1>4 DEF HandlerHolds, OneHandler, WorkerHolds, WorkLocked, RunsCmd
<1>7. NoLostWakeup'
  <2>1. \A u \in Threads : \A i \in DOMAIN frames[u] : frames[u][i].pc # "signal"
    BY <1>3 DEF Locked
  <2>2. ~(wpc = "wait" /\ cmd # 0)
    BY <2>1 DEF Inv, NoLostWakeup
  <2> QED  BY <1>2, <2>2 DEF NoLostWakeup
<1> QED  BY <1>5, <1>6, <1>7 DEF Inv

\* The worker takes the mutex: before its loop, or as the wait returns.
LEMMA WorkTakesInv == ASSUME Inv, WorkLock \/ WorkWake PROVE Inv'
<1>1. /\ UNCHANGED <<pending, frames, cmd, running, tracker, sent, spurious>>
      /\ mtx = NULL /\ mtx' = Worker /\ wpc' \in {"test", "switch"}
  BY DEF WorkLock, WorkWake
<1>2. \A t \in Threads : \A i \in DOMAIN frames[t] : ~Locked(frames[t][i])
  BY <1>1, CommandWorkerAssumption DEF Inv, HandlerHolds, Threads
<1>3. TypeOK'
  BY <1>1 DEF Inv, TypeOK, Threads
<1>4. HandlerHolds' /\ OneHandler' /\ WorkerHolds' /\ RunsCmd' /\ NoLostWakeup'
  BY <1>1, <1>2 DEF HandlerHolds, OneHandler, WorkerHolds, RunsCmd, NoLostWakeup
<1> QED  BY <1>3, <1>4 DEF Inv

\* The worker goes to sleep only when there is no command.
LEMMA WorkWaitInv == ASSUME Inv, WorkWait PROVE Inv'
<1>1. /\ UNCHANGED <<pending, frames, cmd, running, tracker, sent, spurious>>
      /\ cmd = 0 /\ mtx' = NULL /\ wpc = "test" /\ wpc' = "wait"
  BY DEF WorkWait, WorkAt
<1>2. \A t \in Threads : \A i \in DOMAIN frames[t] : ~Locked(frames[t][i])
  BY <1>1 DEF Inv, HandlerHolds, WorkLocked
<1>3. TypeOK'
  BY <1>1 DEF Inv, TypeOK
<1>4. HandlerHolds' /\ OneHandler' /\ WorkerHolds' /\ RunsCmd' /\ NoLostWakeup'
  BY <1>1, <1>2 DEF HandlerHolds, OneHandler, WorkerHolds, WorkLocked, RunsCmd, NoLostWakeup
<1> QED  BY <1>3, <1>4 DEF Inv

\* The steps inside the critical section of the worker.
LEMMA WorkInsideInv ==
    ASSUME Inv, WorkNoWait \/ WorkSwitch \/ WorkRun \/ WorkRan \/ WorkClear
    PROVE  Inv'
<1>1. UNCHANGED <<pending, frames, mtx, sent, spurious>>
  BY DEF WorkNoWait, WorkSwitch, WorkRun, WorkRan, WorkClear
<1>2. WorkLocked /\ WorkLocked' /\ wpc' # "wait"
  BY DEF WorkNoWait, WorkSwitch, WorkRun, WorkRan, WorkClear, WorkAt, WorkLocked
<1>3. TypeOK'
  BY <1>1 DEF Inv, TypeOK, Threads, WorkNoWait, WorkSwitch, WorkRun, WorkRan, WorkClear
<1>4. HandlerHolds' /\ OneHandler' /\ WorkerHolds' /\ NoLostWakeup'
  BY <1>1, <1>2 DEF Inv, HandlerHolds, OneHandler, WorkerHolds, NoLostWakeup
<1>5. RunsCmd'
  BY DEF Inv, RunsCmd, WorkNoWait, WorkSwitch, WorkRun, WorkRan, WorkClear, WorkAt
<1> QED  BY <1>3, <1>4, <1>5 DEF Inv

LEMMA WorkSpuriousInv == ASSUME Inv, WorkSpurious PROVE Inv'
<1>1. /\ UNCHANGED <<pending, frames, mtx, cmd, running, tracker, sent>>
      /\ ~WorkLocked' /\ wpc' = "wake"
  BY DEF WorkSpurious, WorkLocked
<1>2. TypeOK'
  BY <1>1, CommandWorkerAssumption DEF Inv, TypeOK, WorkSpurious
<1>3. HandlerHolds' /\ OneHandler' /\ WorkerHolds' /\ RunsCmd' /\ NoLostWakeup'
  BY <1>1 DEF Inv, HandlerHolds, OneHandler, WorkerHolds, RunsCmd, NoLostWakeup
<1> QED  BY <1>2, <1>3 DEF Inv

LEMMA AppInv == ASSUME Inv, NEW t \in Apps, AppLock(t) \/ AppUnlock(t) PROVE Inv'
<1>1. UNCHANGED <<pending, frames, mtx, cmd, wpc, running, sent, spurious>>
  BY DEF AppLock, AppUnlock
<1>2. TypeOK'
  BY <1>1 DEF Inv, TypeOK, Threads, AppLock, AppUnlock
<1>3. HandlerHolds' /\ OneHandler' /\ WorkerHolds' /\ RunsCmd' /\ NoLostWakeup'
  BY <1>1 DEF Inv, HandlerHolds, OneHandler, WorkerHolds, WorkLocked, RunsCmd, NoLostWakeup
<1> QED  BY <1>2, <1>3 DEF Inv

LEMMA StepInv == Inv /\ [Next]_vars => Inv'
<1> SUFFICES ASSUME Inv, [Next]_vars PROVE Inv'
  OBVIOUS
<1>1. CASE \E c \in Commands : Send(c)
  BY <1>1, SendInv
<1>2. CASE \E t \in Threads, c \in Commands : Deliver(t, c)
  BY <1>2, DeliverInv
<1>3. CASE \E t \in Threads : Notify(t)
  <2>1. PICK t \in Threads : Notify(t)
    BY <1>3
  <2> QED
    BY <2>1, NotifyLockInv, NotifyStoreInv, NotifySignalInv, NotifyUnlockInv DEF Notify
<1>4. CASE Work
  BY <1>4, WorkTakesInv, WorkWaitInv, WorkInsideInv DEF Work
<1>5. CASE WorkSpurious
  BY <1>5, WorkSpuriousInv
<1>6. CASE \E t \in Apps : AppLock(t) \/ AppUnlock(t)
  BY <1>6, AppInv
<1>7. CASE UNCHANGED vars
  BY <1>7 DEF vars, Inv, TypeOK, HandlerHolds, OneHandler, WorkerHolds, WorkLocked, RunsCmd, NoLostWakeup
<1> QED  BY <1>1, <1>2, <1>3, <1>4, <1>5, <1>6, <1>7 DEF Next

LEMMA AlwaysInv == Spec => []Inv
  BY InitInv, StepInv, PTL DEF Spec

-----------------------------------------------------------------------------
(* Theorems *)

\* The types of the command mailbox, its worker and the handlers
\* (memchk_signal.c:19-21).
THEOREM TypeCorrect == Spec => []TypeOK
<1>1. Inv => TypeOK
  BY DEF Inv
<1> QED  BY <1>1, AlwaysInv, PTL

\* pthread_cond_signal (memchk_signal.c:95) always reaches a worker that sleeps
\* over a command.
THEOREM WakeupNeverLost == Spec => []NoLostWakeup
<1>1. Inv => NoLostWakeup
  BY DEF Inv
<1> QED  BY <1>1, AlwaysInv, PTL

\* "__cmd = 0" (memchk_signal.c:85) erases what was run and nothing newer: only
\* WorkClear stores 0, and nobody stored since the switch.
THEOREM OnlyRunIsErased == Spec => NotErased
<1>1. ASSUME Inv, [Next]_vars, cmd # 0, cmd' = 0 PROVE running = cmd
  <2>1. CASE \E t \in Threads : Notify(t)
    <3>1. PICK t \in Threads : Notify(t)
      BY <2>1
    <3>2. NotifyStore(t)
      BY <1>1, <3>1 DEF Notify, NotifyLock, NotifySignal, NotifyUnlock
    <3>3. Last(frames[t]).cmd \in Commands
      <4>1. TypeOK /\ HandlerAt(t, "store")
        BY <1>1, <3>2 DEF Inv, NotifyStore
      <4>2. Last(frames[t]) \in Frame
        BY <4>1, Innermost
      <4> QED  BY <4>2 DEF Frame
    <3> QED  BY <1>1, <3>2, <3>3, CommandWorkerAssumption DEF NotifyStore
  <2>2. CASE Work
    <3>1. WorkClear
      BY <1>1, <2>2 DEF Work, WorkLock, WorkWait, WorkNoWait, WorkWake, WorkSwitch, WorkRun, WorkRan
    <3> QED  BY <1>1, <3>1 DEF WorkClear, WorkAt, Inv, RunsCmd
  <2>3. CASE ~Work /\ ~(\E t \in Threads : Notify(t))
    BY <1>1, <2>3 DEF Next, vars, Send, Deliver, WorkSpurious, AppLock, AppUnlock
  <2> QED  BY <2>1, <2>2, <2>3
<1>2. Inv /\ [Next]_vars => [cmd # 0 /\ cmd' = 0 => running = cmd]_vars
  BY <1>1
<1> QED  BY <1>2, AlwaysInv, PTL DEF Spec, NotErased

\* A handler that waits for the lock goes on waiting while somebody has it:
\* its thread does nothing else, and a nested handler waits in its place.
LEMMA StillWaits ==
    ASSUME Inv, [Next]_vars, NEW t \in Threads, HandlerAt(t, "lock"), mtx # NULL
    PROVE  HandlerAt(t, "lock")'
<1>0. TypeOK /\ frames \in [Threads -> Seq(Frame)]
  BY DEF Inv, TypeOK
<1>1. ASSUME frames'[t] = frames[t] PROVE HandlerAt(t, "lock")'
  BY <1>1 DEF HandlerAt, InHandler, Last
<1>2. CASE \E u \in Threads, c \in Commands : Deliver(u, c)
  <2>1. PICK u \in Threads, c \in Commands : Deliver(u, c)
    BY <1>2
  <2>2. CASE u = t
    <3> DEFINE f == [cmd |-> c, pc |-> "lock"]
    <3>1. f \in Frame /\ f.pc = "lock"
      BY DEF Frame
    <3>2. frames' = [frames EXCEPT ![t] = Append(@, f)]
      BY <2>1, <2>2 DEF Deliver
    <3> HIDE DEF f
    <3>3. Len(frames'[t]) = Len(frames[t]) + 1
      BY <1>0, <3>1, <3>2, Push
    <3>4. frames'[t][Len(frames'[t])] = f
      BY <1>0, <3>1, <3>2, Push
    <3>5. frames'[t] # <<>>
      BY <1>0, <3>3
    <3> QED  BY <3>1, <3>4, <3>5 DEF HandlerAt, InHandler, Last
  <2>3. CASE u # t
    BY <1>0, <1>1, <2>1, <2>3 DEF Deliver
  <2> QED  BY <2>2, <2>3
<1>3. CASE \E u \in Threads : Notify(u)
  <2>1. PICK u \in Threads : Notify(u)
    BY <1>3
  <2>2. \E p \in {"store", "signal", "unlock"} : HandlerAt(u, p)
    BY <2>1 DEF Notify, NotifyLock, NotifyStore, NotifySignal, NotifyUnlock
  <2>3. u # t
    BY <2>2 DEF HandlerAt
  <2>4. frames'[t] = frames[t]
    BY <1>0, <2>1, <2>3 DEF Notify, NotifyLock, NotifyStore, NotifySignal, NotifyUnlock, HandlerTo
  <2> QED  BY <1>1, <2>4
<1>4. CASE UNCHANGED frames
  BY <1>1, <1>4
<1> QED
  BY <1>2, <1>3, <1>4
     DEF Next, vars, Send, Work, WorkLock, WorkWait, WorkNoWait, WorkWake, WorkSwitch, WorkRun,
         WorkRan, WorkClear, WorkSpurious, AppLock, AppUnlock

\* Only the thread that has the mutex changes it, from behind the lock.
LEMMA OnlyHolderReleases ==
    ASSUME Inv, [Next]_vars, NEW t \in Threads, mtx = t, HandlerAt(t, "lock")
    PROVE  mtx' = t
<1>1. NULL \notin Threads
  BY CommandWorkerAssumption DEF Threads
<1>2. CASE \E u \in Threads : Notify(u)
  <2>1. PICK u \in Threads : Notify(u)
    BY <1>2
  <2>2. ~NotifyUnlock(u)
    <3> SUFFICES ASSUME NotifyUnlock(u) PROVE FALSE
      OBVIOUS
    <3>1. HandlerAt(u, "unlock")
      BY DEF NotifyUnlock
    <3>2. u = t
      BY <3>1, Holder
    <3> QED  BY <3>1, <3>2 DEF HandlerAt
  <2> QED  BY <1>1, <2>1, <2>2 DEF Notify, NotifyLock, NotifyStore, NotifySignal
<1>3. CASE WorkWait
  <2>1. mtx = Worker /\ ~InHandler(Worker)
    BY <1>3 DEF Inv, WorkerHolds, WorkLocked, WorkWait, WorkAt
  <2> QED  BY <2>1 DEF HandlerAt
<1> QED
  BY <1>1, <1>2, <1>3
     DEF Next, vars, Send, Deliver, Work, WorkLock, WorkNoWait, WorkWake, WorkSwitch, WorkRun,
         WorkRan, WorkClear, WorkSpurious, AppLock, AppUnlock

\* Neither deadlock resolves: the lock at memchk_signal.c:93 is then waited for
\* for ever, and the command mutex is never free again.
THEOREM DeadlocksStay == Spec => StuckForever
<1>1. ASSUME Inv, [Next]_vars, HoldsWhatItWaitsFor PROVE HoldsWhatItWaitsFor'
  <2>1. PICK t \in Threads : mtx = t /\ HandlerAt(t, "lock")
    BY <1>1 DEF HoldsWhatItWaitsFor
  <2>2. mtx # NULL
    BY <2>1, CommandWorkerAssumption DEF Threads
  <2>3. mtx' = t /\ HandlerAt(t, "lock")'
    BY <1>1, <2>1, <2>2, StillWaits, OnlyHolderReleases
  <2> QED  BY <2>3 DEF HoldsWhatItWaitsFor
<1>2. ASSUME Inv, [Next]_vars, WorkerAndThreadWait PROVE WorkerAndThreadWait'
  <2>1. PICK t \in Apps : tracker = t /\ HandlerAt(t, "lock")
    BY <1>2 DEF WorkerAndThreadWait
  <2>2. t \in Threads /\ t # NULL /\ Worker # NULL /\ t # Worker
    BY CommandWorkerAssumption DEF Threads
  <2>3. mtx = Worker /\ wpc = "run" /\ WorkLocked
    BY <1>2 DEF WorkerAndThreadWait, WorkLocked
  <2>4. HandlerAt(t, "lock")'
    BY <1>2, <2>1, <2>2, <2>3, StillWaits
  <2>5. ASSUME NEW u \in Threads, Notify(u) PROVE FALSE
    <3>1. \A p \in {"store", "signal", "unlock"} : ~HandlerAt(u, p)
      BY <1>2, <2>3, Holder
    <3> QED
      BY <2>2, <2>3, <2>5, <3>1 DEF Notify, NotifyLock, NotifyStore, NotifySignal, NotifyUnlock
  <2>6. ASSUME NEW u \in Apps, AppUnlock(u) PROVE FALSE
    BY <2>1, <2>6 DEF AppUnlock, HandlerAt
  <2>7. mtx' = Worker /\ wpc' = "run" /\ tracker' = t
    BY <1>2, <2>1, <2>2, <2>3, <2>5, <2>6
       DEF Next, vars, Send, Deliver, Work, WorkAt, WorkLock, WorkWait, WorkNoWait, WorkWake, WorkSwitch,
           WorkRun, WorkRan, WorkClear, WorkSpurious, AppLock
  <2> QED  BY <2>4, <2>7 DEF WorkerAndThreadWait
<1>3. Inv /\ [Next]_vars => [Stuck => Stuck']_vars
  BY <1>1, <1>2 DEF Stuck
<1> QED  BY <1>3, AlwaysInv, PTL DEF Spec, StuckForever
=============================================================================
