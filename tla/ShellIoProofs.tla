---------------------------- MODULE ShellIoProofs ----------------------------
(***************************************************************************)
(* The executor is safe for every set of tasks and queue capacity; with    *)
(* the shell as its task no wake-up is lost, and the run queue's backlog   *)
(* is bounded by the burst of keyboard interrupts, for every pipeline      *)
(* length and every argument of sleep.                                     *)
(***************************************************************************)
EXTENDS ShellIo, TLAPS

-----------------------------------------------------------------------------
(* The executor, for any tasks.                                            *)

(* What each place of the processor implies: interrupts are off only       *)
(* between interrupts::disable() and the instruction that ends             *)
(* sleep_if_idle, and only a poll has a current task.                      *)
PlaceInv ==
  /\ cpu \in {"check", "idle"} => ~iflag
  /\ cpu = "idle" => task_queue = << >>
  /\ cpu = "poll" => current \in tasks

ExecInv == ExecTypeOK /\ PlaceInv /\ HaltOnlyWhenIdle /\ CacheOnlyLiveTasks

(* What the operations of a bounded queue do to it. *)
LEMMA TailFacts ==
  ASSUME NEW S, NEW q \in Seq(S), q # << >>
  PROVE  /\ Tail(q) \in Seq(S) /\ Head(q) \in S
         /\ Len(q) \in Nat /\ Len(q) > 0 /\ Len(Tail(q)) = Len(q) - 1
  OBVIOUS

(* The same for a push. *)
LEMMA AppendFacts ==
  ASSUME NEW S, NEW q \in Seq(S), NEW e \in S
  PROVE  /\ Append(q, e) \in Seq(S) /\ Append(q, e) # << >>
         /\ Len(q) \in Nat /\ Len(Append(q, e)) = Len(q) + 1
  OBVIOUS

(* Pushing keeps the run queue within its capacity. *)
LEMMA PushKeepsType ==
  ASSUME NEW t \in Tasks, NEW next \in CpuState, ExecTypeOK, PushOrPanic(t, next)
  PROVE  /\ task_queue' \in Seq(Tasks)
         /\ Len(task_queue') <= TaskQueueCap
         /\ cpu' \in {next, "panic"}
  BY TaskQueueCapAssumption DEF PushOrPanic, ExecTypeOK, CpuState

(* Popping keeps it too. *)
LEMMA PopKeepsType ==
  ASSUME ExecTypeOK, task_queue # << >>, task_queue' = Tail(task_queue)
  PROVE  /\ task_queue' \in Seq(Tasks)
         /\ Len(task_queue') <= TaskQueueCap
         /\ Head(task_queue) \in Tasks
  BY TaskQueueCapAssumption DEF ExecTypeOK

(* One step of the executor preserves its inductive invariant. *)
LEMMA ExecStep == ExecInv /\ [ExecNext]_execVars => ExecInv'
<1> SUFFICES ASSUME ExecInv, [ExecNext]_execVars PROVE ExecInv'
  OBVIOUS
<1> USE DEF ExecInv, PlaceInv, HaltOnlyWhenIdle, CacheOnlyLiveTasks
<1>1. ASSUME NEW t \in Tasks, Spawn(t) PROVE ExecInv'
  <2>1. "boot" \in CpuState
    BY DEF CpuState
  <2>2. /\ task_queue' \in Seq(Tasks) /\ Len(task_queue') <= TaskQueueCap
        /\ cpu' \in {"boot", "panic"}
    BY <1>1, <2>1, PushKeepsType DEF Spawn
  <2> QED
    BY <1>1, <2>2 DEF Spawn, ExecTypeOK, CpuState
<1>2. ASSUME NEW t \in Tasks, PollWakes(t) PROVE ExecInv'
  <2>1. "poll" \in CpuState
    BY DEF CpuState
  <2>2. /\ task_queue' \in Seq(Tasks) /\ Len(task_queue') <= TaskQueueCap
        /\ cpu' \in {"poll", "panic"}
    BY <1>2, <2>1, PushKeepsType DEF PollWakes
  <2> QED
    BY <1>2, <2>2 DEF PollWakes, ExecTypeOK, CpuState
<1>3. ASSUME NEW t \in Tasks, InterruptWakes(t) PROVE ExecInv'
  <2>1. AfterInterrupt \in CpuState
    BY DEF AfterInterrupt, CpuState, ExecTypeOK
  <2>2. /\ task_queue' \in Seq(Tasks) /\ Len(task_queue') <= TaskQueueCap
        /\ cpu' \in {AfterInterrupt, "panic"}
    BY <1>3, <2>1, PushKeepsType DEF InterruptWakes
  <2> QED
    BY <1>3, <2>2 DEF InterruptWakes, Interruptible, AfterInterrupt, ExecTypeOK, CpuState
<1>4. ASSUME InterruptWakesNone PROVE ExecInv'
  BY <1>4 DEF InterruptWakesNone, Interruptible, AfterInterrupt, ExecTypeOK, CpuState
<1>5. ASSUME PopLive PROVE ExecInv'
  BY <1>5, PopKeepsType DEF PopLive, ExecTypeOK, CpuState
<1>6. ASSUME PopFinished PROVE ExecInv'
  BY <1>6, PopKeepsType DEF PopFinished, ExecTypeOK, CpuState
<1>7. ASSUME Run PROVE ExecInv'
  BY <1>7 DEF Run, ExecTypeOK, CpuState
<1>8. ASSUME PollEnds PROVE ExecInv'
  BY <1>8 DEF PollEnds, PollReady, PollPending, ExecTypeOK, CpuState
<1>9. ASSUME Idle PROVE ExecInv'
  <2> USE DEF ExecTypeOK, CpuState
  <2>1. CASE PopNone
    BY <2>1 DEF PopNone
  <2>2. CASE DisableInterrupts
    BY <2>2 DEF DisableInterrupts
  <2>3. CASE FoundEmpty
    BY <2>3 DEF FoundEmpty
  <2>4. CASE EnableAndHlt
    BY <2>4 DEF EnableAndHlt
  <2>5. CASE EnableInterrupts
    BY <2>5 DEF EnableInterrupts
  <2> QED
    BY <1>9, <2>1, <2>2, <2>3, <2>4, <2>5 DEF Idle
<1>10. ASSUME PanicLoop \/ UNCHANGED execVars PROVE ExecInv'
  BY <1>10 DEF PanicLoop, execVars, ExecTypeOK
<1> QED
  BY <1>1, <1>2, <1>3, <1>4, <1>5, <1>6, <1>7, <1>8, <1>9, <1>10
     DEF ExecNext, CpuStep

(* The executor that Executor::new makes satisfies it. *)
LEMMA ExecStart == ExecInit => ExecInv
  BY TaskQueueCapAssumption
     DEF ExecInit, ExecInv, ExecTypeOK, PlaceInv, HaltOnlyWhenIdle,
         CacheOnlyLiveTasks, CpuState

(* The inductive invariant holds throughout. *)
THEOREM ExecInvariance == ExecSpec => []ExecInv
<1>1. QED
  BY ExecStart, ExecStep, PTL DEF ExecSpec

(* Type correctness: the queue never exceeds its capacity, since a push    *)
(* onto a full one panics instead.                                         *)
THEOREM ExecTyping == ExecSpec => []ExecTypeOK
<1>1. ExecInv => ExecTypeOK
  BY DEF ExecInv
<1> QED
  BY <1>1, ExecInvariance, PTL

(* sleep_if_idle never halts the processor over queued work, for any       *)
(* number of tasks and any interrupts.                                     *)
THEOREM ExecHaltOnlyWhenIdle == ExecSpec => []HaltOnlyWhenIdle
<1>1. ExecInv => HaltOnlyWhenIdle
  BY DEF ExecInv
<1> QED
  BY <1>1, ExecInvariance, PTL

(* The waker cache names live tasks only. *)
THEOREM ExecCacheOnlyLiveTasks == ExecSpec => []CacheOnlyLiveTasks
<1>1. ExecInv => CacheOnlyLiveTasks
  BY DEF ExecInv
<1> QED
  BY <1>1, ExecInvariance, PTL

-----------------------------------------------------------------------------
(* A push leaves every entry where it was. *)
LEMMA PushKeepsEntries ==
  ASSUME NEW t, NEW next, ExecTypeOK, PushOrPanic(t, next)
  PROVE  Queued \subseteq Queued'
<1>1. SUFFICES ASSUME NEW i \in DOMAIN task_queue
               PROVE  i \in DOMAIN task_queue' /\ task_queue'[i] = task_queue[i]
  BY Zenon DEF Queued
<1> QED
  BY DEF PushOrPanic, ExecTypeOK

(* A pop takes out the head and nothing else. *)
LEMMA PopTakesHead ==
  ASSUME ExecTypeOK, task_queue # << >>, task_queue' = Tail(task_queue),
         NEW t \in Queued, t # Head(task_queue)
  PROVE  t \in Queued'
<1>1. PICK i \in DOMAIN task_queue : t = task_queue[i]
  BY DEF Queued
<1>2. i \in 2 .. Len(task_queue)
  BY <1>1 DEF ExecTypeOK
<1>3. i - 1 \in DOMAIN Tail(task_queue) /\ Tail(task_queue)[i - 1] = task_queue[i]
  BY <1>2 DEF ExecTypeOK
<1> QED
  BY <1>1, <1>3 DEF Queued

(* Work is lost only by panicking: no step takes a live task's last entry  *)
(* out of the run queue but the one that starts to poll that task.         *)
THEOREM ExecNoEntryDropped == ExecSpec => NoEntryDropped
<1>1. ASSUME ExecInv, [ExecNext]_execVars,
             NEW t \in tasks, t \in Queued, t \notin Queued'
      PROVE  current' = t
  <2>1. ExecTypeOK
    BY <1>1 DEF ExecInv
  <2>2. \/ task_queue' = task_queue
        \/ \E u \in Tasks, next \in {"boot", "poll", AfterInterrupt} : PushOrPanic(u, next)
        \/ PopLive
        \/ PopFinished
    BY <1>1 DEF ExecNext, Spawn, PollWakes, InterruptWakes, CpuStep, Run, PollEnds,
                PollReady, PollPending, Idle, PopNone, DisableInterrupts, FoundEmpty,
                EnableAndHlt, EnableInterrupts, InterruptWakesNone, PanicLoop, execVars
  <2>3. CASE task_queue' = task_queue
    BY <1>1, <2>3 DEF Queued
  <2>4. CASE \E u \in Tasks, next \in {"boot", "poll", AfterInterrupt} : PushOrPanic(u, next)
    BY <1>1, <2>1, <2>4, PushKeepsEntries
  <2>5. CASE PopLive \/ PopFinished
    <3>1. task_queue # << >> /\ task_queue' = Tail(task_queue)
      BY <2>5 DEF PopLive, PopFinished
    <3>2. t = Head(task_queue)
      BY <1>1, <2>1, <3>1, PopTakesHead
    <3> QED
      BY <1>1, <2>5, <3>2 DEF PopLive, PopFinished
  <2> QED
    BY <2>2, <2>3, <2>4, <2>5
<1>2. ExecInv /\ [ExecNext]_execVars
        => [\A t \in tasks : (t \in Queued /\ t \notin Queued') => current' = t]_execVars
  BY <1>1
<1> QED
  BY <1>2, ExecInvariance, PTL DEF ExecSpec, NoEntryDropped

-----------------------------------------------------------------------------
(* The shell on the executor.                                              *)

(* Where the shell can be when the processor is somewhere. *)
PlacesInv ==
  /\ cpu = "boot" => /\ sh = "start"
                     /\ tasks = {} => task_queue = << >>
                     /\ tasks # {} => task_queue # << >>
                     /\ \A s \in Source : wakers[s].waker = NoWaker
  /\ cpu \notin {"boot", "panic"} => tasks = {Shell}
  /\ cpu \in {"check", "idle"} => ~iflag
  /\ cpu = "idle" => task_queue = << >>
  /\ cpu = "poll" => current = Shell
  /\ cpu \notin {"poll", "panic"} => sh \in {"start", "fast", "sleep"} /\ reg = "no"
  /\ reg # "no" => sh \in {"register", "arm"}
  /\ cpu = "hlt" => task_queue = << >>

(* What a registration in progress implies of its cell: the interrupted    *)
(* processor has a cell locked only inside register and take.              *)
RegisteringCell(w) ==
  CASE reg = "publish" -> w.state \in {"registering", "registering_waking"}
                          /\ w.waker = Shell
    [] reg = "release" -> w.state = "registering_waking" /\ w.waker = NoWaker
    [] OTHER           -> w.state = "waiting"

CellsInv ==
  /\ sh = "register" => RegisteringCell(wakers["keyboard"])
  /\ sh = "taken" => wakers["keyboard"].state = "waking"
  /\ sh \notin {"register", "taken"} => wakers["keyboard"].state = "waiting"
  /\ sh = "arm" => RegisteringCell(wakers["timer"])
  /\ sh # "arm" => wakers["timer"].state = "waiting"

(* The strengthening of NoLostWakeup: the promise is in force from the     *)
(* moment register returns, inside the poll.                               *)
Awaited(s) == task_queue # << >> \/ Holds(s)

WakeupInv ==
  /\ cpu # "panic" /\ sh = "recheck" => Awaited("keyboard")
  /\ cpu # "panic" /\ sh = "armed" => Awaited("timer")
  /\ Suspended /\ sh = "start" => task_queue # << >>
  /\ Suspended /\ sh = "fast" =>
       task_queue # << >> \/ (scanq = << >> /\ Holds("keyboard"))
  /\ Suspended /\ sh = "sleep" => Awaited("timer")

(* Every run queue entry is paid for: entries, armed wakers, the poll in   *)
(* progress that has not registered yet, and the scancodes that arrived    *)
(* between the two pops of poll_next, add up to at most burst + 2.         *)
Slot(s) == IF wakers[s].waker = Shell THEN 1 ELSE 0

Owed == IF /\ cpu = "poll"
           /\ sh \notin {"recheck", "armed"}
           /\ reg # "publish" THEN 1 ELSE 0

Raced == IF sh \in {"register", "recheck"} THEN Len(scanq) ELSE 0

BacklogInv ==
  Len(task_queue) + Slot("keyboard") + Slot("timer") + Owed + Raced <= burst + 2

ShellInv == ShellTypeOK /\ PlacesInv /\ CellsInv /\ WakeupInv /\ BacklogInv

-----------------------------------------------------------------------------
(* A step of the shell inside its poll that touches no waker cell. *)
LEMMA QuietStep ==
  ASSUME ShellInv,
         \/ ShellStarts \/ FastPop \/ FastEmpty \/ RecheckPop
         \/ KeyOther \/ KeyEnter \/ CommandRuns \/ CommandsDone
         \/ SleepReady \/ SleepNotYet
  PROVE  ShellInv'
<1> USE ShellAssumption, NoWakerAssumption, NoTaskAssumption, MaxCmdsAssumption,
        ScancodeQueueCapAssumption
<1> USE DEF ShellInv, InPoll, execVars, clock
<1>1. ShellTypeOK'
  <2>1. CASE FastPop \/ RecheckPop
    <3>1. scanq \in Seq(Scancode) /\ scanq # << >> /\ scanq' = Tail(scanq)
          /\ inhand' = Head(scanq) /\ Len(scanq) <= ScancodeQueueCap
      BY <2>1 DEF ShellTypeOK, FastPop, RecheckPop
    <3>2. scanq' \in Seq(Scancode) /\ Len(scanq') <= ScancodeQueueCap
          /\ inhand' \in Scancode
      BY <3>1, TailFacts
    <3> QED
      BY <2>1, <3>2 DEF ShellTypeOK, ExecTypeOK, ShellState, FastPop, RecheckPop
  <2>2. CASE KeyEnter \/ CommandRuns
    <3>1. cmds' \in Nat
      BY <2>2 DEF ShellTypeOK, KeyEnter, CommandRuns
    <3> QED
      BY <2>2, <3>1 DEF ShellTypeOK, ExecTypeOK, ShellState, KeyEnter, CommandRuns
  <2>3. CASE KeyOther \/ ShellStarts \/ FastEmpty \/ CommandsDone
             \/ SleepReady \/ SleepNotYet
    BY <2>3 DEF ShellTypeOK, ExecTypeOK, ShellState, ShellStarts,
       FastEmpty, KeyOther, CommandsDone, SleepReady, SleepNotYet
  <2> QED
    BY <2>1, <2>2, <2>3
<1>2. PlacesInv'
  BY DEF PlacesInv, ShellStarts,
     FastPop, FastEmpty, RecheckPop, KeyOther, KeyEnter, CommandRuns,
     CommandsDone, SleepReady, SleepNotYet
<1>3. CellsInv'
  BY DEF CellsInv, RegisteringCell, ShellStarts,
     FastPop, FastEmpty, RecheckPop, KeyOther, KeyEnter, CommandRuns,
     CommandsDone, SleepReady, SleepNotYet
<1>4. WakeupInv'
  BY DEF WakeupInv, Suspended, ShellStarts,
     FastPop, FastEmpty, RecheckPop, KeyOther, KeyEnter, CommandRuns,
     CommandsDone, SleepReady, SleepNotYet
<1>5. BacklogInv'
  <2> USE DEF BacklogInv, Slot, Owed, Raced
  <2>1. Len(task_queue) \in Nat /\ Len(scanq) \in Nat /\ burst \in Nat
    BY DEF ShellTypeOK, ExecTypeOK
  <2>2. CASE FastPop
    BY <2>1, <2>2 DEF FastPop
  <2>3. CASE RecheckPop
    <3>1. Len(scanq) > 0
      BY <2>3, TailFacts DEF RecheckPop, ShellTypeOK
    <3>2. /\ sh = "recheck" /\ sh' = "take"
          /\ UNCHANGED <<cpu, reg, task_queue, wakers, burst>>
      BY <2>3 DEF RecheckPop
    <3>3. /\ Owed = 0 /\ Owed' \in {0, 1} /\ Raced = Len(scanq) /\ Raced' = 0
          /\ Slot("keyboard") \in {0, 1} /\ Slot("timer") \in {0, 1}
          /\ Slot("keyboard")' = Slot("keyboard") /\ Slot("timer")' = Slot("timer")
      BY <3>2
    <3> HIDE DEF Slot, Owed, Raced
    <3> QED
      BY <2>1, <3>1, <3>2, <3>3
  <2>4. CASE FastEmpty
    BY <2>1, <2>4 DEF FastEmpty
  <2>5. CASE ~(FastPop \/ RecheckPop \/ FastEmpty)
    BY <2>1, <2>5 DEF ShellStarts, KeyOther, KeyEnter, CommandRuns, CommandsDone,
       SleepReady, SleepNotYet
  <2> QED
    BY <2>2, <2>3, <2>4, <2>5
<1> QED
  BY <1>1, <1>2, <1>3, <1>4, <1>5

(* Sleep::new: also when now + n wraps around. *)
LEMMA SleepNewStep ==
  ASSUME ShellInv, NEW n \in SleepArgs, SleepNew(n)
  PROVE  ShellInv'
<1> USE DEF ShellInv, SleepNew, InPoll, execVars
<1>1. ShellTypeOK'
  <2>1. n \in Nat /\ ticks \in Nat /\ cmds \in Nat
    BY SleepArgsAssumption DEF ShellTypeOK
  <2>2. target' \in Nat /\ cmds' \in Nat
    BY <2>1, TickModulusAssumption
  <2> QED
    BY <2>2 DEF ShellTypeOK, ExecTypeOK, ShellState
<1>2. PlacesInv'
  BY DEF PlacesInv
<1>3. CellsInv'
  BY DEF CellsInv, RegisteringCell
<1>4. WakeupInv'
  BY DEF WakeupInv, Suspended
<1>5. BacklogInv'
  BY DEF BacklogInv, Slot, Owed, Raced, ShellTypeOK, ExecTypeOK
<1> QED
  BY <1>1, <1>2, <1>3, <1>4, <1>5

-----------------------------------------------------------------------------
(* The steps of AtomicWaker::register and take. *)
LEMMA RegisterBeginsStep ==
  ASSUME ShellInv, NEW s \in Source, RegisterBegins(s)
  PROVE  ShellInv'
<1> USE ShellAssumption, NoWakerAssumption
<1> USE DEF ShellInv, RegisterBegins, Registering, CanRegister, BeginRegister,
            execVars, clock, Source
<1>1. /\ wakers \in [Source -> WakerCell(Tasks)] /\ cpu = "poll" /\ current = Shell
      /\ reg = "no" /\ reg' = "publish"
      /\ wakers' = [wakers EXCEPT ![s] = [state |-> "registering", waker |-> Shell]]
      /\ sh = IF s = "keyboard" THEN "register" ELSE "arm"
      /\ UNCHANGED <<cpu, sh, task_queue, scanq, burst>>
  BY DEF ShellTypeOK, PlacesInv
<1>2. ShellTypeOK'
  <2>1. wakers' \in [Source -> WakerCell(Tasks)]
    BY <1>1 DEF WakerCell, WakerState
  <2> QED
    BY <2>1 DEF ShellTypeOK, ExecTypeOK, RegState
<1>3. PlacesInv'
  BY <1>1 DEF PlacesInv
<1>4. CellsInv'
  BY <1>1 DEF CellsInv, RegisteringCell
<1>5. WakeupInv'
  BY <1>1 DEF WakeupInv, Suspended
<1>6. BacklogInv'
  <2>1. /\ Owed = 1 /\ Owed' = 0 /\ Raced' = Raced /\ Raced \in Nat
        /\ Slot("keyboard") \in {0, 1} /\ Slot("timer") \in {0, 1}
        /\ Slot(s)' = 1 /\ \A r \in Source \ {s} : Slot(r)' = Slot(r)
    BY <1>1 DEF Owed, Raced, Slot, ShellTypeOK
  <2>2. Len(task_queue) \in Nat /\ burst \in Nat
    BY DEF ShellTypeOK, ExecTypeOK
  <2> QED
    BY <1>1, <2>1, <2>2 DEF BacklogInv
<1> QED
  BY <1>2, <1>3, <1>4, <1>5, <1>6

(* The second atomic step of register: release the cell, or take the waker back. *)
LEMMA RegisterPublishesStep ==
  ASSUME ShellInv, NEW s \in Source, RegisterPublishes(s)
  PROVE  ShellInv'
<1> USE ShellAssumption, NoWakerAssumption
<1> USE DEF ShellInv, RegisterPublishes, Registering, RegisterReturns, Undisturbed,
            EndRegister, TakeBack, execVars, clock, Source
<1>1. /\ wakers \in [Source -> WakerCell(Tasks)] /\ cpu = "poll"
      /\ reg = "publish" /\ wakers[s].waker = Shell
      /\ wakers[s].state \in {"registering", "registering_waking"}
      /\ sh = IF s = "keyboard" THEN "register" ELSE "arm"
      /\ UNCHANGED <<cpu, task_queue, scanq, burst>>
  BY DEF ShellTypeOK, CellsInv, RegisteringCell
<1>2. CASE Undisturbed(wakers[s])
  <2>1. /\ reg' = "no" /\ sh' = IF s = "keyboard" THEN "recheck" ELSE "armed"
        /\ wakers' = [wakers EXCEPT ![s] = [state |-> "waiting", waker |-> Shell]]
    BY <1>1, <1>2 DEF WakerCell
  <2>2. ShellTypeOK'
    <3>1. wakers' \in [Source -> WakerCell(Tasks)]
      BY <1>1, <2>1 DEF WakerCell, WakerState
    <3> QED
      BY <2>1, <3>1 DEF ShellTypeOK, ExecTypeOK, RegState, ShellState
  <2>3. PlacesInv'
    BY <1>1, <2>1 DEF PlacesInv
  <2>4. CellsInv'
    BY <1>1, <2>1 DEF CellsInv, RegisteringCell
  <2>5. WakeupInv'
    BY <1>1, <2>1 DEF WakeupInv, Suspended, Awaited, Holds
  <2>6. BacklogInv'
    <3>1. /\ Owed = 0 /\ Owed' = 0 /\ Raced' = Raced
          /\ Slot("keyboard")' = Slot("keyboard") /\ Slot("timer")' = Slot("timer")
      BY <1>1, <2>1 DEF Owed, Raced, Slot
    <3> QED
      BY <1>1, <3>1 DEF BacklogInv
  <2> QED
    BY <2>2, <2>3, <2>4, <2>5, <2>6
<1>3. CASE ~Undisturbed(wakers[s])
  <2>1. /\ reg' = "release" /\ sh' = sh
        /\ wakers' = [wakers EXCEPT ![s] =
                        [state |-> "registering_waking", waker |-> NoWaker]]
    BY <1>1, <1>3 DEF WakerCell
  <2>2. ShellTypeOK'
    <3>1. wakers' \in [Source -> WakerCell(Tasks)]
      BY <1>1, <2>1 DEF WakerCell, WakerState
    <3> QED
      BY <2>1, <3>1 DEF ShellTypeOK, ExecTypeOK, RegState
  <2>3. PlacesInv'
    BY <1>1, <2>1 DEF PlacesInv
  <2>4. CellsInv'
    BY <1>1, <2>1 DEF CellsInv, RegisteringCell
  <2>5. WakeupInv'
    BY <1>1, <2>1 DEF WakeupInv, Suspended
  <2>6. BacklogInv'
    <3>1. /\ Owed = 0 /\ Owed' = 1 /\ Raced' = Raced /\ Raced \in Nat
          /\ Slot("keyboard") \in {0, 1} /\ Slot("timer") \in {0, 1}
          /\ Slot(s) = 1 /\ Slot(s)' = 0 /\ \A r \in Source \ {s} : Slot(r)' = Slot(r)
      BY <1>1, <2>1 DEF Owed, Raced, Slot, ShellTypeOK
    <3>2. Len(task_queue) \in Nat /\ burst \in Nat
      BY DEF ShellTypeOK, ExecTypeOK
    <3> QED
      BY <1>1, <3>1, <3>2 DEF BacklogInv
  <2> QED
    BY <2>2, <2>3, <2>4, <2>5, <2>6
<1> QED
  BY <1>2, <1>3

(* A disturbed register releases the cell without a waker in it. *)
LEMMA RegisterReleasesStep ==
  ASSUME ShellInv, NEW s \in Source, RegisterReleases(s)
  PROVE  ShellInv'
<1> USE ShellAssumption, NoWakerAssumption
<1> USE DEF ShellInv, RegisterReleases, Registering, EndRegister, execVars, clock, Source
<1>a. /\ wakers \in [Source -> WakerCell(Tasks)]
      /\ reg = "release" /\ wakers[s].waker = NoWaker
  BY DEF ShellTypeOK, CellsInv, RegisteringCell
<1>b. [wakers[s] EXCEPT !.state = "waiting"] = [state |-> "waiting", waker |-> NoWaker]
  BY <1>a DEF WakerCell
<1>1. /\ wakers \in [Source -> WakerCell(Tasks)] /\ cpu = "poll"
      /\ reg = "release" /\ reg' = "wake" /\ wakers[s].waker = NoWaker
      /\ wakers' = [wakers EXCEPT ![s] = [state |-> "waiting", waker |-> NoWaker]]
      /\ sh = IF s = "keyboard" THEN "register" ELSE "arm"
      /\ UNCHANGED <<cpu, sh, task_queue, scanq, burst>>
  BY <1>a, <1>b
<1>2. ShellTypeOK'
  <2>1. wakers' \in [Source -> WakerCell(Tasks)]
    BY <1>1 DEF WakerCell, WakerState
  <2> QED
    BY <2>1 DEF ShellTypeOK, ExecTypeOK, RegState
<1>3. PlacesInv'
  BY <1>1 DEF PlacesInv
<1>4. CellsInv'
  BY <1>1 DEF CellsInv, RegisteringCell
<1>5. WakeupInv'
  BY <1>1 DEF WakeupInv, Suspended
<1>6. BacklogInv'
  <2>1. /\ Owed' = Owed /\ Raced' = Raced
        /\ Slot("keyboard")' = Slot("keyboard") /\ Slot("timer")' = Slot("timer")
    BY <1>1 DEF Owed, Raced, Slot
  <2> QED
    BY <1>1, <2>1 DEF BacklogInv
<1> QED
  BY <1>2, <1>3, <1>4, <1>5, <1>6

(* A disturbed register makes the wake-up of the handler its own. *)
LEMMA RegisterWakesStep ==
  ASSUME ShellInv, NEW s \in Source, RegisterWakes(s)
  PROVE  ShellInv'
<1> USE ShellAssumption, NoWakerAssumption
<1> USE DEF ShellInv, Source
<1>1. /\ cpu = "poll" /\ current = Shell /\ reg = "wake" /\ reg' = "no"
      /\ sh = IF s = "keyboard" THEN "register" ELSE "arm"
      /\ sh' = IF s = "keyboard" THEN "recheck" ELSE "armed"
      /\ wakers[s].state = "waiting"
      /\ UNCHANGED <<iflag, tasks, waker_cache, handed_out, current,
                     wakers, scanq, inhand, cmds, ticks, target, keys, burst>>
      /\ PushOrPanic(Shell, "poll")
  BY DEF RegisterWakes, Registering, RegisterReturns, PollWakes, clock,
         PlacesInv, CellsInv, RegisteringCell
<1>2. ExecTypeOK /\ "poll" \in CpuState
  BY DEF ShellTypeOK, CpuState
<1>3. /\ task_queue' \in Seq(Tasks) /\ Len(task_queue') <= TaskQueueCap
      /\ cpu' \in {"poll", "panic"}
  BY <1>1, <1>2, PushKeepsType
<1>4. \/ cpu' = "poll" /\ task_queue' # << >> /\ Len(task_queue') = Len(task_queue) + 1
      \/ cpu' = "panic" /\ task_queue' = task_queue
  BY <1>1, <1>2, AppendFacts DEF PushOrPanic, ExecTypeOK
<1>5. ShellTypeOK'
  BY <1>1, <1>3 DEF ShellTypeOK, ExecTypeOK, CpuState, RegState, ShellState
<1>6. PlacesInv'
  BY <1>1, <1>4 DEF PlacesInv
<1>7. CellsInv'
  BY <1>1 DEF CellsInv, RegisteringCell
<1>8. WakeupInv'
  BY <1>1, <1>4 DEF WakeupInv, Suspended, Awaited
<1>9. BacklogInv'
  <2>1. /\ Owed = 1 /\ Owed' = 0 /\ Raced' = Raced /\ Raced \in Nat
        /\ Slot("keyboard") \in {0, 1} /\ Slot("timer") \in {0, 1}
        /\ Slot("keyboard")' = Slot("keyboard") /\ Slot("timer")' = Slot("timer")
    BY <1>1 DEF Owed, Raced, Slot, ShellTypeOK
  <2>2. Len(task_queue) \in Nat /\ burst \in Nat
    BY DEF ShellTypeOK, ExecTypeOK
  <2> QED
    BY <1>1, <1>4, <2>1, <2>2 DEF BacklogInv
<1> QED
  BY <1>5, <1>6, <1>7, <1>8, <1>9

(* KEYBOARD_WAKER.take() after a scancode was found on the second pop. *)
LEMMA TakeStep ==
  ASSUME ShellInv, TakeBegins \/ TakeEnds
  PROVE  ShellInv'
<1> USE ShellAssumption, NoWakerAssumption
<1> USE DEF ShellInv, TakeBegins, TakeEnds, InPoll, BeginTake, EndTake, EmptyCell,
            execVars, clock, Source
<1>1. /\ wakers \in [Source -> WakerCell(Tasks)] /\ cpu = "poll" /\ reg = "no"
      /\ \/ /\ sh = "take" /\ sh' = "taken"
            /\ wakers' = [wakers EXCEPT !["keyboard"] =
                            [state |-> "waking", waker |-> wakers["keyboard"].waker]]
         \/ /\ sh = "taken" /\ sh' = "key"
            /\ wakers' = [wakers EXCEPT !["keyboard"] =
                            [state |-> "waiting", waker |-> NoWaker]]
      /\ UNCHANGED <<cpu, reg, task_queue, scanq, burst>>
  BY DEF ShellTypeOK, WakerCell
<1>2. ShellTypeOK'
  <2>1. wakers' \in [Source -> WakerCell(Tasks)]
    BY <1>1 DEF WakerCell, WakerState
  <2> QED
    BY <2>1 DEF ShellTypeOK, ExecTypeOK, ShellState
<1>3. PlacesInv'
  BY <1>1 DEF PlacesInv
<1>4. CellsInv'
  BY <1>1 DEF CellsInv, RegisteringCell
<1>5. WakeupInv'
  BY <1>1 DEF WakeupInv, Suspended
<1>6. BacklogInv'
  <2>1. /\ Owed' = Owed /\ Owed \in Nat /\ Raced' = 0 /\ Raced = 0
        /\ Slot("keyboard") \in Nat /\ Slot("timer") \in Nat
        /\ Slot("keyboard")' \in Nat /\ Slot("keyboard")' <= Slot("keyboard")
        /\ Slot("timer")' = Slot("timer")
    BY <1>1 DEF Owed, Raced, Slot
  <2>2. Len(task_queue) \in Nat /\ burst \in Nat
    BY DEF ShellTypeOK, ExecTypeOK
  <2> QED
    BY <1>1, <2>1, <2>2 DEF BacklogInv
<1> QED
  BY <1>2, <1>3, <1>4, <1>5, <1>6

-----------------------------------------------------------------------------
(* The shell returns Pending: from here on a handler must bring it back. *)
LEMMA PendingStep ==
  ASSUME ShellInv, RecheckEmpty \/ SleepPending
  PROVE  ShellInv'
<1> USE ShellAssumption, NoWakerAssumption
<1> USE DEF ShellInv, RecheckEmpty, SleepPending, PollPending, clock
<1>1. ShellTypeOK'
  BY DEF ShellTypeOK, ExecTypeOK, ShellState, CpuState
<1>2. PlacesInv'
  BY DEF PlacesInv
<1>3. CellsInv'
  BY DEF CellsInv, RegisteringCell
<1>4. WakeupInv'
  BY DEF WakeupInv, Suspended, Awaited, Holds
<1>5. BacklogInv'
  <2>1. /\ Owed' = 0 /\ Owed = 0 /\ Raced' = 0 /\ Raced \in Nat
        /\ Slot("keyboard") \in Nat /\ Slot("timer") \in Nat
        /\ Slot("keyboard")' = Slot("keyboard") /\ Slot("timer")' = Slot("timer")
    BY DEF Owed, Raced, Slot, ShellTypeOK
  <2>2. Len(task_queue) \in Nat /\ burst \in Nat /\ UNCHANGED <<task_queue, burst>>
    BY DEF ShellTypeOK, ExecTypeOK
  <2> QED
    BY <2>1, <2>2 DEF BacklogInv
<1> QED
  BY <1>1, <1>2, <1>3, <1>4, <1>5

-----------------------------------------------------------------------------
(* The steps of main and of the executor between polls. *)
LEMMA MainStep ==
  ASSUME ShellInv, Main
  PROVE  ShellInv'
<1> USE ShellAssumption, NoWakerAssumption
<1> USE DEF ShellInv, shellVars, clock
<1>1. CASE Spawn(Shell) /\ UNCHANGED shellVars
  <2>1. /\ cpu = "boot" /\ tasks = {} /\ task_queue = << >> /\ tasks' = {Shell}
        /\ sh = "start" /\ reg = "no"
        /\ \A s \in Source : wakers[s].waker = NoWaker
        /\ UNCHANGED <<iflag, waker_cache, handed_out, current, shellVars>>
        /\ PushOrPanic(Shell, "boot")
    BY <1>1 DEF Spawn, PlacesInv, ShellTypeOK, ExecTypeOK
  <2>2. ExecTypeOK /\ "boot" \in CpuState
    BY DEF ShellTypeOK, CpuState
  <2>3. cpu' = "boot" /\ task_queue' = <<Shell>>
    BY <2>1, TaskQueueCapAssumption DEF PushOrPanic
  <2>4. task_queue' \in Seq(Tasks) /\ Len(task_queue') <= TaskQueueCap
    BY <2>1, <2>2, PushKeepsType
  <2>5. ShellTypeOK'
    BY <2>1, <2>3, <2>4 DEF ShellTypeOK, ExecTypeOK, CpuState
  <2>6. PlacesInv'
    BY <2>1, <2>3 DEF PlacesInv
  <2>7. CellsInv'
    BY <2>1 DEF CellsInv, RegisteringCell
  <2>8. WakeupInv'
    BY <2>1, <2>3 DEF WakeupInv, Suspended
  <2>9. BacklogInv'
    <3>1. Slot("keyboard")' = 0 /\ Slot("timer")' = 0 /\ Owed' = 0 /\ Raced' = 0
      BY <2>1, <2>3 DEF Slot, Owed, Raced, Source
    <3>2. Len(task_queue') = 1 /\ burst' \in Nat
      BY <2>1, <2>3 DEF ShellTypeOK
    <3> QED
      BY <3>1, <3>2 DEF BacklogInv
  <2> QED
    BY <2>5, <2>6, <2>7, <2>8, <2>9
<1>2. CASE Run /\ tasks # {} /\ UNCHANGED shellVars
  <2>1. /\ cpu = "boot" /\ cpu' = "pop" /\ tasks = {Shell} /\ task_queue # << >>
        /\ sh = "start" /\ reg = "no"
        /\ UNCHANGED <<iflag, tasks, task_queue, waker_cache, handed_out, current, shellVars>>
    BY <1>2 DEF Run, PlacesInv, ShellTypeOK, ExecTypeOK
  <2>2. ShellTypeOK'
    BY <2>1 DEF ShellTypeOK, ExecTypeOK, CpuState
  <2>3. PlacesInv' /\ CellsInv' /\ WakeupInv'
    BY <2>1 DEF PlacesInv, CellsInv, RegisteringCell, WakeupInv, Suspended
  <2>4. BacklogInv'
    BY <2>1 DEF BacklogInv, Slot, Owed, Raced
  <2> QED
    BY <2>2, <2>3, <2>4
<1> QED
  BY <1>1, <1>2 DEF Main

(* The executor between two polls, down to the halt. *)
LEMMA ExecutorStepStep ==
  ASSUME ShellInv, ExecutorStep
  PROVE  ShellInv'
<1> USE ShellAssumption, NoWakerAssumption
<1> USE DEF ShellInv, shellVars, clock
<1>1. CASE PopLive /\ UNCHANGED shellVars
  <2> USE <1>1 DEF PopLive
  <2>1. task_queue \in Seq(Tasks) /\ task_queue # << >> /\ task_queue' = Tail(task_queue)
    BY DEF ShellTypeOK, ExecTypeOK
  <2>2. /\ task_queue' \in Seq(Tasks) /\ Head(task_queue) = Shell
        /\ Len(task_queue) \in Nat /\ Len(task_queue') = Len(task_queue) - 1
    BY <2>1, TailFacts
  <2>3. Len(task_queue') <= TaskQueueCap
    BY <2>2, TaskQueueCapAssumption DEF ShellTypeOK, ExecTypeOK
  <2>4. ShellTypeOK'
    BY <2>2, <2>3 DEF ShellTypeOK, ExecTypeOK, CpuState
  <2>5. PlacesInv' /\ CellsInv'
    BY <2>2 DEF PlacesInv, CellsInv, RegisteringCell
  <2>6. WakeupInv'
    BY DEF WakeupInv, Suspended, PlacesInv
  <2>7. BacklogInv'
    <3>1. /\ Owed = 0 /\ Owed' = 1 /\ Raced' = Raced /\ Raced \in Nat
          /\ Slot("keyboard") \in Nat /\ Slot("timer") \in Nat
          /\ Slot("keyboard")' = Slot("keyboard") /\ Slot("timer")' = Slot("timer")
          /\ burst \in Nat /\ burst' = burst
      BY DEF Owed, Raced, Slot, PlacesInv, ShellTypeOK
    <3> QED
      BY <2>2, <3>1 DEF BacklogInv
  <2> QED
    BY <2>4, <2>5, <2>6, <2>7
<1>2. CASE /\ PopNone \/ DisableInterrupts \/ FoundEmpty \/ EnableInterrupts
           /\ UNCHANGED shellVars
  <2> USE <1>2 DEF PopNone, DisableInterrupts, FoundEmpty, EnableInterrupts
  <2>1. ShellTypeOK'
    BY DEF ShellTypeOK, ExecTypeOK, CpuState
  <2>2. PlacesInv'
    BY DEF PlacesInv
  <2>3. CellsInv'
    BY DEF CellsInv, RegisteringCell
  <2>4. WakeupInv'
    BY DEF WakeupInv, Suspended, Awaited, Holds
  <2>5. BacklogInv'
    BY DEF BacklogInv, Slot, Owed, Raced
  <2> QED
    BY <2>1, <2>2, <2>3, <2>4, <2>5
<1>3. CASE /\ EnableAndHlt /\ burst' = 0
           /\ UNCHANGED <<sh, reg, wakers, scanq, inhand, cmds, ticks, target, keys>>
  <2> USE <1>3 DEF EnableAndHlt
  <2>1. ShellTypeOK'
    BY DEF ShellTypeOK, ExecTypeOK, CpuState
  <2>2. PlacesInv'
    BY DEF PlacesInv
  <2>3. CellsInv'
    BY DEF CellsInv, RegisteringCell
  <2>4. WakeupInv'
    BY DEF WakeupInv, Suspended, Awaited, Holds
  <2>5. BacklogInv'
    <3>1. /\ Owed' = 0 /\ Raced' = 0 /\ Len(task_queue') = 0
          /\ Slot("keyboard")' \in {0, 1} /\ Slot("timer")' \in {0, 1}
      BY DEF Owed, Raced, Slot, PlacesInv
    <3> QED
      BY <3>1 DEF BacklogInv
  <2> QED
    BY <2>1, <2>2, <2>3, <2>4, <2>5
<1> QED
  BY <1>1, <1>2, <1>3 DEF ExecutorStep

-----------------------------------------------------------------------------
(* The wake() of a handler, whatever the interrupted processor was doing:  *)
(* an armed waker becomes a run queue entry (or a panic), and nothing that *)
(* was queued or armed is forgotten.                                       *)
LEMMA HandlerFacts ==
  ASSUME ShellInv, NEW s \in Source, HandlerWakes(s)
  PROVE  /\ ExecTypeOK' /\ wakers' \in [Source -> WakerCell(Tasks)]
         /\ \A r \in Source \ {s} : wakers'[r] = wakers[r]
         /\ wakers'[s] = AfterWake(wakers[s])
         /\ UNCHANGED <<iflag, tasks, waker_cache, handed_out, current>>
         /\ cpu # "panic" /\ iflag
         /\ \/ /\ wakers[s].waker = Shell /\ wakers[s].state = "waiting"
               /\ cpu' = IF cpu = "hlt" THEN "pop" ELSE cpu
               /\ task_queue' # << >>
               /\ Len(task_queue') = Len(task_queue) + 1
            \/ /\ wakers[s].waker = Shell /\ wakers[s].state = "waiting"
               /\ cpu' = "panic" /\ task_queue' = task_queue
            \/ /\ ~(wakers[s].waker = Shell /\ wakers[s].state = "waiting")
               /\ cpu' = IF cpu = "hlt" THEN "pop" ELSE cpu
               /\ task_queue' = task_queue
<1> USE ShellAssumption, NoWakerAssumption
<1> USE DEF ShellInv, HandlerWakes, WakeTakes
<1>1. ExecTypeOK /\ wakers \in [Source -> WakerCell(Tasks)]
  BY DEF ShellTypeOK
<1>2. wakers[s] \in WakerCell(Tasks)
  BY <1>1
<1>3. AfterWake(wakers[s]) \in WakerCell(Tasks)
  BY <1>2 DEF AfterWake, EmptyCell, WakerCell, WakerState
<1>4. /\ wakers' \in [Source -> WakerCell(Tasks)] /\ wakers'[s] = AfterWake(wakers[s])
      /\ \A r \in Source \ {s} : wakers'[r] = wakers[r]
  BY <1>1, <1>3
<1>5. AfterInterrupt \in CpuState
  BY <1>1 DEF AfterInterrupt, CpuState, ExecTypeOK
<1>6. CASE WakeTakes(wakers[s]) /\ InterruptWakes(wakers[s].waker)
  <2>1. wakers[s].waker = Shell /\ wakers[s].state = "waiting" /\ PushOrPanic(Shell, AfterInterrupt)
    BY <1>2, <1>6 DEF WakerCell, InterruptWakes
  <2>2. /\ task_queue' \in Seq(Tasks) /\ Len(task_queue') <= TaskQueueCap
        /\ cpu' \in {AfterInterrupt, "panic"}
    BY <1>1, <1>5, <2>1, PushKeepsType
  <2>3. ExecTypeOK'
    BY <1>1, <1>5, <1>6, <2>2 DEF ExecTypeOK, InterruptWakes, CpuState
  <2>4. \/ cpu' = AfterInterrupt /\ task_queue' # << >> /\ Len(task_queue') = Len(task_queue) + 1
        \/ cpu' = "panic" /\ task_queue' = task_queue
    BY <1>1, <2>1, AppendFacts DEF PushOrPanic, ExecTypeOK
  <2> QED
    BY <1>4, <1>6, <2>1, <2>3, <2>4 DEF InterruptWakes, Interruptible, AfterInterrupt
<1>7. CASE ~WakeTakes(wakers[s]) /\ InterruptWakesNone
  <2>1. ExecTypeOK'
    BY <1>1, <1>5, <1>7 DEF ExecTypeOK, InterruptWakesNone
  <2> QED
    BY <1>4, <1>7, <2>1 DEF InterruptWakesNone, Interruptible, AfterInterrupt
<1> QED
  BY <1>6, <1>7

(* timer_interrupt_handler, at any interruptible point. *)
LEMMA TimerStep ==
  ASSUME ShellInv, TimerInterrupt
  PROVE  ShellInv'
<1> USE ShellAssumption, NoWakerAssumption
<1> USE DEF ShellInv, Source
<1>1. "timer" \in Source /\ HandlerWakes("timer")
  BY DEF TimerInterrupt
<1>2. /\ ExecTypeOK' /\ wakers' \in [Source -> WakerCell(Tasks)]
      /\ wakers'["keyboard"] = wakers["keyboard"]
      /\ wakers'["timer"] = AfterWake(wakers["timer"])
      /\ UNCHANGED <<iflag, tasks, waker_cache, handed_out, current>>
      /\ cpu # "panic" /\ iflag
      /\ \/ /\ Holds("timer")
            /\ cpu' = IF cpu = "hlt" THEN "pop" ELSE cpu
            /\ task_queue' # << >>
            /\ Len(task_queue') = Len(task_queue) + 1
         \/ /\ Holds("timer")
            /\ cpu' = "panic" /\ task_queue' = task_queue
         \/ /\ ~Holds("timer")
            /\ cpu' = IF cpu = "hlt" THEN "pop" ELSE cpu
            /\ task_queue' = task_queue
  BY <1>1, HandlerFacts DEF Holds
<1>3. wakers["timer"] \in WakerCell(Tasks) /\ wakers["keyboard"] \in WakerCell(Tasks)
  BY DEF ShellTypeOK
<1>4. /\ wakers'["timer"].waker =
           IF wakers["timer"].state = "waiting" THEN NoWaker ELSE wakers["timer"].waker
      /\ wakers'["timer"].state =
           IF wakers["timer"].state = "registering" THEN "registering_waking"
           ELSE wakers["timer"].state
  BY <1>2, <1>3 DEF AfterWake, EmptyCell, WakerCell, WakerState
<1>5. ShellTypeOK'
  <2>1. ticks' \in Nat
    BY DEF TimerInterrupt, ShellTypeOK
  <2> QED
    BY <1>2, <2>1 DEF ShellTypeOK, TimerInterrupt
<1>6. PlacesInv'
  BY <1>2, <1>3, <1>4 DEF PlacesInv, Holds, WakerCell, TimerInterrupt
<1>7. CellsInv'
  BY <1>2, <1>4 DEF CellsInv, RegisteringCell, TimerInterrupt
<1>8. WakeupInv'
  BY <1>2, <1>4 DEF WakeupInv, Suspended, Awaited, Holds, TimerInterrupt
<1>9. BacklogInv'
  <2>1. /\ Owed' \in Nat /\ Owed \in Nat /\ Owed' <= Owed
        /\ Raced' = Raced /\ Raced \in Nat /\ burst' = burst /\ burst \in Nat
        /\ Len(task_queue) \in Nat
    BY <1>2 DEF Owed, Raced, TimerInterrupt, ShellTypeOK, ExecTypeOK
  <2>2. /\ Slot("keyboard")' = Slot("keyboard") /\ Slot("keyboard") \in {0, 1}
        /\ Slot("timer") \in {0, 1} /\ Slot("timer")' \in {0, 1}
        /\ Slot("timer")' <= Slot("timer")
        /\ Holds("timer") => Slot("timer") = 1 /\ Slot("timer")' = 0
    BY <1>2, <1>4 DEF Slot, Holds
  <2> QED
    BY <1>2, <2>1, <2>2 DEF BacklogInv
<1> QED
  BY <1>5, <1>6, <1>7, <1>8, <1>9

(* The arithmetic of one more key: both sides grow by at most one. *)
LEMMA AddUp ==
  ASSUME NEW a \in Nat, NEW b \in Nat, NEW c \in Nat, NEW d \in Nat,
         a <= b, c <= d + 1
  PROVE  a + c <= b + d + 1
  OBVIOUS

(* The same for the sum that bounds the backlog. *)
LEMMA BacklogAddsUp ==
  ASSUME NEW q \in Nat, NEW k \in Nat, NEW t \in Nat, NEW o \in Nat, NEW r \in Nat,
         NEW q1 \in Nat, NEW k1 \in Nat, NEW o1 \in Nat, NEW r1 \in Nat, NEW b \in Nat,
         q1 + k1 <= q + k, o1 + r1 <= o + r + 1, q + k + t + o + r <= b + 2
  PROVE  q1 + k1 + t + o1 + r1 <= b + 1 + 2
  OBVIOUS

(* keyboard_interrupt_handler, at any interruptible point. *)
LEMMA KeyboardStep ==
  ASSUME ShellInv, NEW code \in Scancode, KeyboardInterrupt(code)
  PROVE  ShellInv'
<1> USE ShellAssumption, NoWakerAssumption
<1> USE DEF ShellInv, Source
<1>1. "keyboard" \in Source /\ HandlerWakes("keyboard")
  BY DEF KeyboardInterrupt
<1>2. /\ ExecTypeOK' /\ wakers' \in [Source -> WakerCell(Tasks)]
      /\ wakers'["timer"] = wakers["timer"]
      /\ wakers'["keyboard"] = AfterWake(wakers["keyboard"])
      /\ UNCHANGED <<iflag, tasks, waker_cache, handed_out, current>>
      /\ cpu # "panic" /\ iflag
      /\ \/ /\ Holds("keyboard")
            /\ cpu' = IF cpu = "hlt" THEN "pop" ELSE cpu
            /\ task_queue' # << >>
            /\ Len(task_queue') = Len(task_queue) + 1
         \/ /\ Holds("keyboard")
            /\ cpu' = "panic" /\ task_queue' = task_queue
         \/ /\ ~Holds("keyboard")
            /\ cpu' = IF cpu = "hlt" THEN "pop" ELSE cpu
            /\ task_queue' = task_queue
  BY <1>1, HandlerFacts DEF Holds
<1>3. wakers["keyboard"] \in WakerCell(Tasks) /\ wakers["timer"] \in WakerCell(Tasks)
  BY DEF ShellTypeOK
<1>4. /\ wakers'["keyboard"].waker =
           IF wakers["keyboard"].state = "waiting" THEN NoWaker ELSE wakers["keyboard"].waker
      /\ wakers'["keyboard"].state =
           IF wakers["keyboard"].state = "registering" THEN "registering_waking"
           ELSE wakers["keyboard"].state
  BY <1>2, <1>3 DEF AfterWake, EmptyCell, WakerCell, WakerState
<1>5a. /\ scanq' \in Seq(Scancode) /\ Len(scanq') <= ScancodeQueueCap
       /\ Len(scanq) \in Nat /\ Len(scanq') \in Nat /\ Len(scanq') <= Len(scanq) + 1
  BY AppendFacts, ScancodeQueueCapAssumption
     DEF KeyboardInterrupt, EnqueueScancode, ShellTypeOK
<1>5. ShellTypeOK'
  BY <1>2, <1>5a DEF ShellTypeOK, KeyboardInterrupt
<1>6. PlacesInv'
  BY <1>2, <1>3, <1>4 DEF PlacesInv, Holds, WakerCell, KeyboardInterrupt
<1>7. CellsInv'
  BY <1>2, <1>4 DEF CellsInv, RegisteringCell, KeyboardInterrupt
<1>8. WakeupInv'
  BY <1>2, <1>4 DEF WakeupInv, Suspended, Awaited, Holds, KeyboardInterrupt
<1>9. BacklogInv'
  <2>1. /\ Owed' \in Nat /\ Owed \in Nat /\ Owed' <= Owed
        /\ Raced' \in Nat /\ Raced \in Nat /\ Raced' <= Raced + 1
        /\ burst' = burst + 1 /\ burst \in Nat /\ Len(task_queue) \in Nat
    BY <1>2, <1>5a DEF Owed, Raced, KeyboardInterrupt, ShellTypeOK, ExecTypeOK
  <2>2. /\ Slot("timer")' = Slot("timer") /\ Slot("timer") \in {0, 1}
        /\ Slot("keyboard") \in {0, 1} /\ Slot("keyboard")' \in {0, 1}
        /\ Slot("keyboard")' <= Slot("keyboard")
        /\ Holds("keyboard") => Slot("keyboard") = 1 /\ Slot("keyboard")' = 0
    BY <1>2, <1>4 DEF Slot, Holds
  <2>3. /\ Len(task_queue') \in Nat
        /\ Len(task_queue') + Slot("keyboard")' <= Len(task_queue) + Slot("keyboard")
    BY <1>2, <2>1, <2>2
  <2>4. Owed' + Raced' <= Owed + Raced + 1
    BY <2>1, AddUp
  <2>5. /\ Slot("keyboard") \in Nat /\ Slot("keyboard")' \in Nat
        /\ Slot("timer") \in Nat /\ Slot("timer")' = Slot("timer")
    BY <2>2
  <2>6. Len(task_queue) + Slot("keyboard") + Slot("timer") + Owed + Raced <= burst + 2
    BY DEF BacklogInv
  <2>7. Len(task_queue') + Slot("keyboard")' + Slot("timer")' + Owed' + Raced' <= burst' + 2
    <3> DEFINE q == Len(task_queue)   k == Slot("keyboard")   t == Slot("timer")
               q1 == Len(task_queue')  k1 == Slot("keyboard")'
               o == Owed  r == Raced  o1 == Owed'  r1 == Raced'
    <3>1. /\ q \in Nat /\ k \in Nat /\ t \in Nat /\ o \in Nat /\ r \in Nat
          /\ q1 \in Nat /\ k1 \in Nat /\ o1 \in Nat /\ r1 \in Nat /\ burst \in Nat
          /\ q1 + k1 <= q + k /\ o1 + r1 <= o + r + 1
          /\ q + k + t + o + r <= burst + 2
      BY <2>1, <2>3, <2>4, <2>5, <2>6
    <3>2. q1 + k1 + t + o1 + r1 <= burst + 1 + 2
      <4> HIDE DEF q, k, t, q1, k1, o, r, o1, r1
      <4> QED BY <3>1, BacklogAddsUp
    <3> QED
      BY <3>2, <2>1, <2>5
  <2> QED
    BY <2>7 DEF BacklogInv
<1> QED
  BY <1>5, <1>6, <1>7, <1>8, <1>9

-----------------------------------------------------------------------------
(* Before main spawns the shell. *)
LEMMA ShellStart == ShellInit => ShellInv
<1> SUFFICES ASSUME ShellInit PROVE ShellInv
  OBVIOUS
<1> USE ShellAssumption, NoWakerAssumption DEF ShellInit, ExecInit
<1>1. wakers \in [Source -> WakerCell(Tasks)]
      /\ \A s \in Source : wakers[s].state = "waiting" /\ wakers[s].waker = NoWaker
  BY DEF EmptyCell, WakerCell, WakerState
<1>2. ShellTypeOK
  <2>1. ExecTypeOK
    BY TaskQueueCapAssumption DEF ExecTypeOK, CpuState
  <2>2. scanq \in Seq(Scancode) /\ Len(scanq) <= ScancodeQueueCap
    BY ScancodeQueueCapAssumption
  <2> QED
    BY <1>1, <2>1, <2>2 DEF ShellTypeOK, ShellState, RegState
<1>3. PlacesInv /\ CellsInv /\ WakeupInv
  BY <1>1 DEF PlacesInv, CellsInv, RegisteringCell, WakeupInv, Suspended, Source
<1>4. BacklogInv
  BY <1>1 DEF BacklogInv, Slot, Owed, Raced, Source
<1> QED
  BY <1>2, <1>3, <1>4 DEF ShellInv

(* The invariant depends on the variables only. *)
LEMMA ShellStutter ==
  ASSUME ShellInv, UNCHANGED vars
  PROVE  ShellInv'
<1> USE DEF ShellInv, vars, execVars, shellVars, clock
<1>1. ShellTypeOK'
  BY DEF ShellTypeOK, ExecTypeOK
<1>2. PlacesInv' /\ CellsInv'
  BY DEF PlacesInv, CellsInv, RegisteringCell
<1>3. WakeupInv'
  BY DEF WakeupInv, Suspended, Awaited, Holds
<1>4. BacklogInv'
  BY DEF BacklogInv, Slot, Owed, Raced
<1> QED
  BY <1>1, <1>2, <1>3, <1>4

(* The inductive invariant of the shell on its executor. *)
THEOREM ShellInvariance == ShellSpec => []ShellInv
<1>1. ShellInv /\ [ShellNext]_vars => ShellInv'
  <2> SUFFICES ASSUME ShellInv, [ShellNext]_vars PROVE ShellInv'
    OBVIOUS
  <2>1. CASE Main
    BY <2>1, MainStep
  <2>2. CASE ExecutorStep
    BY <2>2, ExecutorStepStep
  <2>3. CASE ShellStep
    <3>1. CASE Register
      BY <2>3, <3>1, RegisterBeginsStep, RegisterPublishesStep, RegisterReleasesStep,
         RegisterWakesStep DEF Register
    <3>2. CASE PollNext
      BY <2>3, <3>2, QuietStep, TakeStep, PendingStep DEF PollNext
    <3>3. CASE \E n \in SleepArgs : SleepNew(n)
      BY <3>3, SleepNewStep
    <3> QED
      BY <2>3, <3>1, <3>2, <3>3, QuietStep, PendingStep DEF ShellStep
  <2>4. CASE TimerInterrupt
    BY <2>4, TimerStep
  <2>5. CASE \E code \in Scancode : KeyboardInterrupt(code)
    BY <2>5, KeyboardStep
  <2>6. CASE UNCHANGED vars
    BY <2>6, ShellStutter DEF vars
  <2> QED
    BY <2>1, <2>2, <2>3, <2>4, <2>5, <2>6 DEF ShellNext, Processor
<1> QED
  BY <1>1, ShellStart, PTL DEF ShellSpec

(* Type correctness, with both queues within their capacities. *)
THEOREM ShellTyping == ShellSpec => []ShellTypeOK
<1>1. ShellInv => ShellTypeOK
  BY DEF ShellInv
<1> QED
  BY <1>1, ShellInvariance, PTL

(* poll_next and Sleep::poll lose no wake-up of the handlers. *)
THEOREM ShellNoLostWakeup == ShellSpec => []NoLostWakeup
<1>1. ShellInv => NoLostWakeup
  <2> SUFFICES ASSUME ShellInv, Suspended PROVE NoLostWakeup
    BY DEF NoLostWakeup
  <2>1. task_queue \in Seq({Shell}) /\ sh \in {"start", "fast", "sleep"}
    BY ShellAssumption DEF ShellInv, ShellTypeOK, ExecTypeOK, PlacesInv, Suspended
  <2>2. task_queue # << >> => Shell \in Queued
    <3> SUFFICES ASSUME task_queue # << >> PROVE Shell \in Queued
      OBVIOUS
    <3>1. 1 \in DOMAIN task_queue /\ task_queue[1] = Shell
      BY <2>1
    <3> QED
      BY <3>1 DEF Queued
  <2> QED
    BY <2>1, <2>2 DEF ShellInv, WakeupInv, NoLostWakeup, Awaited, Suspended
<1> QED
  BY <1>1, ShellInvariance, PTL

(* The processor halts only when the shell has nothing to do and a handler *)
(* is armed that will start it again.                                      *)
THEOREM ShellHaltIsSafe == ShellSpec => []HaltIsSafe
<1>1. ShellInv => HaltIsSafe
  BY DEF ShellInv, PlacesInv, WakeupInv, HaltIsSafe, Awaited, Suspended
<1> QED
  BY <1>1, ShellInvariance, PTL

(* A burst of b keyboard interrupts leaves at most b + 2 run queue         *)
(* entries, so the expect of wake_task cannot fail in a burst of fewer     *)
(* than TaskQueueCap - 2 keys.                                             *)
THEOREM ShellBacklogBound == ShellSpec => []BacklogBound
<1>1. ShellInv => BacklogBound
  <2> SUFFICES ASSUME ShellInv PROVE BacklogBound
    OBVIOUS
  <2>1. /\ Slot("keyboard") \in Nat /\ Slot("timer") \in Nat
        /\ Owed \in Nat /\ Raced \in Nat /\ Len(task_queue) \in Nat /\ burst \in Nat
    BY DEF Slot, Owed, Raced, ShellInv, ShellTypeOK, ExecTypeOK
  <2> QED
    BY <2>1 DEF ShellInv, BacklogInv, BacklogBound
<1> QED
  BY <1>1, ShellInvariance, PTL

-----------------------------------------------------------------------------
(* What a step of the system does to the two ends of the scancode queue.   *)
LEMMA ChannelSteps ==
  ASSUME [ShellNext]_vars
  PROVE  \/ FastPop \/ RecheckPop \/ KeyOther \/ KeyEnter
         \/ /\ UNCHANGED <<scanq, inhand>>
            /\ sh \in {"take", "taken", "key"} => sh' \in {"take", "taken", "key"}
            /\ sh' \in {"take", "taken", "key"} => sh \in {"take", "taken", "key"}
         \/ \E code \in Scancode : EnqueueScancode(code) /\ UNCHANGED <<sh, inhand>>
<1>1. CASE Main \/ ExecutorStep
  BY <1>1 DEF Main, ExecutorStep, shellVars
<1>2. CASE Register
  BY <1>2 DEF Register, RegisterBegins, RegisterPublishes, RegisterReleases,
     RegisterWakes, Registering, RegisterReturns, Source
<1>3. CASE \/ ShellStarts \/ FastEmpty \/ TakeBegins \/ TakeEnds \/ CommandRuns
           \/ CommandsDone \/ (\E n \in SleepArgs : SleepNew(n)) \/ SleepReady
           \/ SleepNotYet \/ RecheckEmpty \/ SleepPending
  BY <1>3 DEF ShellStarts, FastEmpty, TakeBegins, TakeEnds, CommandRuns, CommandsDone,
     SleepNew, SleepReady, SleepNotYet, RecheckEmpty, SleepPending, InPoll
<1>4. CASE TimerInterrupt
  BY <1>4 DEF TimerInterrupt
<1>5. CASE \E code \in Scancode : KeyboardInterrupt(code)
  BY <1>5 DEF KeyboardInterrupt
<1>6. CASE UNCHANGED vars
  BY <1>6 DEF vars, shellVars
<1> QED
  BY <1>1, <1>2, <1>3, <1>4, <1>5, <1>6
     DEF ShellNext, Processor, ShellStep, PollNext

(* A scancode is in hand only between its pop and the act on it, so        *)
(* poll_next never pops over one that was not acted upon.                  *)
HandInv == sh \notin {"take", "taken", "key"} => inhand = NoCode

(* The safety part of KeysReachShell: the scancodes that the handler could *)
(* store come to the shell once each and in order, for any queue capacity  *)
(* and any interleaving of the handler with poll_next.                     *)
THEOREM ShellKeysInOrder == ShellSpec => Channel!Spec
<1>1. ShellInit => HandInv /\ Channel!Init
  BY DEF ShellInit, HandInv, Channel!Init
<1>2. HandInv /\ [ShellNext]_vars => HandInv'
  BY ChannelSteps DEF HandInv, FastPop, RecheckPop, KeyOther, KeyEnter, InPoll
<1>3. HandInv /\ [ShellNext]_vars => [Channel!Next]_(Channel!chanVars)
  <2> SUFFICES ASSUME HandInv, [ShellNext]_vars
               PROVE  Channel!Next \/ UNCHANGED <<scanq, inhand>>
    BY DEF Channel!chanVars
  <2>1. CASE FastPop \/ RecheckPop
    <3>1. inhand = NoCode
      BY <2>1 DEF HandInv, FastPop, RecheckPop, InPoll
    <3> QED
      BY <2>1, <3>1 DEF FastPop, RecheckPop, Channel!Next, Channel!Deliver
  <2>2. CASE KeyOther \/ KeyEnter
    BY <2>2 DEF KeyOther, KeyEnter, NoCode, Channel!Next, Channel!Act
  <2>3. CASE \E code \in Scancode : EnqueueScancode(code) /\ UNCHANGED <<sh, inhand>>
    BY <2>3 DEF EnqueueScancode, Channel!Next, Channel!Accept
  <2> QED
    BY <2>1, <2>2, <2>3, ChannelSteps
<1> QED
  BY <1>1, <1>2, <1>3, PTL DEF ShellSpec, Channel!Spec
==============================================================================
