------------------------------ MODULE Executor -------------------------------
(***************************************************************************)
(* The kernel's cooperative executor (kernel/src/task/executor.rs): one    *)
(* processor that pops task ids from a bounded run queue and polls the     *)
(* tasks, and interrupt handlers that push task ids through TaskWakers.    *)
(*                                                                         *)
(* What a poll does is left open here: it may wake any task whose waker    *)
(* was handed out, and returns Ready or Pending.  An interrupt may wake    *)
(* any such task too, the finished ones included, since a clone of the     *)
(* waker can outlive its task.  ShellIo fills both in for the shell.       *)
(***************************************************************************)
EXTENDS Naturals, Sequences

CONSTANTS Tasks,          \* the task ids that TaskId::new can hand out
          NoTask,         \* no task is being polled
          TaskQueueCap    \* capacity of task_queue (100 in the code)

ASSUME NoTaskAssumption == NoTask \notin Tasks
ASSUME TaskQueueCapAssumption == TaskQueueCap \in Nat \ {0}

VARIABLES cpu,            \* where the processor is
          iflag,          \* the interrupt flag: TRUE if interrupts are on
          tasks,          \* keys of Executor::tasks
          task_queue,     \* Executor::task_queue
          waker_cache,    \* keys of Executor::waker_cache
          handed_out,     \* tasks for which a TaskWaker was ever made
          current         \* the task being polled

execVars ==
  <<cpu, iflag, tasks, task_queue, waker_cache, handed_out, current>>

(* boot: before Executor::run;  pop: the head of the loop of               *)
(* run_ready_tasks;  poll: inside Task::poll;  disable, check and idle:    *)
(* the steps of sleep_if_idle;  hlt: halted;  panic: an expect() failed.   *)
CpuState == {"boot", "pop", "poll", "disable", "check", "idle", "hlt", "panic"}

Queued == {task_queue[i] : i \in DOMAIN task_queue}

-----------------------------------------------------------------------------
(* Executor::new, called after init() has enabled interrupts. *)
ExecInit ==
  /\ cpu = "boot"
  /\ iflag = TRUE
  /\ tasks = {}
  /\ task_queue = << >>
  /\ waker_cache = {}
  /\ handed_out = {}
  /\ current = NoTask

(* Mutant: a full queue takes one more entry. *)
PushOneTooMany(t, next) ==
  \/ /\ Len(task_queue) <= TaskQueueCap
     /\ task_queue' = Append(task_queue, t)
     /\ cpu' = next
  \/ /\ Len(task_queue) > TaskQueueCap
     /\ cpu' = "panic"
     /\ UNCHANGED task_queue

(* task_queue.push(t).expect(..): the processor goes on at `next', or      *)
(* panics when the queue is full.                                          *)
PushOrPanic(t, next) ==
  \/ /\ Len(task_queue) < TaskQueueCap
     /\ task_queue' = Append(task_queue, t)
     /\ cpu' = next
  \/ /\ Len(task_queue) >= TaskQueueCap
     /\ cpu' = "panic"
     /\ UNCHANGED task_queue

Spawn(t) ==
  /\ cpu = "boot"
  /\ t \notin tasks
  /\ tasks' = tasks \cup {t}
  /\ PushOrPanic(t, "boot")
  /\ UNCHANGED <<iflag, waker_cache, handed_out, current>>

Run ==
  /\ cpu = "boot"
  /\ cpu' = "pop"
  /\ UNCHANGED <<iflag, tasks, task_queue, waker_cache, handed_out, current>>

(* run_ready_tasks: pop a task id and start to poll the task, ... *)
PopLive ==
  /\ cpu = "pop"
  /\ task_queue # << >>
  /\ Head(task_queue) \in tasks
  /\ task_queue' = Tail(task_queue)
  /\ current' = Head(task_queue)
  /\ waker_cache' = waker_cache \cup {Head(task_queue)}
  /\ handed_out' = handed_out \cup {Head(task_queue)}
  /\ cpu' = "poll"
  /\ UNCHANGED <<iflag, tasks>>

(* Mutant: the pop goes on to the next id although the task is alive. *)
PopSkipsLive ==
  /\ cpu = "pop"
  /\ task_queue # << >>
  /\ task_queue' = Tail(task_queue)
  /\ UNCHANGED <<cpu, iflag, tasks, waker_cache, handed_out, current>>

(* ... skip the id of a task that has finished, ... *)
PopFinished ==
  /\ cpu = "pop"
  /\ task_queue # << >>
  /\ Head(task_queue) \notin tasks
  /\ task_queue' = Tail(task_queue)
  /\ UNCHANGED <<cpu, iflag, tasks, waker_cache, handed_out, current>>

(* ... or leave the loop for sleep_if_idle. *)
PopNone ==
  /\ cpu = "pop"
  /\ task_queue = << >>
  /\ cpu' = "disable"
  /\ UNCHANGED <<iflag, tasks, task_queue, waker_cache, handed_out, current>>

(* Mutant: a finished task leaves its waker in the cache. *)
PollReadyKeepsWaker ==
  /\ cpu = "poll"
  /\ tasks' = tasks \ {current}
  /\ current' = NoTask
  /\ cpu' = "pop"
  /\ UNCHANGED <<iflag, task_queue, waker_cache, handed_out>>

PollReady ==
  /\ cpu = "poll"
  /\ tasks' = tasks \ {current}
  /\ waker_cache' = waker_cache \ {current}
  /\ current' = NoTask
  /\ cpu' = "pop"
  /\ UNCHANGED <<iflag, task_queue, handed_out>>

PollPending ==
  /\ cpu = "poll"
  /\ current' = NoTask
  /\ cpu' = "pop"
  /\ UNCHANGED <<iflag, tasks, task_queue, waker_cache, handed_out>>

(* A waker called by the code that is being polled. *)
PollWakes(t) ==
  /\ cpu = "poll"
  /\ t \in handed_out
  /\ PushOrPanic(t, "poll")
  /\ UNCHANGED <<iflag, tasks, waker_cache, handed_out, current>>

(* Mutant: the queue is tested with interrupts on. *)
LeaveInterruptsOn ==
  /\ cpu = "disable"
  /\ cpu' = "check"
  /\ UNCHANGED <<iflag, tasks, task_queue, waker_cache, handed_out, current>>

(* sleep_if_idle: interrupts::disable(), then the test of the queue, then  *)
(* one of the two instructions.  The pair sti; hlt of enable_and_hlt       *)
(* cannot be interrupted in the middle.                                    *)
DisableInterrupts ==
  /\ cpu = "disable"
  /\ iflag' = FALSE
  /\ cpu' = "check"
  /\ UNCHANGED <<tasks, task_queue, waker_cache, handed_out, current>>

FoundEmpty ==
  /\ cpu = "check"
  /\ task_queue = << >>
  /\ cpu' = "idle"
  /\ UNCHANGED <<iflag, tasks, task_queue, waker_cache, handed_out, current>>

EnableAndHlt ==
  /\ cpu = "idle"
  /\ iflag' = TRUE
  /\ cpu' = "hlt"
  /\ UNCHANGED <<tasks, task_queue, waker_cache, handed_out, current>>

EnableInterrupts ==
  /\ cpu = "check"
  /\ task_queue # << >>
  /\ iflag' = TRUE
  /\ cpu' = "pop"
  /\ UNCHANGED <<tasks, task_queue, waker_cache, handed_out, current>>

-----------------------------------------------------------------------------
(* An interrupt handler runs to the end with interrupts off, between two   *)
(* steps of the processor.  Returning from it, a halted processor leaves   *)
(* enable_and_hlt and goes round the loop of run().                        *)
AfterInterrupt == IF cpu = "hlt" THEN "pop" ELSE cpu

Interruptible == iflag /\ cpu # "panic"

InterruptWakes(t) ==
  /\ Interruptible
  /\ t \in handed_out
  /\ PushOrPanic(t, AfterInterrupt)
  /\ UNCHANGED <<iflag, tasks, waker_cache, handed_out, current>>

InterruptWakesNone ==
  /\ Interruptible
  /\ cpu' = AfterInterrupt
  /\ UNCHANGED <<iflag, tasks, task_queue, waker_cache, handed_out, current>>

(* panic(): exit_qemu spins for ever. *)
PanicLoop == cpu = "panic" /\ UNCHANGED execVars

-----------------------------------------------------------------------------
PollEnds == PollReady \/ PollPending
Idle == PopNone \/ DisableInterrupts \/ FoundEmpty \/ EnableAndHlt \/ EnableInterrupts
CpuStep == Run \/ PopLive \/ PopFinished \/ PollEnds \/ Idle

ExecNext ==
  \/ \E t \in Tasks : Spawn(t) \/ PollWakes(t) \/ InterruptWakes(t)
  \/ CpuStep
  \/ InterruptWakesNone
  \/ PanicLoop

ExecSpec == ExecInit /\ [][ExecNext]_execVars

(* The processor goes on executing, and every poll returns.  Interrupts    *)
(* need not come.                                                          *)
ExecFairSpec == ExecSpec /\ WF_execVars(CpuStep)

-----------------------------------------------------------------------------
ExecTypeOK ==
  /\ cpu \in CpuState
  /\ iflag \in BOOLEAN
  /\ tasks \subseteq Tasks
  /\ task_queue \in Seq(Tasks)
  /\ Len(task_queue) <= TaskQueueCap
  /\ waker_cache \subseteq Tasks
  /\ handed_out \subseteq Tasks
  /\ current \in Tasks \cup {NoTask}

(* sleep_if_idle never halts over queued work: a wake-up that arrives at   *)
(* any point between the last failed pop and the hlt is seen.              *)
HaltOnlyWhenIdle == cpu = "hlt" => task_queue = << >>

(* run_ready_tasks keeps a waker only for tasks it still owns, although    *)
(* ids of finished tasks may still be queued: the entry of the cache made  *)
(* when a poll starts is removed with the task when the poll ends Ready.   *)
CacheOnlyLiveTasks ==
  /\ waker_cache \subseteq tasks
  /\ cpu = "poll" => current \in waker_cache

(* Work is lost only by panicking: a step that takes a live task's last    *)
(* entry out of the run queue is the step that starts to poll it.          *)
NoEntryDropped ==
  [][\A t \in tasks : (t \in Queued /\ t \notin Queued') => current' = t]_execVars

(* Every live task that has been woken is polled after the wake, whatever  *)
(* the interleaving of interrupts with run() and sleep_if_idle.            *)
WokenIsPolled ==
  \A t \in Tasks :
    (t \in tasks /\ t \in Queued /\ current # t)
      ~> (current = t \/ cpu = "panic")
==============================================================================
