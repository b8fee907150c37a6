------------------------------- MODULE ShellIo -------------------------------
(***************************************************************************)
(* The one task the kernel spawns, the shell, on top of the Executor: how  *)
(* it waits for scancodes (ScancodeStream::poll_next) and for timer ticks  *)
(* (Sleep::poll), against the keyboard and timer interrupt handlers that   *)
(* wake it through the AtomicWakers KEYBOARD_WAKER and TIMER_WAKER.        *)
(*                                                                         *)
(* Every atomic access to state shared with a handler is a step of its     *)
(* own, so an interrupt can fall between any two of them.  A scancode is   *)
(* only told apart as completing Enter (it runs a command line) or not;    *)
(* line editing is private to the shell.                                   *)
(***************************************************************************)
EXTENDS Executor, AtomicWaker

CONSTANTS Shell,            \* the TaskId of shell_task
          ScancodeQueueCap, \* capacity of SCANCODE_QUEUE (256 in the code)
          MaxCmds,          \* commands of one pipeline (8 in parse_pipeline)
          SleepArgs,        \* arguments of the sleep command
          TickModulus,      \* usize wraps here (2^64 in the build)
          MaxKeys,          \* bound: keyboard interrupts in a behaviour
          MaxTicks          \* bound: ticks that are counted while nobody sleeps

ASSUME ShellAssumption == Tasks = {Shell}
ASSUME NoWakerAssumption == NoWaker # Shell
ASSUME ScancodeQueueCapAssumption == ScancodeQueueCap \in Nat \ {0}
ASSUME MaxCmdsAssumption == MaxCmds \in Nat
ASSUME SleepArgsAssumption == SleepArgs \subseteq Nat
ASSUME TickModulusAssumption == TickModulus \in Nat \ {0}
ASSUME BoundsAssumption == MaxKeys \in Nat /\ MaxTicks \in Nat

VARIABLES sh,         \* where shell_task is; between polls, where it resumes
          reg,        \* where AtomicWaker::register is, when sh is registering
          wakers,     \* KEYBOARD_WAKER and TIMER_WAKER
          scanq,      \* SCANCODE_QUEUE
          inhand,     \* the scancode popped and not yet acted upon
          cmds,       \* commands of the pipeline still to execute
          ticks,      \* TIMER_TICKS
          target,     \* Sleep::target
          keys,       \* KEYBOARD_EVENT_COUNT
          burst       \* history: keyboard interrupts since the last hlt

clock == <<ticks, target, keys, burst>>
shellVars == <<sh, reg, wakers, scanq, inhand, cmds, clock>>
vars == <<execVars, shellVars>>

Source == {"keyboard", "timer"}
Scancode == {"enter", "other"}
NoCode == "none"

(* start: not polled yet;  fast: the first pop of poll_next;  register,    *)
(* recheck, take, taken: the rest of poll_next;  key: acting on a          *)
(* scancode;  command: execute_pipeline;  sleep: Sleep::poll;  arm, armed: *)
(* its call of register, and its return of Pending.                        *)
ShellState == {"start", "fast", "register", "recheck", "take", "taken",
               "key", "command", "sleep", "arm", "armed"}
RegState == {"no", "publish", "release", "wake"}

(* SCANCODE_QUEUE is initialised when shell_task first runs. *)
QueueReady == sh # "start"

-----------------------------------------------------------------------------
ShellInit ==
  /\ ExecInit
  /\ sh = "start"
  /\ reg = "no"
  /\ wakers = [s \in Source |-> EmptyCell]
  /\ scanq = << >>
  /\ inhand = NoCode
  /\ cmds = 0
  /\ ticks = 0
  /\ target = 0
  /\ keys = 0
  /\ burst = 0

(* A step of shell_task inside its poll that touches no executor state. *)
InPoll(from, to) ==
  /\ cpu = "poll"
  /\ sh = from
  /\ reg = "no"
  /\ sh' = to
  /\ UNCHANGED execVars

(* The prologue of shell_task, with ScancodeStream::new. *)
ShellStarts ==
  /\ InPoll("start", "fast")
  /\ UNCHANGED <<reg, wakers, scanq, inhand, cmds, clock>>

(* poll_next, fast path. *)
FastPop ==
  /\ InPoll("fast", "key")
  /\ scanq # << >>
  /\ scanq' = Tail(scanq)
  /\ inhand' = Head(scanq)
  /\ UNCHANGED <<reg, wakers, cmds, clock>>

(* Mutant: the fast path returns Pending without registering. *)
FastEmptyPends ==
  /\ sh = "fast" /\ reg = "no"
  /\ scanq = << >>
  /\ PollPending
  /\ UNCHANGED <<sh, reg, wakers, scanq, inhand, cmds, clock>>

FastEmpty ==
  /\ InPoll("fast", "register")
  /\ scanq = << >>
  /\ UNCHANGED <<reg, wakers, scanq, inhand, cmds, clock>>

-----------------------------------------------------------------------------
(* AtomicWaker::register(cx.waker()), called by poll_next and Sleep::poll. *)
Registering(s) == sh = IF s = "keyboard" THEN "register" ELSE "arm"
RegisterReturns(s) == sh' = IF s = "keyboard" THEN "recheck" ELSE "armed"

RegisterBegins(s) ==
  /\ cpu = "poll" /\ Registering(s) /\ reg = "no"
  /\ CanRegister(wakers[s])
  /\ wakers' = [wakers EXCEPT ![s] = BeginRegister(@, current)]
  /\ reg' = "publish"
  /\ UNCHANGED execVars
  /\ UNCHANGED <<sh, scanq, inhand, cmds, clock>>

RegisterPublishes(s) ==
  /\ cpu = "poll" /\ Registering(s) /\ reg = "publish"
  /\ \/ /\ Undisturbed(wakers[s])
        /\ wakers' = [wakers EXCEPT ![s] = EndRegister(@)]
        /\ reg' = "no"
        /\ RegisterReturns(s)
     \/ /\ ~Undisturbed(wakers[s])
        /\ wakers' = [wakers EXCEPT ![s] = TakeBack(@)]
        /\ reg' = "release"
        /\ UNCHANGED sh
  /\ UNCHANGED execVars
  /\ UNCHANGED <<scanq, inhand, cmds, clock>>

RegisterReleases(s) ==
  /\ cpu = "poll" /\ Registering(s) /\ reg = "release"
  /\ wakers' = [wakers EXCEPT ![s] = EndRegister(@)]
  /\ reg' = "wake"
  /\ UNCHANGED execVars
  /\ UNCHANGED <<sh, scanq, inhand, cmds, clock>>

RegisterWakes(s) ==
  /\ Registering(s) /\ reg = "wake"
  /\ PollWakes(current)
  /\ reg' = "no"
  /\ RegisterReturns(s)
  /\ UNCHANGED <<wakers, scanq, inhand, cmds, clock>>

-----------------------------------------------------------------------------
(* poll_next after register: pop again, and give the registration back     *)
(* (KEYBOARD_WAKER.take()) if a scancode has come meanwhile.               *)
RecheckPop ==
  /\ InPoll("recheck", "take")
  /\ scanq # << >>
  /\ scanq' = Tail(scanq)
  /\ inhand' = Head(scanq)
  /\ UNCHANGED <<reg, wakers, cmds, clock>>

(* Mutant: no second look at the queue after register. *)
NoRecheck ==
  /\ sh = "recheck" /\ reg = "no"
  /\ PollPending
  /\ sh' = "fast"
  /\ UNCHANGED <<reg, wakers, scanq, inhand, cmds, clock>>

RecheckEmpty ==
  /\ sh = "recheck" /\ reg = "no"
  /\ scanq = << >>
  /\ PollPending
  /\ sh' = "fast"
  /\ UNCHANGED <<reg, wakers, scanq, inhand, cmds, clock>>

TakeBegins ==
  /\ InPoll("take", "taken")
  /\ wakers' = [wakers EXCEPT !["keyboard"] = BeginTake(@)]
  /\ UNCHANGED <<reg, scanq, inhand, cmds, clock>>

(* Mutant: the registration is not given back, and the task wakes itself. *)
TakeWakes ==
  /\ sh = "taken" /\ reg = "no"
  /\ PollWakes(current)
  /\ sh' = "key"
  /\ wakers' = [wakers EXCEPT !["keyboard"].state = "waiting"]
  /\ UNCHANGED <<reg, scanq, inhand, cmds, clock>>

TakeEnds ==
  /\ InPoll("taken", "key")
  /\ wakers' = [wakers EXCEPT !["keyboard"] = EndTake(@)]
  /\ UNCHANGED <<reg, scanq, inhand, cmds, clock>>

-----------------------------------------------------------------------------
(* shell_task acts on the scancode: line editing, or a command line of up  *)
(* to MaxCmds commands.                                                    *)
KeyOther ==
  /\ InPoll("key", "fast")
  /\ inhand = "other"
  /\ inhand' = NoCode
  /\ UNCHANGED <<reg, wakers, scanq, cmds, clock>>

KeyEnter ==
  /\ InPoll("key", "command")
  /\ inhand = "enter"
  /\ inhand' = NoCode
  /\ cmds' \in 0..MaxCmds
  /\ UNCHANGED <<reg, wakers, scanq, clock>>

(* execute_pipeline: a command that does not wait, sleep n, or the end. *)
CommandRuns ==
  /\ InPoll("command", "command")
  /\ cmds > 0
  /\ cmds' = cmds - 1
  /\ UNCHANGED <<reg, wakers, scanq, inhand, clock>>

(* Sleep::new(n): now + n in usize, which wraps in the release build: the  *)
(* sleep then ends at once.                                                *)
SleepNew(n) ==
  /\ InPoll("command", "sleep")
  /\ cmds > 0
  /\ cmds' = cmds - 1
  /\ target' = (ticks + n) % TickModulus
  /\ UNCHANGED <<reg, wakers, scanq, inhand, ticks, keys, burst>>

CommandsDone ==
  /\ InPoll("command", "fast")
  /\ cmds = 0
  /\ UNCHANGED <<reg, wakers, scanq, inhand, cmds, clock>>

(* Mutant: Sleep::poll waits for a tick beyond its target. *)
SleepReadyNever ==
  /\ InPoll("sleep", "command")
  /\ ticks > target
  /\ UNCHANGED <<reg, wakers, scanq, inhand, cmds, clock>>

(* Sleep::poll: test the tick counter, then register and return Pending. *)
SleepReady ==
  /\ InPoll("sleep", "command")
  /\ ticks >= target
  /\ UNCHANGED <<reg, wakers, scanq, inhand, cmds, clock>>

SleepNotYet ==
  /\ InPoll("sleep", "arm")
  /\ ticks < target
  /\ UNCHANGED <<reg, wakers, scanq, inhand, cmds, clock>>

SleepPending ==
  /\ sh = "armed" /\ reg = "no"
  /\ PollPending
  /\ sh' = "sleep"
  /\ UNCHANGED <<reg, wakers, scanq, inhand, cmds, clock>>

-----------------------------------------------------------------------------
(* main: spawn the shell, then run the executor. *)
Main ==
  \/ Spawn(Shell) /\ UNCHANGED shellVars
  \/ Run /\ tasks # {} /\ UNCHANGED shellVars

ExecutorStep ==
  \/ PopLive /\ UNCHANGED shellVars
  \/ PopNone /\ UNCHANGED shellVars
  \/ DisableInterrupts /\ UNCHANGED shellVars
  \/ FoundEmpty /\ UNCHANGED shellVars
  \/ EnableInterrupts /\ UNCHANGED shellVars
  \/ /\ EnableAndHlt
     /\ burst' = 0
     /\ UNCHANGED <<sh, reg, wakers, scanq, inhand, cmds, ticks, target, keys>>

PollNext ==
  \/ FastPop \/ FastEmpty
  \/ RecheckPop \/ RecheckEmpty \/ TakeBegins \/ TakeEnds

Register ==
  \E s \in Source : \/ RegisterBegins(s) \/ RegisterPublishes(s)
                    \/ RegisterReleases(s) \/ RegisterWakes(s)

ShellStep ==
  \/ ShellStarts \/ PollNext \/ Register
  \/ KeyOther \/ KeyEnter \/ CommandRuns \/ CommandsDone
  \/ \E n \in SleepArgs : SleepNew(n)
  \/ SleepReady \/ SleepNotYet \/ SleepPending

-----------------------------------------------------------------------------
(* Mutant: the handler empties the cell and wakes nobody. *)
HandlerForgetsWake(s) ==
  /\ wakers' = [wakers EXCEPT ![s] = AfterWake(@)]
  /\ InterruptWakesNone

(* AtomicWaker::wake() inside a handler, with the effect of the interrupt  *)
(* on the executor.                                                        *)
HandlerWakes(s) ==
  /\ wakers' = [wakers EXCEPT ![s] = AfterWake(@)]
  /\ \/ WakeTakes(wakers[s]) /\ InterruptWakes(wakers[s].waker)
     \/ ~WakeTakes(wakers[s]) /\ InterruptWakesNone

(* timer_interrupt_handler.  The counter is frozen at MaxTicks while no    *)
(* sleep depends on it, to keep the model finite.                          *)
TimerInterrupt ==
  /\ ticks' = IF ticks < MaxTicks \/ ticks < target THEN ticks + 1 ELSE ticks
  /\ HandlerWakes("timer")
  /\ UNCHANGED <<sh, reg, scanq, inhand, cmds, target, keys, burst>>

(* Mutant: a full queue takes one more scancode. *)
EnqueueOneTooMany(code) ==
  scanq' = IF QueueReady /\ Len(scanq) <= ScancodeQueueCap
             THEN Append(scanq, code) ELSE scanq

(* keyboard_interrupt_handler: the scancode is dropped when the queue is   *)
(* full or not initialised.                                                *)
EnqueueScancode(code) ==
  scanq' = IF QueueReady /\ Len(scanq) < ScancodeQueueCap
             THEN Append(scanq, code) ELSE scanq

KeyboardInterrupt(code) ==
  /\ keys < MaxKeys
  /\ EnqueueScancode(code)
  /\ keys' = keys + 1
  /\ burst' = burst + 1
  /\ HandlerWakes("keyboard")
  /\ UNCHANGED <<sh, reg, inhand, cmds, ticks, target>>

-----------------------------------------------------------------------------
Processor == Main \/ ExecutorStep \/ ShellStep

(* A kernel that has panicked spins: nothing below is enabled then. *)
ShellNext ==
  \/ Processor
  \/ TimerInterrupt
  \/ \E code \in Scancode : KeyboardInterrupt(code)

ShellSpec == ShellInit /\ [][ShellNext]_vars

(* The processor executes, and the programmable timer keeps ticking.  Keys *)
(* need not be pressed.                                                    *)
ShellFairSpec == ShellSpec /\ WF_vars(Processor) /\ WF_vars(TimerInterrupt)

-----------------------------------------------------------------------------
ShellTypeOK ==
  /\ ExecTypeOK
  /\ sh \in ShellState
  /\ reg \in RegState
  /\ wakers \in [Source -> WakerCell(Tasks)]
  /\ scanq \in Seq(Scancode)
  /\ Len(scanq) <= ScancodeQueueCap
  /\ inhand \in Scancode \cup {NoCode}
  /\ cmds \in Nat
  /\ ticks \in Nat /\ target \in Nat /\ keys \in Nat /\ burst \in Nat

Holds(s) == wakers[s].state = "waiting" /\ wakers[s].waker = Shell

(* The shell between two polls, and what it waits for. *)
Suspended == cpu \notin {"boot", "poll", "panic"}

(* The register-then-recheck protocol of poll_next and the check-then-     *)
(* register protocol of Sleep::poll lose no wake-up: a suspended shell is  *)
(* in the run queue, or the handler of what it waits for will put it       *)
(* there; and with scancodes waiting it is in the run queue.               *)
NoLostWakeup ==
  Suspended =>
    \/ Shell \in Queued
    \/ sh = "fast" /\ scanq = << >> /\ Holds("keyboard")
    \/ sh = "sleep" /\ Holds("timer")

(* The same at the point where it matters: enable_and_hlt stops the        *)
(* processor only when there is nothing for the shell to do, and leaves a  *)
(* handler armed that will start it again.                                 *)
HaltIsSafe ==
  cpu = "hlt" =>
    /\ task_queue = << >>
    /\ \/ sh = "fast" /\ scanq = << >> /\ Holds("keyboard")
       \/ sh = "sleep" /\ Holds("timer")

(* run queue entries beyond the one the shell needs come only from         *)
(* scancodes that arrive while poll_next is between its two pops, so a     *)
(* burst of b keyboard interrupts without a halt leaves at most b + 2.     *)
BacklogBound == Len(task_queue) <= burst + 2

(* wake_task's expect("task_queue full") never fires. *)
NeverPanics == cpu # "panic"

(* A sleeping shell wakes up, also when the target has wrapped around. *)
SleepEnds == (sh = "sleep") ~> (sh = "command")

(* What the keyboard path promises its user: see KeyChannel. *)
Channel == INSTANCE KeyChannel WITH chan <- scanq, hand <- inhand,
                                    Keys <- Scancode, NoKey <- NoCode,
                                    Capacity <- ScancodeQueueCap
KeysReachShell == Channel!FairSpec
==============================================================================
