----------------------------- MODULE AtomicWaker -----------------------------
(***************************************************************************)
(* futures_util::task::AtomicWaker, the one-slot cell through which an     *)
(* interrupt handler wakes the task that last registered itself            *)
(* (KEYBOARD_WAKER and TIMER_WAKER in kernel/src/flags.rs).  The crate is  *)
(* not part of the repository: the operators below are the atomic steps of *)
(* its register, take and wake that an interrupt can fall between.         *)
(***************************************************************************)

CONSTANT NoWaker     \* an empty slot

(* The values of the cell's state word: the two bits REGISTERING and WAKING. *)
WakerState == {"waiting", "registering", "registering_waking", "waking"}

WakerCell(T) == [state : WakerState, waker : T \cup {NoWaker}]

EmptyCell == [state |-> "waiting", waker |-> NoWaker]

-----------------------------------------------------------------------------
(* register(t): lock the cell and store the waker, ... *)
CanRegister(w) == w.state = "waiting"
BeginRegister(w, t) == [state |-> "registering", waker |-> t]

(* ... then unlock it, if no wake() came meanwhile.  Otherwise take the    *)
(* waker back, unlock, and let the registering thread do the wake itself.  *)
Undisturbed(w) == w.state = "registering"
EndRegister(w) == [w EXCEPT !.state = "waiting"]
TakeBack(w) == [w EXCEPT !.waker = NoWaker]

(* take() by the thread that polls, in two steps. *)
BeginTake(w) == [w EXCEPT !.state = "waking"]
EndTake(w) == EmptyCell

(* wake(), run to completion inside an interrupt handler: it empties the   *)
(* cell unless the interrupted thread has it locked.                       *)
WakeTakes(w) == w.state = "waiting" /\ w.waker # NoWaker

AfterWake(w) ==
  CASE w.state = "waiting"     -> EmptyCell
    [] w.state = "registering" -> [w EXCEPT !.state = "registering_waking"]
    [] OTHER                   -> w
==============================================================================
