----------------------------- MODULE KeyChannel ------------------------------
(***************************************************************************)
(* What the keyboard path of the kernel promises: a bounded FIFO channel   *)
(* from the keyboard to the shell.  A key that finds the channel full is   *)
(* dropped, which changes nothing here; one that was accepted is handed to *)
(* the shell, in order, and the shell gets round to act on it.             *)
(***************************************************************************)
EXTENDS Naturals, Sequences

CONSTANTS Keys, NoKey, Capacity

VARIABLES chan,    \* accepted and not yet delivered
          hand     \* delivered and not yet acted upon

chanVars == <<chan, hand>>

Init == chan = << >> /\ hand = NoKey

Accept(k) ==
  /\ Len(chan) < Capacity
  /\ chan' = Append(chan, k)
  /\ UNCHANGED hand

Deliver ==
  /\ chan # << >>
  /\ hand = NoKey
  /\ hand' = Head(chan)
  /\ chan' = Tail(chan)

Act ==
  /\ hand # NoKey
  /\ hand' = NoKey
  /\ UNCHANGED chan

Next == (\E k \in Keys : Accept(k)) \/ Deliver \/ Act

Spec == Init /\ [][Next]_chanVars

FairSpec == Spec /\ WF_chanVars(Deliver) /\ WF_chanVars(Act)
==============================================================================
