------------------------------ MODULE SnapWindow ------------------------------
(***************************************************************************)
(* What a program that walks an output file promises: it settles on a      *)
(* window of snaps, delivers each of them once and in order, and writes    *)
(* its result only when the whole window has been delivered.  It may give  *)
(* up at any time before that, and then writes nothing.                    *)
(***************************************************************************)
EXTENDS Integers, Sequences

CONSTANT Windows  \* the windows [first, last] a caller may ask for, counted from 0

VARIABLES
  window,     \* NoWindow until it is settled
  delivered,  \* the snaps delivered so far
  outcome     \* "running", "written" or "failed"

vars == <<window, delivered, outcome>>

NoWindow == [first |-> 0, last |-> -1]

Init ==
  /\ window = NoWindow
  /\ delivered = <<>>
  /\ outcome = "running"

Settle ==
  /\ outcome = "running"
  /\ window = NoWindow
  /\ window' \in Windows
  /\ UNCHANGED <<delivered, outcome>>

Due == window.first + Len(delivered)

Deliver ==
  /\ outcome = "running"
  /\ Due <= window.last
  /\ delivered' = Append(delivered, Due)
  /\ UNCHANGED <<window, outcome>>

Write ==
  /\ outcome = "running"
  /\ window # NoWindow
  /\ Due = window.last + 1
  /\ outcome' = "written"
  /\ UNCHANGED <<window, delivered>>

Fail ==
  /\ outcome = "running"
  /\ outcome' = "failed"
  /\ UNCHANGED <<window, delivered>>

Next == Settle \/ Deliver \/ Write \/ Fail

Spec == Init /\ [][Next]_vars
=============================================================================
