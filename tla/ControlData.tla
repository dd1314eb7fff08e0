----------------------------- MODULE ControlData -----------------------------
(***************************************************************************)
(* What the messages between the control nodes carry.  A velocity is       *)
(* abstracted to the age of the data it was computed from, in ticks, and   *)
(* whether a high-level controller asked for it; the other velocities are  *)
(* the zero of an axis nobody drives and the measured velocity.            *)
(***************************************************************************)
EXTENDS Naturals

CONSTANTS
  Axes,        \* degrees of freedom
  Timeout,     \* velocity_controller/timeout, in ticks
  RefDelay     \* how old the data of a reference may be when it is heard

ASSUME TimeoutAssumption == Timeout \in Nat
ASSUME RefDelayAssumption == RefDelay \in Nat

\* Ages saturate once they are past all bounds.
AgeCap == RefDelay + Timeout + 1
Ages == 0..AgeCap
Aged(n) == IF n < AgeCap THEN n + 1 ELSE n

Velocities == [own : BOOLEAN, age : Ages]

Wish   == [own |-> TRUE, age |-> 0]
Filler == [own |-> FALSE, age |-> 0]
==============================================================================
