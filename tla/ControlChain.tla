---------------------------- MODULE ControlChain ----------------------------
(***************************************************************************)
(* The chain that drives the vehicle: high-level controllers (HLControl),  *)
(* the merger of their requests (AsyncMerger) and the velocity controller  *)
(* (VelocityControl), three kinds of processes joined by topics.           *)
(*                                                                         *)
(* One tick is a round of the velocity controller's loop.  In a tick the   *)
(* navigation publishes at most one estimate, every process handles what   *)
(* reached it, in any order, and the velocity controller makes one step;   *)
(* what reaches it after its step waits for the next.  Queues hold one     *)
(* message, so that a newer one replaces it, except the merger's input.    *)
(***************************************************************************)
EXTENDS HLControl, AsyncMerger, VelocityControl

CONSTANT MaxOps    \* steps of the operator

VARIABLES
  estimate,        \* who has yet to handle the estimate published
  nav,             \* whether the navigation publishes estimates
  stepped,         \* whether the velocity controller made its step
  ops,             \* steps the operator made
  steady,          \* (history) ticks each controller and its axes were left alone,
                   \* enabled, with a reference and an estimate in each tick
  quiet            \* (history) ticks since a request reached the merger

(***************************************************************************)
(* A value can wait in the merger for the timer's second tick after the    *)
(* round began, and then for the next step of the velocity controller.     *)
(***************************************************************************)
ASSUME ChainDelay == RefDelay >= 2 * Ts + 1

\* The controllers drive axes of the vehicle, under names of their own.
ASSUME ChainNames ==
         \A c \in Controllers, asked \in Asked :
           /\ ControllerStep(c, asked).requester \in Requesters
           /\ DOMAIN ControllerStep(c, asked).nu \subseteq Axes

chainVars == <<estimate, nav, stepped, ops, steady, quiet>>
vars == <<hlVars, mergerVars, velVars, chainVars>>

\* Longest the vehicle goes on being driven once the controllers are silent.
SilenceBound == 3 * Ts + Timeout + 2
SteadyBound == 2 * Ts + 2

Up(n, bound) == IF n > bound THEN n ELSE n + 1

Recipients == Controllers \cup {"velcon"}

Driven(c) == DOMAIN ControllerStep(c, "value").nu

\* The chain starts with the axes controlled; some of the controllers may
\* have been enabled, and given a reference, before the first estimate.
Init ==
  /\ enable \in SUBSET Controllers /\ refOk = Controllers
  /\ ref = [c \in Controllers |-> "value"]
  /\ MergerInit /\ VelInit
  /\ mode = [a \in Axes |-> "control"]
  /\ estimate = Recipients /\ nav = TRUE /\ stepped = FALSE
  /\ ops = 0
  /\ steady = [c \in Controllers |-> 0]
  /\ quiet = 0

------------------------------------------------------------------------------
(* The operator, or the mission, acts while the tick is early: a service   *)
(* call later in the tick could as well come in the next one, because      *)
(* nobody reads what it changes in between.                                *)

Early == ~stepped /\ (nav => Controllers \subseteq estimate)

Operate(disturbed) ==
  /\ ops < MaxOps /\ Early
  /\ ops' = ops + 1
  /\ steady' = [c \in Controllers |-> IF c \in disturbed THEN 0 ELSE steady[c]]
  /\ UNCHANGED <<estimate, nav, stepped, quiet>>

Enable(c, on) ==
  /\ on # (c \in enable)
  /\ Operate({c}) /\ onEnableControl(c, on)
  /\ UNCHANGED <<mergerVars, velVars>>

Reference(c, asked) ==
  /\ c \in refOk => asked # ref[c]
  /\ Operate({c}) /\ onRef(c, asked)
  /\ UNCHANGED <<mergerVars, velVars>>

Configure(a, m) ==
  /\ m # mode[a]
  /\ Operate(Controllers) /\ handleServerConfig([x \in {a} |-> m])
  /\ UNCHANGED <<hlVars, mergerVars>>

DisableAxes ==
  /\ Operate(Controllers) /\ handleEnableControl(FALSE)
  /\ UNCHANGED <<hlVars, mergerVars>>

Joystick ==
  /\ \E a \in Axes : mode[a] = "manual"
  /\ Operate({}) /\ handleManual
  /\ UNCHANGED <<hlVars, mergerVars>>

\* The navigation stops or starts publishing; one lost estimate is a stop
\* followed by a start.
Navigation ==
  /\ ops < MaxOps /\ Early
  /\ ops' = ops + 1
  /\ nav' = ~nav
  /\ UNCHANGED <<hlVars, mergerVars, velVars, estimate, stepped, steady, quiet>>

Operator ==
  \/ \E c \in Controllers, on \in BOOLEAN : Enable(c, on)
  \/ \E c \in Controllers, asked \in Asked : Reference(c, asked)
  \/ \E a \in Axes, m \in {"disable", "manual", "control"} : Configure(a, m)
  \/ DisableAxes
  \/ Joystick
  \/ Navigation

------------------------------------------------------------------------------
(* The processes.                                                          *)

\* A controller handles the estimate, and the merger the request it
\* publishes, if it does.
Control(c) ==
  /\ c \in estimate
  /\ estimate' = estimate \ {c}
  /\ onEstimate(c)
  /\ IF c \in Speaking
       THEN onTopic(ControllerStep(c, ref[c])) /\ quiet' = 0
       ELSE UNCHANGED <<mergerVars, quiet>>
  /\ UNCHANGED <<velVars, nav, stepped, ops, steady>>

MergerTimer ==
  /\ checkArrived
  /\ UNCHANGED <<hlVars, velVars, chainVars>>

HearReference ==
  /\ ~stepped /\ out # NoMessage
  /\ handleReference(out)
  /\ Taken
  /\ UNCHANGED <<hlVars, chainVars>>

HearEstimate ==
  /\ ~stepped /\ "velcon" \in estimate
  /\ estimate' = estimate \ {"velcon"}
  /\ handleEstimates
  /\ UNCHANGED <<hlVars, mergerVars, nav, stepped, ops, steady, quiet>>

Step ==
  /\ ~stepped /\ out = NoMessage /\ "velcon" \notin estimate
  /\ stepped' = TRUE
  /\ step
  /\ UNCHANGED <<hlVars, mergerVars, estimate, nav, ops, steady, quiet>>

Tick ==
  /\ stepped /\ estimate \subseteq {"velcon"}
  /\ MergerTick
  /\ VelTick
  /\ stepped' = FALSE
  /\ estimate' = IF nav THEN Recipients ELSE estimate
  /\ steady' = [c \in Controllers |->
                  IF nav /\ c \in Speaking /\ ref[c] = "value"
                     /\ \A a \in Driven(c) : mode[a] = "control"
                    THEN Up(steady[c], SteadyBound) ELSE 0]
  /\ quiet' = Up(quiet, SilenceBound)
  /\ UNCHANGED <<hlVars, nav, ops>>

Next ==
  \/ Operator
  \/ \E c \in Controllers : Control(c)
  \/ MergerTimer
  \/ HearReference
  \/ HearEstimate
  \/ Step
  \/ Tick

Spec == Init /\ [][Next]_vars

------------------------------------------------------------------------------
(* Properties.                                                             *)

\* The state of every process is well formed.
TypeOK ==
  /\ MergerTypeOK /\ VelTypeOK
  /\ enable \subseteq Controllers /\ refOk \subseteq Controllers
  /\ ref \in [Controllers -> Asked]
  /\ estimate \subseteq Controllers \cup {"velcon"}

(***************************************************************************)
(* In the chain the velocity controller meets the assumption of its        *)
(* promise (FreshCommand), that no reference is older than RefDelay when   *)
(* it is heard: the chain implements the velocity controller's own         *)
(* specification.                                                          *)
(***************************************************************************)
VelocityControlAlone == VelSpec

(***************************************************************************)
(* When the controllers fall silent, disabled, dead or without estimates,  *)
(* the merger's rounds and the velocity controller's timeout together end  *)
(* the force on every controlled axis within a bounded time (outside       *)
(* simulated time, in which the velocity controller has no timeout).       *)
(***************************************************************************)
SilenceStops ==
  (DoSafetyTest /\ quiet > SilenceBound) =>
    \A a \in Axes : output[a].by # "control"

(***************************************************************************)
(* A controller that is left alone keeps its axes: whatever the others do, *)
(* start, stop, change their name or lose their reference, its axes are    *)
(* driven by what was asked for them and never suspended.  This needs a    *)
(* velocity controller that waits as long as the merger may wait for a     *)
(* controller that left, and a sampling time longer than the period of the *)
(* estimates: otherwise the timer can end two rounds between a             *)
(* controller's requests, and the second has nothing for its axes.         *)
(***************************************************************************)
VelocityControlIsPatient == Timeout >= 2 * Ts
MergerWaits == Ts >= 2

OthersDoNotInterfere ==
  (VelocityControlIsPatient /\ MergerWaits) =>
    \A c \in Controllers :
      steady[c] > SteadyBound =>
        \A a \in Driven(c) : output[a].by = "control" /\ output[a].own
==============================================================================
