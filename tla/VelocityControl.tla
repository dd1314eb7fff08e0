--------------------------- MODULE VelocityControl ---------------------------
(***************************************************************************)
(* The velocity controller: VelocityControl.cpp.  One thread: a loop that  *)
(* runs the callbacks that wait (spinOnce) and then step(), which gives    *)
(* every axis a force according to its mode: the joystick's, the PI        *)
(* controller's, an external identification's or none.  An axis whose      *)
(* input is older than the timeout is suspended.                           *)
(*                                                                         *)
(* A force is abstracted to its source and the age of the data it comes    *)
(* from.  One tick is a round of the loop.  PI arithmetic, windup and      *)
(* gains are left out.                                                     *)
(***************************************************************************)
EXTENDS ControlData

CONSTANTS
  DoSafetyTest,    \* false in simulated time
  ExternalIdent    \* velocity_controller/external_ident

ASSUME FlagsAssumption == DoSafetyTest \in BOOLEAN /\ ExternalIdent \in BOOLEAN

VARIABLES
  mode,         \* axis_control
  desired,      \* desired velocity of each axis
  output,       \* force on each axis, as published by the last step
  suspended,    \* suspend_axis
  refAge,       \* ticks since lastRef
  estAge,       \* ticks since lastEst
  manAge,       \* ticks since lastMan, which is also the age of tauManual
  measAge,      \* ticks since lastMeas
  extAge        \* ticks since the last tauExt

velVars == <<mode, desired, output, suspended, refAge, estAge, manAge, measAge, extAge>>

Modes == {"disable", "manual", "control", "ident"}

Forces == [by : {"none", "manual", "control", "ident"}, own : BOOLEAN, age : Ages]

NoForce == [by |-> "none", own |-> FALSE, age |-> 0]

VelInit ==
  /\ mode \in [Axes -> {"disable", "manual", "control"}]
  /\ desired = [a \in Axes |-> Filler]
  /\ output = [a \in Axes |-> NoForce]
  /\ suspended = {}
  /\ refAge = 0 /\ estAge = 0 /\ manAge = 0 /\ measAge = 0 /\ extAge = 0

------------------------------------------------------------------------------
(* Callbacks.                                                              *)

\* Every axis takes the reference, also one the message disables.
handleReference(r) ==
  /\ desired' = r
  /\ refAge' = 0
  /\ UNCHANGED <<mode, output, suspended, estAge, manAge, measAge, extAge>>

\* An axis that is not controlled follows the measured velocity, so that
\* the controller starts from there.
handleEstimates ==
  /\ desired' = [a \in Axes |-> IF mode[a] = "control" THEN desired[a] ELSE Filler]
  /\ estAge' = 0
  /\ UNCHANGED <<mode, output, suspended, refAge, manAge, measAge, extAge>>

handleManual ==
  /\ manAge' = 0
  /\ UNCHANGED <<mode, desired, output, suspended, refAge, estAge, measAge, extAge>>

handleMeasurement ==
  /\ measAge' = 0
  /\ UNCHANGED <<mode, desired, output, suspended, refAge, estAge, manAge, extAge>>

handleExt ==
  /\ ExternalIdent
  /\ extAge' = 0
  /\ UNCHANGED <<mode, desired, output, suspended, refAge, estAge, manAge, measAge>>

\* The service (and dynamic reconfiguration): modes for some of the axes.
handleServerConfig(wanted) ==
  /\ mode' = [a \in Axes |-> IF a \in DOMAIN wanted THEN wanted[a] ELSE mode[a]]
  /\ UNCHANGED <<desired, output, suspended, refAge, estAge, manAge, measAge, extAge>>

handleEnableControl(on) ==
  /\ mode' = IF on THEN mode ELSE [a \in Axes |-> "disable"]
  /\ UNCHANGED <<desired, output, suspended, refAge, estAge, manAge, measAge, extAge>>

------------------------------------------------------------------------------
(* Seeded fault: a controlled axis needs both of its inputs to time out.   *)
TimedOutTogether(a) ==
  \/ mode[a] = "control" /\ refAge > Timeout /\ estAge > Timeout
  \/ mode[a] = "ident" /\ measAge > Timeout
  \/ mode[a] = "manual" /\ manAge > Timeout

\* safetyTest(): the axes to suspend.
TimedOut(a) ==
  \/ mode[a] = "control" /\ (refAge > Timeout \/ estAge > Timeout)
  \/ mode[a] = "ident" /\ measAge > Timeout
  \/ mode[a] = "manual" /\ manAge > Timeout

AxisForce(a) ==
  CASE mode[a] = "manual"  -> [by |-> "manual", own |-> FALSE, age |-> manAge]
    [] mode[a] = "control" -> [by |-> "control", own |-> desired[a].own, age |-> desired[a].age]
    [] mode[a] = "ident" /\ ExternalIdent -> [by |-> "ident", own |-> FALSE, age |-> extAge]
    [] OTHER -> NoForce

step ==
  /\ suspended' = IF DoSafetyTest THEN {a \in Axes : TimedOut(a)} ELSE suspended
  /\ output' = [a \in Axes |-> IF a \in suspended' THEN NoForce ELSE AxisForce(a)]
  /\ UNCHANGED <<mode, desired, refAge, estAge, manAge, measAge, extAge>>

VelTick ==
  /\ refAge' = Aged(refAge) /\ estAge' = Aged(estAge) /\ manAge' = Aged(manAge)
  /\ measAge' = Aged(measAge) /\ extAge' = Aged(extAge)
  /\ desired' = [a \in Axes |-> [desired[a] EXCEPT !.age = Aged(@)]]
  /\ UNCHANGED <<mode, output, suspended>>

Configurations == UNION {[some -> Modes] : some \in SUBSET Axes}

\* A reference that the topic may bring.
References == [Axes -> [own : BOOLEAN, age : 0..RefDelay]]

VelNext ==
  \/ desired' \in References /\ handleReference(desired')
  \/ handleEstimates
  \/ handleManual
  \/ handleMeasurement
  \/ handleExt
  \/ \E wanted \in Configurations : handleServerConfig(wanted)
  \/ \E on \in BOOLEAN : handleEnableControl(on)
  \/ step
  \/ VelTick

VelSpec == VelInit /\ [][VelNext]_velVars

------------------------------------------------------------------------------
VelTypeOK ==
  /\ mode \in [Axes -> Modes]
  /\ desired \in [Axes -> Velocities]
  /\ output \in [Axes -> Forces]
  /\ suspended \subseteq Axes
  /\ refAge \in Ages /\ estAge \in Ages /\ manAge \in Ages
  /\ measAge \in Ages /\ extAge \in Ages

(***************************************************************************)
(* Outside simulated time the vehicle is never driven by an old command: a *)
(* force the joystick asked for is no older than the timeout, a force of   *)
(* the PI controller comes from data no older than the timeout and the     *)
(* delay of the references together -- whatever modes the axes went        *)
(* through since, and whichever of the two inputs stopped.                 *)
(***************************************************************************)
FreshCommand ==
  DoSafetyTest =>
    \A a \in Axes : /\ output[a].by = "manual" => output[a].age <= Timeout
                    /\ output[a].by = "control" => output[a].age <= RefDelay + Timeout

\* Why it holds: the desired velocity of an axis is never older than the
\* last reference says.
DesiredFromReference == \A a \in Axes : desired[a].age <= RefDelay + refAge
==============================================================================
