------------------------ MODULE VelocityControlProofs ------------------------
(***************************************************************************)
(* The promise of the velocity controller, proved for every set of axes,   *)
(* timeout, delay of the references and configuration of the node, and for *)
(* every order of references, estimates, mode changes and steps.           *)
(***************************************************************************)
EXTENDS VelocityControl, TLAPS

LEMMA VelAssumptions ==
  Timeout \in Nat /\ RefDelay \in Nat /\ DoSafetyTest \in BOOLEAN /\ ExternalIdent \in BOOLEAN
BY TimeoutAssumption, RefDelayAssumption, FlagsAssumption

\* Growing older stays within the ages that are counted.
LEMMA AgedIsAge == ASSUME NEW n \in Ages PROVE Aged(n) \in Ages
BY VelAssumptions DEF Ages, Aged, AgeCap

\* An age that counts is past the timeout only if it really is.
LEMMA AgesAreNaturals ==
  /\ Ages \subseteq Nat
  /\ 0 \in Ages
  /\ 0..RefDelay \subseteq Ages
BY VelAssumptions DEF Ages, AgeCap

(***************************************************************************)
(* The state of the velocity controller keeps its type.                    *)
(***************************************************************************)
LEMMA VelTypeStep == VelTypeOK /\ [VelNext]_velVars => VelTypeOK'
<1> SUFFICES ASSUME VelTypeOK, [VelNext]_velVars PROVE VelTypeOK'
  OBVIOUS
<1> USE DEF VelTypeOK
<1>1. CASE desired' \in References /\ handleReference(desired')
  BY <1>1, AgesAreNaturals DEF References, handleReference, Velocities
<1>2. CASE handleEstimates
  <2>1. desired' \in [Axes -> Velocities]
    BY <1>2, AgesAreNaturals DEF handleEstimates, Filler, Velocities
  <2> QED BY <1>2, <2>1, AgesAreNaturals DEF handleEstimates
<1>3. CASE handleManual
  BY <1>3, AgesAreNaturals DEF handleManual
<1>4. CASE handleMeasurement
  BY <1>4, AgesAreNaturals DEF handleMeasurement
<1>5. CASE handleExt
  BY <1>5, AgesAreNaturals DEF handleExt
<1>6. ASSUME NEW wanted \in Configurations, handleServerConfig(wanted) PROVE VelTypeOK'
  <2>1. PICK some \in SUBSET Axes : wanted \in [some -> Modes]
    BY <1>6 DEF Configurations
  <2>2. \A a \in DOMAIN wanted : wanted[a] \in Modes
    BY <2>1
  <2>3. mode' \in [Axes -> Modes]
    BY <1>6, <2>2 DEF handleServerConfig
  <2> QED BY <1>6, <2>3 DEF handleServerConfig
<1>7. ASSUME NEW on \in BOOLEAN, handleEnableControl(on) PROVE VelTypeOK'
  <2>1. mode' \in [Axes -> Modes]
    BY <1>7 DEF handleEnableControl, Modes
  <2> QED BY <1>7, <2>1 DEF handleEnableControl
<1>8. CASE step
  <2>1. \A a \in Axes : AxisForce(a) \in Forces
    BY AgesAreNaturals DEF AxisForce, Forces, NoForce, Velocities, Modes
  <2>2. output' \in [Axes -> Forces]
    BY <1>8, <2>1, AgesAreNaturals DEF step, Forces, NoForce
  <2>3. suspended' \subseteq Axes
    BY <1>8 DEF step
  <2> QED BY <1>8, <2>2, <2>3 DEF step
<1>9. CASE VelTick
  <2>1. \A a \in Axes : [desired[a] EXCEPT !.age = Aged(@)] \in Velocities
    BY AgedIsAge DEF Velocities
  <2>2. desired' \in [Axes -> Velocities]
    BY <1>9, <2>1 DEF VelTick
  <2> QED BY <1>9, <2>2, AgedIsAge DEF VelTick
<1>10. CASE UNCHANGED velVars
  BY <1>10 DEF velVars
<1> QED BY <1>1, <1>2, <1>3, <1>4, <1>5, <1>6, <1>7, <1>8, <1>9, <1>10 DEF VelNext

LEMMA VelTypeInit == VelInit => VelTypeOK
BY AgesAreNaturals DEF VelInit, VelTypeOK, Modes, Velocities, Filler, Forces, NoForce

THEOREM VelTyping == VelSpec => []VelTypeOK
BY VelTypeInit, VelTypeStep, PTL DEF VelSpec

(***************************************************************************)
(* The desired velocities are never older than the last reference says: a  *)
(* reference renews them all, an estimate only makes one younger, and      *)
(* time makes both sides older.                                            *)
(***************************************************************************)
LEMMA DesiredStep ==
  VelTypeOK /\ DesiredFromReference /\ [VelNext]_velVars => DesiredFromReference'
<1> SUFFICES ASSUME VelTypeOK, DesiredFromReference, [VelNext]_velVars,
                    NEW a \in Axes
             PROVE  desired'[a].age <= RefDelay + refAge'
  BY DEF DesiredFromReference
<1>t. desired[a].age \in Nat /\ refAge \in Nat /\ RefDelay \in Nat
  BY AgesAreNaturals, VelAssumptions DEF VelTypeOK, Velocities
<1>b. desired[a].age <= RefDelay + refAge
  BY DEF DesiredFromReference
<1>1. CASE desired' \in References /\ handleReference(desired')
  BY <1>1, <1>t DEF References, handleReference
<1>2. CASE handleEstimates
  BY <1>2, <1>t, <1>b DEF handleEstimates, Filler
<1>3. CASE VelTick
  <2>1. desired'[a].age = Aged(desired[a].age) /\ refAge' = Aged(refAge)
    BY <1>3 DEF VelTick, VelTypeOK, Velocities
  <2> QED BY <2>1, <1>t, <1>b, VelAssumptions DEF Aged, AgeCap
<1>4. CASE UNCHANGED <<desired, refAge>>
  BY <1>4, <1>b
<1> QED BY <1>1, <1>2, <1>3, <1>4
        DEF VelNext, velVars, handleManual, handleMeasurement, handleExt,
            handleServerConfig, handleEnableControl, step

(***************************************************************************)
(* A step gives no axis a force from data that is too old.                 *)
(***************************************************************************)
LEMMA FreshStep ==
  VelTypeOK /\ DesiredFromReference /\ FreshCommand /\ [VelNext]_velVars => FreshCommand'
<1> SUFFICES ASSUME VelTypeOK, DesiredFromReference, FreshCommand, [VelNext]_velVars,
                    DoSafetyTest, NEW a \in Axes
             PROVE  /\ output'[a].by = "manual" => output'[a].age <= Timeout
                    /\ output'[a].by = "control" => output'[a].age <= RefDelay + Timeout
  BY DEF FreshCommand
<1>1. CASE step
  <2>1. suspended' = {x \in Axes : TimedOut(x)}
    BY <1>1 DEF step
  <2>2. output'[a] = IF TimedOut(a) THEN NoForce ELSE AxisForce(a)
    BY <1>1, <2>1 DEF step
  <2>3. CASE TimedOut(a)
    BY <2>2, <2>3 DEF NoForce
  <2>4. CASE ~TimedOut(a) /\ mode[a] = "manual"
    BY <2>2, <2>4, AgesAreNaturals, VelAssumptions DEF TimedOut, AxisForce, VelTypeOK
  <2>5. CASE ~TimedOut(a) /\ mode[a] = "control"
    <3>1. refAge \in Nat /\ desired[a].age \in Nat /\ ~(refAge > Timeout)
      BY <2>5, AgesAreNaturals DEF TimedOut, VelTypeOK, Velocities
    <3>2. desired[a].age <= RefDelay + refAge
      BY DEF DesiredFromReference
    <3>3. output'[a].by = "control" /\ output'[a].age = desired[a].age
      BY <2>2, <2>5 DEF AxisForce
    <3> QED BY <3>1, <3>2, <3>3, VelAssumptions
  <2>6. CASE ~TimedOut(a) /\ mode[a] \notin {"manual", "control"}
    BY <2>2, <2>6 DEF AxisForce, NoForce
  <2> QED BY <2>3, <2>4, <2>5, <2>6
<1>2. CASE UNCHANGED output
  BY <1>2 DEF FreshCommand
<1> QED BY <1>1, <1>2
        DEF VelNext, velVars, handleReference, handleEstimates, handleManual,
            handleMeasurement, handleExt, handleServerConfig, handleEnableControl, VelTick

LEMMA FreshInit == VelInit => DesiredFromReference /\ FreshCommand
BY VelAssumptions DEF VelInit, DesiredFromReference, FreshCommand, Filler, NoForce

(***************************************************************************)
(* The vehicle is never driven by an old command: whatever arrives, and    *)
(* whatever the modes are set to in between, a force of the joystick is no *)
(* older than the timeout, and a force of the controller comes from data   *)
(* no older than the timeout and the references' delay together.           *)
(***************************************************************************)
THEOREM VelFreshCommand == VelSpec => []FreshCommand
<1>1. VelInit => VelTypeOK /\ DesiredFromReference /\ FreshCommand
  BY VelTypeInit, FreshInit
<1>2. /\ VelTypeOK /\ DesiredFromReference /\ FreshCommand
      /\ [VelNext]_velVars
      => (VelTypeOK /\ DesiredFromReference /\ FreshCommand)'
  BY VelTypeStep, DesiredStep, FreshStep
<1> QED BY <1>1, <1>2, PTL DEF VelSpec
==============================================================================
