-------------------------- MODULE DelayedMeasurements --------------------------
(***************************************************************************)
(* The estimator of labust_navigation with an acoustic positioning system: *)
(* a USBL fix describes the vehicle as it was some filter steps ago.  The  *)
(* filter keeps its past states; when a delayed measurement comes in it    *)
(* goes back to that step and repeats the steps since.                     *)
(*                                                                         *)
(* An estimate is abstract: the sequence, step by step, of the sets of     *)
(* measurements it was corrected with.  The numbers that the Kalman filter *)
(* makes of them are left out, and so are the inputs of the prediction,    *)
(* which are stored and repeated with the measurements.  The node has one  *)
(* thread: callbacks run in ros::spinOnce at the end of a step.            *)
(***************************************************************************)
EXTENDS Integers, Sequences, FiniteSetsExt

CONSTANTS
  Punctual,         \* elements measured without delay: depth, heading, ...
  Enabled,          \* elements of a fix the parameters range, bearing and
                    \* elevation enable, and the position of the beacon
  Delays,           \* values calculateDelaySteps may return for a fix
  EnableRejection,  \* whether outlying ranges are rejected
  MaxPast,          \* size the container of past states may exceed by one
  MaxStep           \* bound of the model: the steps of the filter

(* The elements of a fix; those of the beacon (xb, yb, zb) go together.    *)
Fix == {"beacon", "range", "bearing", "elevation"}

ASSUME PunctualAssumption == Punctual \cap Fix = {}
ASSUME EnabledAssumption == Enabled \subseteq Fix /\ "beacon" \in Enabled
ASSUME DelaysAssumption == Delays \subseteq Nat
ASSUME RejectionAssumption == EnableRejection \in BOOLEAN
ASSUME MaxPastAssumption == MaxPast \in Nat
ASSUME MaxStepAssumption == MaxStep \in Nat

VARIABLES
  step,          \* the steps taken
  nav,           \* the estimate
  pastStates,    \* for each of the last steps: the estimate it started from
                 \* and the measurements it was corrected with
  measurements,  \* the measurements received since the last step
  newMeas,       \* the elements of them that may be used
  log            \* all measurements given to the filter (history)

vars == <<step, nav, pastStates, measurements, newMeas, log>>

(* A measurement of an element, the step that finds it, and its delay      *)
(* (measDelay) in steps.                                                   *)
Measurement ==
  [element : Punctual \cup Fix, arrived : 1 .. MaxStep, delay : Delays \cup {0}]

Taken(m) == m.arrived - m.delay
Elements(ms) == {m.element : m \in ms}

Init ==
  /\ step = 0
  /\ nav = <<>>
  /\ pastStates = <<>>
  /\ measurements = {}
  /\ newMeas = {}
  /\ log = {}

(* onDepth and its like.  A subscription keeps one message and spinOnce    *)
(* runs a callback at most once.                                           *)
OnPunctual(e) ==
  /\ step < MaxStep
  /\ e \notin Elements(measurements)
  /\ measurements' = measurements \cup
       {[element |-> e, arrived |-> step + 1, delay |-> 0]}
  /\ newMeas' = newMeas \cup {e}
  /\ UNCHANGED <<step, nav, pastStates, log>>

(* Seeded fault: the fix counts for the step before the present one.       *)
OnUSBLfixEarly(delay) ==
  /\ step < MaxStep
  /\ Elements(measurements) \cap Fix = {}
  /\ measurements' = measurements \cup
       {[element |-> e, arrived |-> step, delay |-> delay] : e \in Fix}
  /\ newMeas' = newMeas \cup Enabled
  /\ UNCHANGED <<step, nav, pastStates, log>>

(* onUSBLfix: all elements get their delay, the enabled ones their flag.   *)
OnUSBLfix(delay) ==
  /\ step < MaxStep
  /\ Elements(measurements) \cap Fix = {}
  /\ measurements' = measurements \cup
       {[element |-> e, arrived |-> step + 1, delay |-> delay] : e \in Fix}
  /\ newMeas' = newMeas \cup Enabled
  /\ UNCHANGED <<step, nav, pastStates, log>>

-----------------------------------------------------------------------------
(* A step of the main loop.                                                *)

Delayed == {m \in measurements : m.delay > 0}
Current == {m \in measurements : m.delay = 0 /\ m.element \in newMeas}

(* Seeded fault: the flags of the step are cleared before they are stored. *)
RememberedUnflagged ==
  Append(IF Len(pastStates) > MaxPast THEN Tail(pastStates) ELSE pastStates,
         [state |-> nav, meas |-> {}])

(* The container with the present step added, its oldest one removed when  *)
(* there are too many.                                                     *)
Remembered ==
  Append(IF Len(pastStates) > MaxPast THEN Tail(pastStates) ELSE pastStates,
         [state |-> nav, meas |-> Current])

(* Seeded fault: the repetition starts one step too late.                  *)
FirstTooLate(n) == LET delay == Max({m.delay : m \in Delayed})
                   IN IF delay >= n THEN 1 ELSE n - delay + 1

(* Where the repetition starts in a container of n states: the longest     *)
(* delay back, at most at the oldest state.                                *)
First(n) == LET delay == Max({m.delay : m \in Delayed})
            IN IF delay >= n THEN 1 ELSE n - delay

(* Seeded fault: the steps are counted from one.                           *)
PlacedLater(past, i, rejected) ==
  LET here == {m \in Delayed : m.delay = Len(past) - i + 1}
  IN [past[i] EXCEPT !.meas =
        {m \in @ : m.element \notin Elements(here)}
          \cup {m \in here : m.element \notin rejected}]

(* The delayed measurements are put in the state of the step they belong   *)
(* to, in place of older ones of the same elements.                        *)
Placed(past, i, rejected) ==
  LET here == {m \in Delayed : m.delay = Len(past) - i}
  IN [past[i] EXCEPT !.meas =
        {m \in @ : m.element \notin Elements(here)}
          \cup {m \in here : m.element \notin rejected}]

(* The estimate after repeating the steps from the first one.              *)
Replayed(past, first) ==
  past[first].state \o [i \in 1 .. Len(past) - first + 1 |-> past[first + i - 1].meas]

Outliers == IF EnableRejection THEN {{}, {"range", "bearing"}} ELSE {{}}

StepOnTime ==
  /\ Delayed = {}
  /\ nav' = Append(nav, Current)
  /\ pastStates' = Remembered
  /\ log' = log \cup Current

StepBack(rejected) ==
  /\ Delayed # {}
  /\ LET first == First(Len(Remembered))
         past == [i \in DOMAIN Remembered |->
                    IF i < first THEN Remembered[i]
                    ELSE Placed(Remembered, i, rejected)]
     IN /\ nav' = Replayed(past, first)
        /\ pastStates' = past
  /\ log' = log \cup {m \in measurements : m.element \notin rejected}

Step ==
  /\ step < MaxStep
  /\ step' = step + 1
  /\ StepOnTime \/ \E rejected \in Outliers : StepBack(rejected)
  /\ measurements' = {}
  /\ newMeas' = {}

(* The loop ends with the node (ros::ok).                                  *)
Shutdown == step = MaxStep /\ UNCHANGED vars

Next ==
  \/ \E e \in Punctual : OnPunctual(e)
  \/ \E delay \in Delays : OnUSBLfix(delay)
  \/ Step
  \/ Shutdown

Spec == Init /\ [][Next]_vars

-----------------------------------------------------------------------------
(* Properties.                                                             *)

(* The types: everything received since the last step waits for the next   *)
(* one, the estimate and the container go up to the last one.              *)
Entry == [state : Seq(SUBSET Measurement), meas : SUBSET Measurement]

TypeOK ==
  /\ step \in 0 .. MaxStep
  /\ nav \in Seq(SUBSET Measurement)
  /\ pastStates \in Seq(Entry)
  /\ measurements \subseteq Measurement
  /\ newMeas \subseteq Elements(measurements)
  /\ log \subseteq Measurement

(* A measurement is applied to the step it was taken at, and so only once, *)
(* however often the steps are repeated and the container is shifted.      *)
AppliedOnTime == \A k \in DOMAIN nav : \A m \in nav[k] : Taken(m) = k

(* Going back never loses a measurement that came without delay.           *)
PunctualKept ==
  \A m \in log : m.element \in Punctual => m \in nav[m.arrived]

(* The states that are remembered when step k is taken, the present one    *)
(* included, and the first step a measurement makes the filter repeat.     *)
Size(k) == IF k > MaxPast THEN MaxPast + 1 ELSE k
InTime(m) == m.delay \in 1 .. Size(m.arrived) - 1
RepeatedFrom(m) == Max({Taken(m), m.arrived - Size(m.arrived) + 1})

(* A delayed measurement that is not too old stays in the estimate unless  *)
(* a later one makes the filter go back to a state that was stored before  *)
(* the first came in, but belongs to a later step than the first; or comes *)
(* in for the same step, in its place.  Fixes that are further apart than  *)
(* their delay are all kept.                                               *)
KeptUnlessOvertaken ==
  \A m \in log :
    InTime(m) /\ m \notin nav[Taken(m)]
      => \E late \in log :
           /\ late.delay > 0 /\ late.arrived > m.arrived
           /\ \/ RepeatedFrom(late) \in Taken(m) + 1 .. m.arrived
              \/ Taken(late) = Taken(m)
=============================================================================
