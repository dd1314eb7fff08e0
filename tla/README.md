# A verification project for labust-ros-pkg

labust-ros-pkg is the software of an autonomous underwater vehicle, a stack of
ROS packages in C++.  This directory holds TLA+ models of the parts of it whose
correctness hangs on the order of events, the TLC runs that check them on small
instances, and TLAPS proofs of what holds for instances of any size.

- [The system](#the-system)
- [The modules](#the-modules)
- [The runs](#the-runs)
- [Fairness](#fairness)
- [The proofs](#the-proofs)
- [Where the code differs from what it says](#where-the-code-differs-from-what-it-says)
- [What is not modelled](#what-is-not-modelled)
- [The plan](#the-plan)

`PROJECT.json` lists the components, the runs, the lines of code every
definition models, a seeded fault for every property (the operators under a
comment that begins with "Seeded fault" are used for nothing else), the
hazards of the code and the theorems.

To check a run: `tlc -config PNController_orders.cfg MCPNController.tla`; to
check the proofs of a module: `tlapm PNControllerProofs.tla`.

## The system

The operator sends a mission; a mission is a sequence of *primitives* (go to a
point, keep a position, dock, ...); a primitive is an action server that enables
high-level controllers and gives them references; the controllers give
references to the velocity controller, which gives forces to the allocation;
the estimators tell all of them where the vehicle is.  Almost everything goes
over ROS topics and services, and nearly every part is a node of its own.

    operator --> commander --> mission execution --(actions)--> primitives
                                 |   ^  ^                           |
                     mission parser  |  data event manager     enable / reference
                                     |                              v
              eventString (topic): commands, results     high-level controllers
                                                                    |
      execution controller (who may command which DOF)              v
                                          velocity controller --> allocation
      estimators  <-- sensors                    ^
           '------------- state estimates -------'

### Components

For each component: its state, its operations, what it shares with others, what
is hard about it and what makes it correct.

**Execution controller** (labust_execution: `PNController.cpp`,
`ExecControl.cpp`).  State: the registered controllers, a Petri net with a place
per degree of freedom (DOF) and per controller, the marking, the reachability
graph.  Operations: the services register_controller and activate_controller;
activation searches the net for the transitions that mark the wanted place and
fires them.  Hard: sequences of registrations and activations; the firing loop
that fires transitions in ascending order and gives up after a count; the
recursion of `get_firing_pn`; flags that are set once.  Correct if a DOF is never
commanded by two controllers nor lost, if an activation ends and grants what was
asked for, and does not disable controllers that have nothing to do with it.

**Mission execution** (labust_mission: `mission_execution.cpp`,
`mission_execution.h`).  State: the state machine MissionSelect, the event queue,
the primitive received from the parser, the number of the next one, flags and a
timer.  Threads: the main thread runs the state machine, two spinner threads run
callbacks (operator commands, results, data events, the timeout).  Hard:
everything shared without a lock; events that are raised for one primitive and
consumed in the next; queues that drop messages.  Correct if a mission ends, goes
through its primitives in order, obeys a stop, leaves nothing running behind a
primitive and gives every primitive its own timeout.

**Mission parser** (`missionParser.h`), a member of the same node: the XML
document, loaded by a topic, cleared on a stop, read by the main thread.

**Primitive manager and low-level configuration** (`primitiveManager.hpp`,
`lowLevelConfigure.hpp`, `PrimitiveCallBase.hpp`): start and cancel goals,
publish PRIMITIVE_FINISHED when one succeeds, switch the velocity controllers
between manual and reference mode.

**Data event manager** (`data_event_manager.cpp`): evaluates the conditions of a
mission against the state estimate and publishes which are true; starts the
dispatcher when a mission is set up.  Hard: its containers belong to the mission
before; parameters are appended, events are replaced only by a non-empty list.

**Commander** (`commander.h`): the operator's services; it writes mission files
and publishes commands on eventString.

**Caddy missions** (`caddy_missions.cpp`): another operator that configures
controllers by itself while a diver guides the vehicle.

**Decision making library** (vendored): the macros of the state machine and the
event queue, as the mission execution uses them.

**Primitives** (labust_primitives: `go2point.cpp`, `dynamic_positioning.cpp`,
`course_keeping.cpp`, `docking.cpp`, `track_diver.cpp`, on `PrimitiveBase.hpp`).
State: the goal, the controllers enabled, the reference.  Operations: onGoal,
onPreempt, onStateHat.  Hard: the nodes share the controllers HDG, DEPTH and FADP
without knowing of each other, and a cancel may overtake or be overtaken by the
goal of the next primitive.  Correct if a primitive that runs has its controllers
and one that ended has given them up.

**Velocity control** (labust_control: `VelocityControl.cpp`): a mode per axis
(disabled, manual, controlled, identification), changed by services and by
dynamic reconfiguration; a safety test suspends an axis when references,
measurements or estimates time out.  One thread.  Hard: each input times out by
itself, for the axes in some modes, and what an axis last used stays where it was
when the mode changes.  Correct if no force comes from old data.

**High-level control framework** (`HLControl.hpp`, `EnablePolicy.hpp`,
`WindupPolicy.hpp`) and the control laws on it (`FADPControl.cpp`,
`HDGControl.cpp`, `DepthControl.cpp`, `ALTControl.cpp`, `PitchControl.cpp`,
`UALFControl.cpp`, `vt_control.cpp`): an enable flag, the last reference and
estimate, windup feedback.  A controller answers every estimate with a velocity
request for its axes.

**Merger of references** (`AsyncMerger.cpp`): collects the requests of the
controllers and publishes their union when all that it knows have come, or when
its timer says that a round takes too long; then it forgets the ones that have
not come.  Hard: it knows the controllers only by the names in their messages,
its timer has its own phase, and a value that waits for the others is stamped
afresh when it is published.  Correct if it forgets only those who are silent and
nobody suffers when others come and go.

**Manual control** (`manual_control.cpp`, `RefManual.cpp`): joystick to
references.

**PID and extremum-seeking toolkits**: numerical code.

**Estimator with delayed acoustic fixes** (labust_navigation:
`EKF_3D_USBL.cpp`).  State: the filter, a container of past filter states with
the measurements they were corrected with, the measurements waiting for the next
step.  Operations: a callback per sensor and the main loop.  A fix of the
acoustic positioning system (USBL) describes the past: the filter goes back,
puts the fix into the state of that step and repeats the steps since.  Hard: the
indices of a container that shifts; fixes that overlap; fixes older than the
container.  Correct if every measurement is applied once, at the step it was
taken, and going back loses nothing.

**Estimator of ROVs and AUVs** (`EKF3D.cpp`, with the **sensor handlers** of
`SensorHandlers.cpp`).  State: the filter, flags of the handlers that have
something new, the mode (absolute, or relative to another vehicle), the times of
the last measurements, a buffer of altitudes, an error flag.  One thread: the loop
takes what the handlers have collected, corrects the filter, publishes, and runs
the callbacks.  Hard: four sources of positions of which only some are asked in
each mode, timeouts of GPS, inertial unit, DVL and altimeter, one error flag for
two reasons.  Correct if no old measurement is used, positions of the two modes
never mix, what is missing is reported, and the altitude comes back after a
silence.

**Other estimators** (`EKF_RTT.cpp`, and for relative localisation
`EKF_SimpleRelativeLocalization.cpp`, `EKF_TwoVehicleLocalization.cpp`, which
repeat the loop of `EKF_3D_USBL.cpp`), **geographic reference** (`LLNode.cpp`).

**Thrust allocation** (labust_allocation), **simulator** (labust_sim):
numerical.  **Diagnostics** (labust_diagnostics): status messages.
**Identification** (ident_so): self-oscillation experiments, an action that
replaces the velocity controller of an axis for a while.  **Snippets**: shared
helpers, among them a bit storage for acoustic messages.

## The modules

| module | what | extends |
|---|---|---|
| `Arbiter` | what the execution controller promises: an arbiter of DOFs | |
| `PNController` | the execution controller; it implements `Arbiter` | |
| `MCPNController` | the controllers of `test_exec.cpp` as instances | `PNController` |
| `PNControllerProofs` | proofs | `PNController` |
| `MissionParser` | the document and the requests, as operations | |
| `MissionExecution` | the mission execution node and what it talks to | `MissionParser` |
| `MCMissionExecution` | missions | `MissionExecution` |
| `MissionExecutionProofs` | proofs | `MissionExecution` |
| `DelayedMeasurements` | the estimator's handling of the past | |
| `DelayedMeasurementsProofs` | proofs | `DelayedMeasurements` |
| `Primitives` | four primitives over the controllers they share, and their client | |
| `MCPrimitives` | goals | `Primitives` |
| `PrimitivesProofs` | proofs | `Primitives` |
| `ControlData` | what the messages between the control nodes carry | |
| `HLControl` | the high-level controllers | `ControlData` |
| `AsyncMerger` | the merger of their requests, with a specification of its own | `ControlData` |
| `VelocityControl` | the velocity controller, with a specification of its own | `ControlData` |
| `ControlChain` | the three composed, with operator and navigation | `HLControl`, `AsyncMerger`, `VelocityControl` |
| `AsyncMergerProofs`, `VelocityControlProofs` | proofs | the modules they are about |
| `ControlChainProofs` | the composition implements its parts' specifications | `ControlChain`, `AsyncMergerProofs`, `VelocityControlProofs` |
| `Estimator3D` | the estimator of ROVs and AUVs and its sensor handlers | |
| `MCEstimator3D` | the estimator hears one half of its topics | `Estimator3D` |
| `Estimator3DProofs` | proofs | `Estimator3D` |

### PNController

`exec_control` has one thread (`ros::spin`), so callbacks do not interleave; the
model nevertheless takes one step per loop iteration of a callback (`pc` says
where), because the properties speak about the markings between two firings.

| code | model |
|---|---|
| `Dp`, `Dm` | `Outputs(t)`, `Inputs(t)`, computed from `registry` |
| `marking`, `all_markings` | the variables of that name |
| `onRegisterController`, `addToGraph` | `RegisterController(req)` |
| `addToRGraph` | `SeedRGraph`, `ExpandRGraph` |
| `onActivateController` | `ActivateController(p)` |
| `get_firing_pn`: early return; search; the iterations of its loop | `AlreadyMarked`; `Search`; `FireNext`, `SkipNext`, `EndPass` |
| `count > maxcount`, the recursion at the end | `stuck` in `EndPass` |
| the breadth-first search of Boost | `Searched`, the repetition of `Discover`; `Successors` and `Order` are the edges and the order they were inserted in |

`RequestsAssumption` leaves out a registration that uses nothing: its enabling
transition would have no input, be enabled for ever, and the reachability graph
would grow without end.

`Arbiter` is the abstract specification: every DOF has one owner, a controller
owns all DOFs it depends on or none, and while one is asked for DOFs change hands
one controller at a time, taken only from owners that are in the way.  Under the
refinement mapping in `PNController` the owner of a DOF is the place that holds
it in the marking the firing loop works on, and a request lasts from the callback
until `get_firing_pn` returns.  A `FireNext` is a `HandOver`, the end of the loop
a `Return`; the search and the growth of the reachability graph stutter.
`BestEffort` is the arbiter without the promise that a request succeeds: there a
request ends by `Leave`, granted or not.

### MissionExecution

The members of class MissionExecution are shared by three threads without a lock,
so every access to one of them is a step of its own, in the order of the
statements:

| code | actions |
|---|---|
| `requestPrimitive`: the number; the parse; `checkEventFlag`; the event or the stop | `TakeNumber`; `ParsePrimitive` or `ParseNothing`; `SetEventFlag`; `CallPrimitive` |
| `onPrimitiveEndReset`: `timer.stop()`; `checkEventFlag`; `timeoutActive`; `missionActive` | `EndReset(step)`, run by `ResetOnEntry`, `TimeoutResets` and `DataEventResets` |
| Wait_state and Pause_state: the reset; `nextPrimitive` | `ResetOnEntry`; `EnterWait` or `EnterPause` |
| Dispatcher_state | `EnterDispatcher`, then `TakeNumber` and so on |
| `setTimeout`: the timer; `timeoutActive` | `EnterPrimitive`; `TimeoutSet` |
| `onDataEventsContainer`: reads `receivedPrimitive`; stores the number; the reset; the event | `OnDataEvent`; `StoreChosen`; `DataEventResets`; `DataEventRaises` |
| `onTimeout`: the reset; the event | `OnTimeout`, `TimeoutResets`; `TimeoutRaises` |
| `onEventString`: reads `missionActive`; raises the events one by one | `OnEventString`; `Forward` |

What two threads do to one member at the same time is a choice over what can come
of it: `nextPrimitive++` or `--` of the main thread may overwrite the number that a
data event stores (`Overwritten`); a data event that reads `receivedPrimitive` while
the main thread assigns it gets the old one, or the node is lost (`"torn"`); so it is
when the document changes while it is read (`DocumentChanges`), or is empty
(`ParseNothing`: `"crashed"`).  `Alive` says that the node is not lost.  Of the two
spinner threads at most two callbacks are under way (`CanCall`); the other spinner
callbacks are one step each.  `timer.stop()` of another thread waits while the timer's
callback runs, until that has stopped the timer itself (`CanStop`).  A timeout is longer than the few instructions of setTimeout (guard
`pc # "armed"`).

The topic eventString is one queue per subscriber that drops its oldest message
when full: three messages for the mission execution, one for the parser.
`mainEventQueue` is one FIFO without bound.  `late` and `stopped` are history
variables; no guard reads them.

The contents of a primitive are abstract: its kind, whether it has a timeout,
and the primitives its events lead to (`MissionsAssumption`).  Any of its events may
be true at any time.  The action servers are external: a goal succeeds or, once cancelled, is
preempted; a cancel may come too late.

### DelayedMeasurements

An estimate is the sequence, step by step, of the sets of measurements it was
corrected with: what a Kalman filter makes of them is left out, what it was given
and when is all there is.  `Step` is one iteration of the main loop;
`StepOnTime` and `StepBack` are its two branches; callbacks run between
iterations (`spinOnce`).  `Delays` is the set of values `calculateDelaySteps` may
return for one delay: the floor of a quotient of rounded times is d or d - 1.
`MaxPast` is 1000 in the code.  The parameter enableDelay is taken to be set
(without it there is no going back); `log` is a history variable.

### Primitives

go2point, dynamic_positioning, docking and track_diver are nodes of one thread;
their callbacks are sequences of blocking service calls to controllers that the
other nodes call too.  `todo[n]` is what is left of the callback node n is in:
service calls (`SetController`), and the points between them where the callback
changes something (`Preempted`, `OnGoal`, `Succeeded`).  A callback begins only
in an idle node.

| code | model |
|---|---|
| `enable` of every high-level controller | `enabled` |
| `goal`, `controllers.state`, `underactuated` | `goal`, `on`, `underactuated` |
| `updateControllers` of each node | `PointCalls`, `PositionCalls`, `DockCalls`, `TrackCalls` |
| actionlib's server (external) | `ReceiveGoal`, `ReceiveCancel`; `active`, `current`, `lastCancel` |
| `onGoal` | `GoToPoint`, `HoldPosition`, `DockMussel`, `TrackDiver` |
| `onPreempt` | `OnPreempt`, then `Preempted` |
| `onStateHat` while active; its else-branch | `PointStateHat`, `DockStateHat`; `StopControllers` |
| sendGoal; cancelGoalsAtAndBeforeTime | `Start`; `Leave` |

Goals are numbered in the order they are sent, which stands for their stamps; a
cancel carries the number of the last goal sent.  The server calls `onPreempt`
before `onGoal` when a goal replaces another, so that `processNewGoal`, which
onGoal sets around `acceptNewGoal`, is never seen set: the controllers are
disabled and enabled again.  The vehicle's heading against the line is one of
`Headings`.  The mission execution is reduced to what the nodes see of it: one
primitive at a time, and a cancel whenever its state is left, at any time.

### HLControl, AsyncMerger, VelocityControl, ControlChain

A velocity is abstracted to the age of what it was computed from and whether a
controller asked for it (`own`); the other velocities are the merger's zeros for
axes nobody drives.  The tick of the composition is a round of the velocity
controller's loop; in a tick every controller handles the estimate at most once,
the merger what they publish, and the velocity controller what reaches it before
its `Step`, in any order.

| code | model |
|---|---|
| `enable`, `refOk`, `ref` of `HLControl` | the variables of that name, sets and functions of controllers |
| `onRef`, `onEstimate`, the service | `onRef`, `onEstimate`, `onEnableControl`; `step` of each controller is `HDGStep`, ... |
| `controllers` (map to flags) of the merger | `controllers` and `arrived` |
| `outval`/`outaxis`, `lastAll`, the timer | `outval`, `sinceAll`, `timer` |
| `handleRequester`, `checkArrived`, `clearAll` | `onTopic` with `AllArrived`, `checkArrived`, `EndRound` |
| `axis_control`, `suspend_axis`, `lastRef`, `lastEst`, ... | `mode`, `suspended`, `refAge`, `estAge`, ... |
| callbacks, `safetyTest`, `step` of the velocity controller | the actions of that name, `TimedOut` |

The merger and the velocity controller also have specifications of their own
(`MergerSpec`, `VelSpec`), in which any message may come at any time; the theorems
are about these.  The merger alone needs nothing of its surroundings.  The velocity
controller alone is promised that a reference is at most `RefDelay` old when it is
heard; `VelocityControlAlone` checks that the chain keeps this promise, so that
`FreshCommand`, proved of the velocity controller alone, holds in the chain too.

### Estimator3D

One step of the loop is one action (`step`); its parts are the operators
`takePosition`, `diagnose`, `takeDvl`, `takeAltitude`.  Callbacks run between two
steps, in the order of `Order`; each topic has a queue of one.  The filter is
abstracted to what matters to control: which covariances were reset and not
corrected since (`posReset`, `altReset`).  The outcome of a test on numbers is
any, except that an altitude passes the innovation test after a reset.  Ages are
counted in steps.

| code | model |
|---|---|
| `isNew` of the sensor handlers | `isNew`; the halves of an iUSBL fix are `paired` |
| `KFmode`, `KFmodePast`, `quadMeasAvailable` | `mode`, `modePast` (any at first), `quad` |
| `diagnostic_time_gps_`, `_imu_`, `diagnostic_error_flag` | `gpsAge`, `imuAge`, `errorFlag`, of which `FlagRaised`, `FlagPosition`, `FlagInertial`, `FlagInTheEnd` are the values in the order of the code |
| `last_alt`, `altbuf`, `alt_sample`, `nsamples_alt` | `altAge`, `altBuf`, `altSample`, `nsamples` |
| `processMeasurements` and `publishState` | `step` |

`hist` is a history variable; no guard reads it.

## The runs

The states are the distinct ones TLC found.

| run | instance | states | shows |
|---|---|---|---|
| `PNController_orders` | 3 DOFs, up to 4 of 12 controllers, any order and interleaving | 108,881 | types; `ExclusiveOwnership`; `FiringRule`; `RGraphComplete`; `ActiveStaysActive`; `Arbitrates` (the refinement) |
| `PNController_test` | the 10 controllers of `test_exec.cpp` in its order | 12,826 | `ControllerGranted`; every callback returns |
| `MissionExecution_plain` | 2 primitives with timeouts, one mission and two commands, stops among them | 256,459 | types; `LostOnlyByStop`; `MissionEnds` |
| `MissionExecution_events` | 2 primitives, two data events, one mission and two commands | 2,947,695 | `NeverBackwards`; `PrimitiveFitsState` |
| `MissionExecution_stop` | any commands and files, two of them | 707,863 | `QuietOutsidePrimitive`; `StopHeeded` |
| `MissionExecution_timeout` | | | `PrimitiveHasItsTimeout` violated, see below |
| `DelayedMeasurements_window` | one punctual element, delays 1, 2 and 4, container of 3, 5 steps | 868,792 | types; `AppliedOnTime`; `PunctualKept`; `KeptUnlessOvertaken` |
| `Primitives_mission` | 3 goals out of 6 | 729,526 | types; `NoneForgotten`; `PrivateAsWanted`; `GoalBehindPointer`; `EndsBySuccess` |
| `Primitives_ends` | 2 goals out of 6 | 15,932 | `OffInTheEnd`; `GoalTaken` |
| `Primitives_heading` | 2 goals | | `HasItsControllers` violated, see below |
| `ControlChain_two` | HDG and ALT, two axes, two steps of the operator | 2,607,294 | types; `FreshCommand`; `OnlySilentRemoved`; `SilenceStops`; `OthersDoNotInterfere`; `VelocityControlAlone` |
| `Estimator3D_halves` | positions and mode, or velocities and altitudes; three or two messages of the operator | 751,828 | types; `NoStalePosition`; `FramesNotMixed`; `StatusIsTrue`; `UnsafeTold`; `AltitudeTrusted`; `AltitudeRegained` |

*Why the bounds are enough.*  `PNController_orders`: four controllers include a
controller that uses a controller that uses a controller of a DOF, two that
compete for one, and the faulty ones (a DOF used twice), registered before,
between and after activations; three DOFs let one activation be independent of
another.  The test run has all ten controllers, but one order.
`MissionExecution`: a mission of two primitives has a successor and an end; the data
events of the first lead on and beyond the end; two commands, such as a pause and a
continue, let one race the effect of the other.  The operator of
`plain` and `events` is considerate: he sends one mission, and a command only
after the mission execution has taken the one before (`ConsiderateSafety`); without this two quick
commands and a late result push the stop at the end of a mission out of the
queue of three.  The operator of `stop` is not.  `DelayedMeasurements_window`:
delays below, between and above the size of the container; five steps let the
container shift twice and two fixes overlap.  `Primitives`: three goals in a row
are two successions, in the same or another node, with the messages of the first
still under way when the third is sent; the six goals are both subtypes of
go2point, one that is aborted, and the other three primitives.  State estimates
are taken to be frequent (`EstimatesAreFrequent`): after an abort one comes in
before the next goal.  Without this assumption `NoneForgotten` and
`PrivateAsWanted` fail: the flags of an aborted goal are still set when the next
one comes, and a goal of the other subtype leaves the first line follower enabled
for ever.

`ControlChain_two`: two controllers are enough for one to stall, to leave, to come
late and to change its name while the other is left alone; the altitude controller
is the one that has two names.  The sampling time of two ticks lets messages fall
before and after the timer; `Timeout` = 2 Ts is the smallest for which
`OthersDoNotInterfere` holds, `RefDelay` = 2 Ts + 1 the smallest for which
`VelocityControlAlone` does.  Two steps of the operator are, for instance, a
controller that leaves and another that starts.  `Estimator3D_halves`: timeouts of
one step have a step before, at and after them; 1 and 3 samples are a buffer that
is full at once and one that can be shifted while it is not accepted; three mode
messages are a switch there and back.  Positions and altitudes share nothing but
the reset of the covariances, so the run takes them one after the other
(`HalfSpec`); the theorems are about both at once.

Deadlock is not checked in the runs of `MissionExecution` and `Primitives`: when
the mission is over and the operator has used up his commands, or the goals are
used up, nothing is left to do.

*What the properties mean.*  Each is stated in the module, with a comment.  Some
need a word.  `KeptUnlessOvertaken` says exactly when a fix may be forgotten:
only when a later fix makes the filter go back to a state stored before the
first came in, but of a later step than the first, or takes its place in the
same step; from this it follows that fixes further apart than their delay are
all kept.  `NeverBackwards` is about missions whose events lead forward: a pause
decrements `nextPrimitive`, which a data event may just have set.  It leaves out the
one way in which the code does go back: a data event whose callback has read the
number from a primitive that the main thread is replacing, or has replaced when the
number is stored (`late`).
`OthersDoNotInterfere` has two conditions.  `MergerWaits` (Ts >= 2) is met by any
sampling time above the period of the estimates.  `VelocityControlIsPatient`
(Timeout >= 2 Ts) is one that the code's defaults do not meet: with a sampling time of 0.3 s and a timeout of 0.5 s (Ts = 3,
Timeout = 5) the merger may wait for 0.6 s for a controller that was disabled, and
the velocity controller suspends all controlled axes for a moment.  `UnsafeTold`
and `AltitudeTrusted` each name the case in which the code does not keep them (see
below), so that what they say of all other cases can be checked; so does
`FramesNotMixed`, which is not about the acoustic fix.  The age of that fix is counted
from its second half in `NoStalePosition`.

## Fairness

`PNController`: `WF(Callback)`, since a callback that has started keeps running.
Nobody is obliged to register or activate anything.  `MissionExecution`: the main
thread runs, the spinner threads run the callback of every message that waits, a
one-shot timer that is not stopped goes off, and the actions of the kinds in
`Ending` end (a point is reached); cancelled ones too.  Keeping a position does
not end by itself, so it needs its timeout.  Data events and commands are under no obligation.
`Primitives`: a callback that has started goes on (WF); `ros::spin` serves what
waits for a node in turn, and estimates keep coming (SF, because another callback
may run whenever the message waits).  The client is under no obligation.
`Estimator3D`: the loop runs at its rate for ever (`WF(step)`); no message is under
obligation to come, and `AltitudeRegained` says in its premise that altitudes do.
`DelayedMeasurements` and `ControlChain` have no liveness property: `SilenceStops`
bounds the time instead.

## The proofs

Most theorems are of the form `Spec => []P` or `Spec => [][A]_vars`; those about
implementations are of the form `Spec => Abstract!Spec`.  They hold for every value
of the constants that satisfies the modules' assumptions; where a theorem needs more
(`EventsLeadForward`, `Ordinary`, `ChainDelay`, `EstimatesAreFrequent`, `[]SearchFinds`)
it says so in its hypothesis, and the runs satisfy it.

**PNControllerProofs**, for any number of DOFs and any requests:

- `TypeCorrect`, `Exclusive` (no DOF is lost or commanded twice,
  `ExclusiveOwnership`) and `FiringRuleHolds`.  `ExclusiveOwnership` is not
  inductive: disabling a controller that uses two controllers of the same DOF would
  hand that DOF out twice, and the reason that it never runs is that it could never
  be enabled.  The inductive invariant `IInv` says so for all markings the code keeps
  (`marking`, `m` and the reachability graph): it adds `NetOK` (a controller uses
  places registered before it and depends on what they depend on) and that only
  `CleanPlaces` are marked, those in a set of places closed under use in which no
  controller uses a DOF twice.  `FiringRuleHolds` follows because no place has two
  tokens.  The lemmas about `Fire` and about registering a controller (the net and
  the markings grow) carry the argument.
- `GraphComplete` (`RGraphComplete`): the code rebuilds the reachability graph by
  following only the new controller's transitions first.  `GraphInv` says what the
  graph covers on the way: before the loop of addToRGraph it is closed under the old
  transitions, in the loop every marking that is not queued has its successors.
- `ActiveUndisturbed` (`ActiveStaysActive`) and what the others below need of the
  search.  A path of the breadth-first search that is not thrown away as a
  T-invariant goes down first and up afterwards (`DownThenUp`): from a controller to
  what it uses by disabling, from a place to a controller that uses it by enabling;
  going down again from a controller just enabled would be the T-invariant.  So every
  transition of the firing set is `OnTheWay`: what is disabled shares a DOF with the
  controller asked for, and what is enabled uses none but its DOFs.  A path from a
  marked place to a controller that is active would put their common DOFs on two marked
  places; so the firing set for an active controller is empty.
- `GrantedIfFound` (`ControllerGranted`), under the hypothesis `[]SearchFinds`: if
  the search finds a path, the loop ends only when all its transitions have fired,
  that of the controller among them, and none of them takes the token from it
  (`SearchInv`).
  Without the hypothesis it is not true, even if every controller can be activated:
  when the shortest path from each marked place zigzags through a T-invariant, all
  paths are thrown away, the firing set is empty, and the callback returns with nothing
  granted.  TLC finds it with two DOFs and `y1` on DOF 0, `z` on DOF 1, `h1` on DOF 0,
  `h2` using `h1`, `x` using `y1` and `z`, `t` using `h2` and `z`: while `x` runs, the
  shortest path to `h2` disables `x`, enables `t` and disables it again.  If only some
  of the paths are thrown away, the rest may not be enough and `CallbackReturns` fails:
  while `y1` runs, the request for `t` repeats the search for ever, because the path
  that goes over `x` is shorter than the one that disables `y1`.  The class lists the
  check that is missing as a `\todo` (`PNController.hpp`, "detect wrong firing
  sequences").  On the nets of the runs, which are those of `test_exec.cpp`,
  `ControllerGranted` or `Arbitrates` holds, and `SearchFinds` with it.
- `ImplementsBestEffort`: without any hypothesis, the Petri net implements the
  arbiter but for its promise that a request succeeds: DOFs change hands one controller
  at a time, whole, and only from owners that are in the way.  `ImplementsArbiter`
  (`Arbitrates`): with `[]SearchFinds` it implements the arbiter.

The search is a recursive function on numbers.  The library's theorem of induction
takes an operator as a parameter and cannot be used; `LeastNumber` (a set of numbers
with an element has a least one) takes a set, and gives induction over the rounds
of the search.

**DelayedMeasurementsProofs**: `TypeCorrect`, `OnTime` (`AppliedOnTime`),
`NothingPunctualLost` (`PunctualKept`) and `DelayedKept` (`KeptUnlessOvertaken`), for any delays (0 too), any size of the
container and any number of steps.  A delay is an offset from the end of a
container that shifts and is rebuilt, so the invariant has to say what every
entry stands for: `GoodContainer` (entry i of n belongs to step `step - n + i`,
its estimate to the steps before), `GoodStep` (an entry holds nothing of another
step and all that came for its step without delay) and `GoodMeasurements` (what
waits was received since the last step, the elements of a fix with one delay).
One lemma per operator of a step (`First`, `Remembered`, `Placed`, `Replayed`).
`KeptUnlessOvertaken` speaks of the estimate only; `KeptIn` says what of a fix is in the
container: it is in the entry of its step for as long as that is there, and in the
estimates that were stored after it came in, never in those between.  Going back to
one of the former keeps it, to one of the latter loses it.  That the fix that loses
it is known afterwards rests on its beacon, which is never rejected (`KeptInv`).

**VelocityControlProofs**: `VelTyping` and `VelFreshCommand` (`FreshCommand`) of
the velocity controller alone, for any axes, timeouts and delays.  The invariant
`DesiredFromReference` relates the age of each desired velocity to the time since
the last reference: the estimates give axes that are not controlled new values
behind the reference's back, and a mode may change between two steps.

**AsyncMergerProofs**: `MergerTyping` and `MergerOnlySilentRemoved`
(`OnlySilentRemoved`), for any requesters, axes and sampling times.  The inductive
invariant is `MissingIsSilent`: who is missing in this round has been silent since
the last complete round or the timer's last tick, whichever is later -- a round may
begin at either.

**ControlChainProofs**: the chain implements the specifications of its parts, for any
sampling time and timeouts: `ChainImplementsMerger`, and
`ChainImplementsVelocityControl` (`VelocityControlAlone`) if `RefDelay` is at least
`2 * Ts + 1`, so that `ChainOnlySilentRemoved` and `ChainFreshCommand` follow from
the theorems about the parts.  The parts' steps map to steps or stutters at once; what
has to be proved is the assumption of the velocity controller, that no reference is
older than `RefDelay`.  A velocity waits in the merger for the rest of a round, and
`Waited` bounds its age: until the sampling time has passed since the last round it
is no older than the round; after that `age + timer <= 2 * Ts`, because the next run
of the timer, at most `Ts` ahead, removes who has not answered and ends the round.
`RoundIsShort` says so of all that the merger holds, `OutIsFresh` carries the bound to
what it publishes.  `ChainTyping` gives the types.

Two theorems are about the chain as a whole.  `ChainSilenceStops` (`SilenceStops`):
after the controllers fall silent the merger ends at most two more rounds, one with
what it has and one with nothing, and the number of ticks until then (`RoundsLeft`)
decreases; then the age of the last reference grows with the silence
(`ReferencesStop`) until the velocity controller suspends every controlled axis.
`ChainOthersDoNotInterfere` (`OthersDoNotInterfere`): a controller that has been left
alone for a while is in every round (`InRound`, `Served`), so that no message of the
merger is without it, and none of its axes is suspended (`KeepsItsAxes`).  Trying to
prove it corrected the property in three places: the timer may end one round more
than was thought before a new controller is in (`SteadyBound`), with a sampling time
of one tick the timer can end two rounds between two estimates (`MergerWaits`), and
a timeout of exactly two sampling times is enough.

**Estimator3DProofs**: a theorem for every safety property of `Estimator3D`, for
any timeouts, sample counts and sets of topics.  Most need an invariant about the
history: `WaitingKnown` (a position that waits is no older than the time for which
it was of no use), `ModeNoted` (KFmodePast is the mode, once one was heard, and what
was used since the covariance was reset is of that mode), `VelocityNoted` (`dvl_time` against the last velocity used),
`BufferOfThisSilence` (the buffer holds no more samples than came since the last
altitude accepted, and is empty outside a silence).

**MissionExecutionProofs**: a theorem for every invariant the passing runs check, for
any missions, commands and kinds of actions that end: `MissionTyping`, `MissionQuiet`
(`QuietOutsidePrimitive`) and `MissionNeverBackwards` (`NeverBackwards`) of `Spec`,
`MissionLostOnlyByStop` (`LostOnlyByStop`) and `MissionPrimitiveFits`
(`PrimitiveFitsState`) of `ConsiderateSafety`.  `PhasesKnown` says in which states a
primitive is requested or started, and that the exit code runs on the way along an
arrow; with it the first two are inductive.

`NeverBackwards` speaks of two moments only; `GoesForward` says what holds between
them.  In the phases of `MustBeAhead` the number of the next primitive is greater than
that of the one requested last, and after the entry of a pause, which takes one away,
it is not smaller.  A data event stores a number of receivedPrimitive, so the theorem
assumes `EventsLeadForward`; the numbers are ahead of the request they came with
(`EventsAhead`), and so is one that is read but not yet stored, because a request in
between makes it `late`.

`LostOnlyByStop` and `PrimitiveFitsState` hold only of a considerate operator, whose
missions can be parsed and whose commands are none of the node's own events
(`Ordinary`), the second only if he does not stop the mission either.  Their invariant,
`NoneLost`, holds until he does, and follows single messages through the queues.  There
is one start (`OneStart`), and until it is taken the state machine waits for it in
Wait_state with a mission loaded.  A stop is published, and the document emptied, only
after a request that found no primitive; from then on (`Finished`) the dispatcher waits
for that stop, Wait_state for a start that does not come, and nothing requests a
primitive.  Every other request leaves one event in the queue, of the kind of
receivedPrimitive (`OneKind`), and only that leads out of the dispatcher.

**PrimitivesProofs**: a theorem for every safety property of `Primitives`, for any
goals and any number of them.  `PrimitivesTyping` and `PrimitivesEndBySuccess` hold
of `Safety`, the other three (`NoneForgotten`, `PrivateAsWanted`, `GoalBehindPointer`)
of `FrequentSafety`.  What is enabled depends on what is left of every callback, so the
invariant speaks of `todo`.  A *plan* (`IsPlan`) is a sequence of calls after which the
node's controllers are as it wants them: the last call to each agrees with what is
wanted, and what is enabled on the way without being wanted is disabled later.
updateControllers is a plan, and stays one with other calls before it (a turn) or parts
after it; `Fits` says of what is left of a plan what a plan says, and that a private
controller that is not called any more is as wanted.  Every action is one of four
changes to its node (`Replans`, `Unplans`, `Proceeds`, `Stays`), and one lemma per
change carries `Fits` and `Reason` (why an enabled controller is not forgotten) over
it.  A new subtype of go2point is harmless because a goal callback starts with nothing
wanted (`Pointing`), and this is where `EstimatesAreFrequent` is needed.
`EndsBySuccess` rests on the order of the messages (`Ordered`, `Ending`): waiting
cancels are of earlier primitives, so what is being preempted is never the goal of the
running one.

*Only model-checked*: the liveness properties (`CallbackReturns`, `StopHeeded`,
`MissionEnds`, `OffInTheEnd`, `GoalTaken`, `AltitudeRegained`), which TLAPS cannot
prove.  `ControllerGranted` and `Arbitrates` are proved under `[]SearchFinds`, and
`LostOnlyByStop` and `PrimitiveFitsState` of `ConsiderateSafety` under `Ordinary`; that the
instances satisfy these hypotheses is what the runs show.

## Where the code differs from what it says

Each has a run whose counterexample shows it.

- `MissionExecution_timeout`: the timer of a primitive that finished by its
  action goes on and ends the next one (mission_execution.h:324).
- `Primitives_heading`: the late cancel of a primitive disables the heading
  controller of the next one (go2point.cpp:192).

Part of the models, without a run of their own:

- a stop can end the node: the parser empties the document on a spinner thread, and
  parseMission dereferences the root of the empty document before it comes to `No
  mission parameters defined' (missionParser.h:129-130), if the main thread asks for a
  primitive before it has heard of the stop; requests before a mission, and the stop
  at the end of a mission, do not (`LostOnlyByStop`).  The service that sends it is
  called `Service that stops mission execution' (commander.h:378);
- setTimeout and the reset of another thread interleave (mission_execution.h:559-560,
  578-580): a timer started after `timer.stop()` and before the flags are cleared goes
  on without the node knowing, and ends a later primitive; with the timer stopped
  between its start and `timeoutActive = true` the flag is set without a timer;
- a data event whose callback reads receivedPrimitive late, or stores late, sets
  nextPrimitive back during a request, and the mission goes back
  (mission_execution.h:444, 527-528; `NeverBackwards` names the case);
- an operator who is not considerate can push the stop at the end of a mission out of
  the queue of three, and the mission does not end (218);
- a mission file that arrives during a mission replaces it at once, and the next
  request is answered from the new one with the number of the old (missionParser.h:346);
- repeated steps are stored with their old states, and a fix that a later one
  overtakes is lost, which `KeptUnlessOvertaken` leaves open (EKF_3D_USBL.cpp:920);
- a controller that is disabled, or an altitude controller that loses its reference
  and so changes its name, stalls the merger for up to two sampling times; with the
  default times all controlled axes are suspended for a moment (AsyncMerger.cpp:144,
  ALTControl.cpp:101, 138);
- the velocity controller ignores disable_axis, so a controlled axis that nobody
  drives gets the reference zero (VelocityControl.cpp:178), and an axis in
  identification goes on with the last external force whatever its age (407);
- a controller that is disabled and enabled between two estimates keeps its old
  reference (HLControl.hpp:158-166);
- any inertial measurement clears the error flag that a missing GPS has set, so the
  status says ERROR only while the inertial unit is silent (EKF3D.cpp:458);
- DVL messages that come in every step and are all rejected leave unsafe_dvl as it
  was (EKF3D.cpp:511-533; `UnsafeTold` names the case);
- samples left in the buffer when use_alt_sampling is switched off count in the
  next silence (EKF3D.cpp:299; `AltitudeTrusted` names the case), and it is the last
  sample, not their mean, that corrects the filter;
- a position that waited through the other mode is used when the mode comes back,
  however old (EKF3D.cpp:393; `NoStalePosition` says how old), and the first mode
  message may not reset the covariance, since KFmodePast is not initialised (340);
- an absolute iUSBL fix is used in relative mode too, so relative and absolute
  positions do mix (EKF3D.cpp:539; `FramesNotMixed` leaves it out), and its first half
  may be of any age (SensorHandlers.cpp:441-453);
- a DOF activated by its name is not freed, since its vertex is `marked` for ever
  (PNController.cpp:63, 467);
- a pause between two primitives is consumed without effect, since
  Dispatcher_state has no arrow for it (mission_execution.cpp:127);
- a second START_DISPATCHER in the dispatcher starts a primitive with the data of
  another (mission_execution.cpp:139; `PrimitiveFitsState` fails with it);
- where `timeoutActive` is left set without a timer no later primitive gets one: a
  mission whose last primitive ends by its timeout only does not end
  (mission_execution.h:560);
- a fix older than the container is dropped, although the whole container is
  repeated for it (EKF_3D_USBL.cpp:828, 842), and an element of a delayed fix is
  used although it is disabled (843);
- an underactuated go2point that begins with the point astern never enables the
  depth controller (go2point.cpp:182-187);
- an aborted go2point enables its controllers, until the next estimate
  (go2point.cpp:127-136, 189).

Seen while reading, and not in an instance: COURSE_KEEPING leads to a state
without code, in which the state machine spins (mission_execution.cpp:133); the
arrow for ISO is commented out, and the dispatcher waits for ever (134); an
aborted action raises no event (PrimitiveCallBase.hpp:117); a radius that arrives
after the end of a track_diver goal dereferences a null pointer
(track_diver.h:124); mission parameters are appended to those of the mission before
unless a stop came in between (data_event_manager.cpp:156); a negative
alt_n_samples makes the estimator wait for an altitude for ever (EKF3D.cpp:202);
DepthControl's depth_timeout and the last external force of yaw are not initialised
(VelocityControl.cpp:114).

## What is not modelled

- Numbers: Kalman filters, control laws, allocation, simulation, conversions of
  coordinates.  Their properties are about reals, and TLC cannot enumerate them.
- Of the execution controller: searches that nothing calls (`firing_rec`,
  `get_firing`, `get_firing_r`, `reachability`, `addToRGraph2`), and graphs that
  are only printed.
- Of the mission execution: status messages; actions that abort; the contents of
  goals; memory effects of the unlocked members beyond those named above.
- Of the estimator: `onSecond_position`, the switching of models and covariance
  resets, the DVL and altitude tests, enableDelay unset.
- Of the primitives: the references, the topics a goal may name (heading, target,
  radius), course_keeping, which the mission execution never starts, and docking's
  arm and search.
- Of the control chain: control laws, PI arithmetic, windup, model updates; UALF
  and the virtual target; faults inside a process; clocks that jump.
- Of the estimator of ROVs and AUVs: the filter's numbers, depth, thrust and model
  updates, the choice between gyro and compass; transforms that fail otherwise than
  by leaving out the message (iUSBL).
- Other estimators, the geographic reference, caddy missions, manual control.
- Vendored code (exprtk, decision_making, robot_task), except the semantics of
  the state machine's macros and of its event queue; code generators; launch and
  build files; test programs.

## The plan

In the order of importance:

1. *Execution controller*: done, with its abstract specification and the
   refinement as a theorem.  Next: a condition on the requests from which
   `SearchFinds` follows.
2. *Mission execution*: done, with proofs.  Next: the data event manager and the
   commander as modules of their own, composed with it.
3. *Estimators*: done, with proofs.  Next: depth and the compass in `Estimator3D`.
4. *Primitives*: done, with proofs.  Next: course_keeping.
5. *Control chain*: done, with proofs that it implements its parts'
   specifications.
6. *Caddy missions*; the bit storage as a pure algorithm checked against a reference
   definition.
