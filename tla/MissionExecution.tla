--------------------------- MODULE MissionExecution ---------------------------
(***************************************************************************)
(* The mission execution node of labust_mission.  The main thread runs the *)
(* state machine MissionSelect, which waits for events in mainEventQueue;  *)
(* two spinner threads run the callbacks: operator commands and results of *)
(* primitives from the topic eventString, data events, the timeout.  The   *)
(* members of class MissionExecution are shared by all threads without a   *)
(* lock, so every access to one of them is a step of its own.              *)
(*                                                                         *)
(* pc says where the main thread is in an FSM state: it runs the entry     *)
(* code, "wait"s for an event, or runs the code for leaving ("exit").      *)
(* data_cb and timeout_cb say the same of the callbacks of data events and *)
(* of the timer.  Events are named without the slash, the event and the    *)
(* FSM state of a primitive both by the primitive's kind.                  *)
(***************************************************************************)
EXTENDS MissionParser

CONSTANTS
  Commands,      \* what the operator publishes on eventString
  MaxCommands,   \* bound on the operator's commands and mission files
  Ending         \* kinds of primitives whose action ends by itself

ASSUME MaxCommandsAssumption == MaxCommands \in Nat

VARIABLES
  state,          \* FSM state
  pc,             \* where the main thread is in it
  next,           \* FSM state to be entered after the exit code
  events,         \* mainEventQueue
  inbox,          \* subscription of MissionExecution to eventString
  forwarding,     \* what its callback has still to do for a message
  parser_inbox,   \* subscription of MissionParser to eventString
  received,       \* receivedPrimitive
  request,        \* the number last requested from the parser (req)
  nextPrimitive,
  missionActive,
  timeoutActive,
  checkEventFlag,
  timer,          \* the primitive the running timer was set for, 0 if none
  timeout_cb,     \* where onTimeout is
  data_cb,        \* where onDataEventsContainer is
  chosen,         \* the number it has read from receivedPrimitive (*it)
  late,           \* history: it read or will store a number of an earlier request
  goal,           \* per kind, what its action server does
  results,        \* kinds whose success is on its way to the action client
  velcon,         \* how the velocity controllers were last configured
  setup,          \* MissionSetup is on its way to the data event manager
  issued,         \* number of commands and mission files so far
  stopped         \* history: one of the commands was a stop

fsm == <<state, pc, next>>
topics == <<inbox, forwarding, parser_inbox>>
primitive == <<received, request>>
flags == <<missionActive, timeoutActive, checkEventFlag>>
data == <<data_cb, chosen>>
vehicle == <<goal, results, velcon>>
operator == <<setup, issued, stopped>>
vars == <<fsm, events, topics, primitive, nextPrimitive, flags, timer, timeout_cb,
          data, late, vehicle, operator, parser>>

-----------------------------------------------------------------------------
(* The state machine MissionSelect.                                        *)

(* Primitives whose FSM state starts an action.  The entry code of follow  *)
(* is commented out, and placeholder has none.                             *)
Startable == {"go2point", "dynamic_positioning", "pointer", "docking"}
Stoppable == Startable \cup {"follow"}
Primitives == Stoppable \cup {"placeholder"}
(* A kind with an event and a state of its own, but no code for the state. *)
NoCode == {"course_keeping"}
States == {"Wait_state", "Dispatcher_state", "Pause_state"} \cup Primitives \cup NoCode

(* The kinds that a mission may name; iso has an event but no arrow.       *)
Kinds == Primitives \cup NoCode \cup {"iso"}
Event == {"START_DISPATCHER", "STOP", "PAUSE", "CONTINUE", "MANUAL_ENABLE",
          "MANUAL_DISABLE", "PRIMITIVE_FINISHED", "TIMEOUT"} \cup Kinds
ASSUME MissionsAssumption ==
  \A mission \in Missions \ {NoMission} :
    mission \in Seq([kind : Kinds, timeout : BOOLEAN, next : Seq(Nat)])
ASSUME CommandsAssumption == Commands \subseteq Event
ASSUME EndingAssumption == Ending \subseteq Startable

Goto(s, es, to) == {<<s, e, to>> : e \in es}

WaitArrows == Goto("Wait_state", {"START_DISPATCHER"}, "Dispatcher_state")

(* Seeded fault: the dispatcher also reacts to the end of a primitive.     *)
DispatcherRestartsOnFinish ==
  Goto("Dispatcher_state", {"STOP"}, "Wait_state")
    \cup Goto("Dispatcher_state", {"START_DISPATCHER", "PRIMITIVE_FINISHED"}, "Dispatcher_state")
    \cup {<<"Dispatcher_state", k, k>> : k \in Primitives \cup NoCode}

DispatcherArrows ==
  Goto("Dispatcher_state", {"STOP"}, "Wait_state")
    \cup Goto("Dispatcher_state", {"START_DISPATCHER"}, "Dispatcher_state")
    \cup {<<"Dispatcher_state", k, k>> : k \in Primitives \cup NoCode}

PauseArrows ==
  Goto("Pause_state", {"STOP"}, "Wait_state")
    \cup Goto("Pause_state", {"START_DISPATCHER", "CONTINUE"}, "Dispatcher_state")

(* Seeded fault: no arrow for a stop.                                      *)
StopIgnored(k) ==
  Goto(k, {"PRIMITIVE_FINISHED", "TIMEOUT"}, "Dispatcher_state")
    \cup Goto(k, IF k \in Stoppable THEN {"PAUSE"} ELSE {}, "Pause_state")

PrimitiveArrows(k) ==
  Goto(k, {"STOP"}, "Wait_state")
    \cup Goto(k, {"PRIMITIVE_FINISHED", "TIMEOUT"}, "Dispatcher_state")
    \cup Goto(k, IF k \in Stoppable THEN {"PAUSE"} ELSE {}, "Pause_state")

Arrows == WaitArrows \cup DispatcherArrows \cup PauseArrows
            \cup UNION {PrimitiveArrows(k) : k \in Primitives}

-----------------------------------------------------------------------------
(* A topic delivers in order; a subscriber's full queue loses its oldest   *)
(* message.                                                                *)
Enqueue(q, msg, size) == IF Len(q) < size THEN Append(q, msg) ELSE Append(Tail(q), msg)

InboxSize == 3
ParserInboxSize == 1

Publish(msg) ==
  /\ inbox' = Enqueue(inbox, msg, InboxSize)
  /\ parser_inbox' = Enqueue(parser_inbox, msg, ParserInboxSize)
  /\ UNCHANGED forwarding

Raise(e) == events' = Append(events, e)

(* onPrimitiveEndReset, which three threads run, one store after another.  *)
ResetSteps == {"stop", "events", "timeouts", "active"}
Following(step) ==
  CASE step = "stop" -> "events"
    [] step = "events" -> "timeouts"
    [] step = "timeouts" -> "active"
    [] step = "active" -> "done"

(* Seeded fault: timeoutActive is not reset.                               *)
TimeoutFlagLeftSet(step) ==
  /\ timer' = IF step = "stop" THEN 0 ELSE timer
  /\ checkEventFlag' = (checkEventFlag /\ step # "events")
  /\ timeoutActive' = timeoutActive
  /\ missionActive' = (missionActive /\ step # "active")

EndReset(step) ==
  /\ timer' = IF step = "stop" THEN 0 ELSE timer
  /\ checkEventFlag' = (checkEventFlag /\ step # "events")
  /\ timeoutActive' = (timeoutActive /\ step # "timeouts")
  /\ missionActive' = (missionActive /\ step # "active")

(* timer.stop() returns when the timer's callback has, or has stopped it.  *)
CanStop(step) == step = "stop" => timeout_cb # "stop"

Init ==
  /\ ParserInit
  /\ state = "Wait_state" /\ pc = "stop" /\ next = "Wait_state"
  /\ events = <<>> /\ inbox = <<>> /\ forwarding = <<>> /\ parser_inbox = <<>>
  /\ received = NoPrimitive /\ request = 0 /\ nextPrimitive = 1
  /\ missionActive = FALSE /\ timeoutActive = FALSE /\ checkEventFlag = FALSE
  /\ timer = 0 /\ timeout_cb = "idle"
  /\ data_cb = "idle" /\ chosen = 0 /\ late = FALSE
  /\ goal = [k \in Startable |-> "none"] /\ results = {}
  /\ velcon = "disabled"
  /\ setup = FALSE /\ issued = 0 /\ stopped = FALSE

-----------------------------------------------------------------------------
(* The main thread.                                                        *)

(* Wait_state and Pause_state begin with onPrimitiveEndReset, and then set *)
(* the number of the primitive to be requested.                            *)
ResetOnEntry ==
  /\ state \in {"Wait_state", "Pause_state"} /\ pc \in ResetSteps
  /\ CanStop(pc)
  /\ EndReset(pc)
  /\ pc' = Following(pc)
  /\ UNCHANGED <<state, next, events, topics, primitive, nextPrimitive, timeout_cb,
                 data, late, vehicle, operator, parser>>

EnterWait ==
  /\ state = "Wait_state" /\ pc = "done"
  /\ nextPrimitive' = 1
  /\ pc' = "wait"
  /\ UNCHANGED <<state, next, events, topics, primitive, flags, timer, timeout_cb,
                 data, late, vehicle, operator, parser>>

(* Seeded fault: off by one.                                               *)
PauseForgetsOneMore ==
  /\ state = "Pause_state" /\ pc = "done"
  /\ nextPrimitive' = nextPrimitive - 2
  /\ pc' = "wait"
  /\ UNCHANGED <<state, next, events, topics, primitive, flags, timer, timeout_cb,
                 data, late, vehicle, operator, parser>>

EnterPause ==
  /\ state = "Pause_state" /\ pc = "done"
  /\ nextPrimitive' = nextPrimitive - 1
  /\ pc' = "wait"
  /\ UNCHANGED <<state, next, events, topics, primitive, flags, timer, timeout_cb,
                 data, late, vehicle, operator, parser>>

EnterDispatcher ==
  /\ state = "Dispatcher_state" /\ pc = "enter"
  /\ missionActive' = TRUE
  /\ pc' = "number"
  /\ UNCHANGED <<state, next, events, topics, primitive, nextPrimitive, timeoutActive,
                 checkEventFlag, timer, timeout_cb, data, late, vehicle, operator, parser>>

(* requestPrimitive takes the number, ...                                  *)
TakeNumber ==
  /\ state = "Dispatcher_state" /\ pc = "number"
  /\ request' = nextPrimitive
  /\ nextPrimitive' = nextPrimitive + 1
  /\ late' = (data_cb = "store")
  /\ pc' = "parse"
  /\ UNCHANGED <<state, next, events, topics, received, flags, timer, timeout_cb, data,
                 vehicle, operator, parser>>

(* ... has the parser look it up, ...                                      *)
ParsePrimitive ==
  /\ pc = "parse"
  /\ CanParse \/ request = 0
  /\ received' = Requested(request)
  /\ pc' = "flag"
  /\ UNCHANGED <<state, next, events, topics, request, nextPrimitive, flags, timer,
                 timeout_cb, data, late, vehicle, operator, parser>>

ParseNothing ==
  /\ pc = "parse"
  /\ ~CanParse /\ request # 0
  /\ pc' = "crashed"
  /\ UNCHANGED <<state, next, events, topics, primitive, nextPrimitive, flags, timer,
                 timeout_cb, data, late, vehicle, operator, parser>>

(* ... opens it to data events, ...                                        *)
SetEventFlag ==
  /\ pc = "flag"
  /\ checkEventFlag' = (checkEventFlag \/ received.next # <<>>)
  /\ pc' = "answer"
  /\ UNCHANGED <<state, next, events, topics, primitive, nextPrimitive, missionActive,
                 timeoutActive, timer, timeout_cb, data, late, vehicle, operator, parser>>

(* ... and raises its event; without a primitive the mission is over.      *)
CallPrimitive ==
  /\ pc = "answer"
  /\ IF received # NoPrimitive
     THEN Raise(received.kind) /\ UNCHANGED topics
     ELSE Publish("STOP") /\ UNCHANGED events
  /\ pc' = "wait"
  /\ UNCHANGED <<state, next, primitive, nextPrimitive, flags, timer, timeout_cb, data,
                 late, vehicle, operator, parser>>

(* A primitive's state: evaluatePrimitive and the first half of setTimeout.*)
EnterPrimitive ==
  /\ state \in Startable /\ pc = "enter"
  /\ IF ~timeoutActive /\ received.timeout
     THEN timer' = request /\ pc' = "armed"
     ELSE pc' = "start" /\ UNCHANGED timer
  /\ UNCHANGED <<state, next, events, topics, primitive, nextPrimitive, flags, timeout_cb,
                 data, late, vehicle, operator, parser>>

TimeoutSet ==
  /\ pc = "armed"
  /\ timeoutActive' = TRUE
  /\ pc' = "start"
  /\ UNCHANGED <<state, next, events, topics, primitive, nextPrimitive, missionActive,
                 checkEventFlag, timer, timeout_cb, data, late, vehicle, operator, parser>>

(* PrimitiveManager: configure the velocity controllers, send the goal.    *)
(* The client forgets an earlier goal of the same kind.                    *)
StartPrimitive ==
  /\ pc = "start"
  /\ velcon' = "velcon"
  /\ goal' = [goal EXCEPT ![state] = "active"]
  /\ results' = results \ {state}
  /\ pc' = "wait"
  /\ UNCHANGED <<state, next, events, topics, primitive, nextPrimitive, flags, timer,
                 timeout_cb, data, late, operator, parser>>

EnterIdlePrimitive ==
  /\ state \in {"follow", "placeholder"} /\ pc = "enter"
  /\ pc' = "wait"
  /\ UNCHANGED <<state, next, events, topics, primitive, nextPrimitive, flags, timer,
                 timeout_cb, data, late, vehicle, operator, parser>>

(* FSM_TRANSITIONS: an event without an arrow is consumed all the same.    *)
TakeEvent ==
  /\ pc = "wait"
  /\ events # <<>>
  /\ events' = Tail(events)
  /\ \/ \E s \in States :
          /\ <<state, Head(events), s>> \in Arrows
          /\ next' = s
          /\ pc' = "exit"
     \/ /\ \A s \in States : <<state, Head(events), s>> \notin Arrows
        /\ UNCHANGED <<next, pc>>
  /\ UNCHANGED <<state, topics, primitive, nextPrimitive, flags, timer, timeout_cb,
                 data, late, vehicle, operator, parser>>

(* Seeded fault: the goal is not cancelled.                                *)
NotStopped(s) == goal

(* The goals after the exit code of FSM state s (PrimitiveManager's        *)
(* x_disable).                                                             *)
Stopped(s) ==
  [k \in Startable |-> IF k = s /\ goal[k] = "active" THEN "cancelling" ELSE goal[k]]

(* FSM_ON_STATE_EXIT: cancel the goal, set the controllers to manual.      *)
ExitState ==
  /\ pc = "exit"
  /\ state' = next
  /\ pc' = IF next \in {"Wait_state", "Pause_state"} THEN "stop" ELSE "enter"
  /\ velcon' = IF state \in Stoppable THEN "manual" ELSE velcon
  /\ goal' = Stopped(state)
  /\ UNCHANGED <<next, events, topics, primitive, nextPrimitive, flags, timer, timeout_cb,
                 data, late, results, operator, parser>>

MainThread ==
  \/ ResetOnEntry \/ EnterWait \/ EnterPause
  \/ EnterDispatcher \/ TakeNumber \/ ParsePrimitive \/ ParseNothing
  \/ SetEventFlag \/ CallPrimitive
  \/ EnterPrimitive \/ TimeoutSet \/ StartPrimitive \/ EnterIdlePrimitive
  \/ TakeEvent \/ ExitState

-----------------------------------------------------------------------------
(* The callbacks.                                                          *)

(* The node is lost by the use of an empty or a half-changed document      *)
(* ("crashed") or of a half-assigned receivedPrimitive ("torn").           *)
Alive == pc \notin {"crashed", "torn"}

(* One of the two spinner threads is free for another callback.            *)
CanCall ==
  /\ Alive
  /\ \/ timeout_cb = "idle" /\ data_cb = "idle"
     \/ timeout_cb = "idle" /\ forwarding = <<>>
     \/ data_cb = "idle" /\ forwarding = <<>>

(* Commands and results of primitives go on to mainEventQueue, a new start *)
(* during a mission as a stop and a start; manual control is configured    *)
(* first.                                                                  *)
ToForward(msg) ==
  IF msg = "START_DISPATCHER" /\ missionActive THEN <<"STOP", msg>>
  ELSE IF msg = "MANUAL_ENABLE" /\ ~missionActive THEN <<"manual", msg>>
  ELSE IF msg = "MANUAL_DISABLE" /\ ~missionActive THEN <<"disabled", msg>>
  ELSE <<msg>>

OnEventString ==
  /\ CanCall
  /\ inbox # <<>> /\ forwarding = <<>>
  /\ inbox' = Tail(inbox)
  /\ forwarding' = ToForward(Head(inbox))
  /\ UNCHANGED <<fsm, events, parser_inbox, primitive, nextPrimitive, flags, timer,
                 timeout_cb, data, late, vehicle, operator, parser>>

Forward ==
  /\ Alive
  /\ forwarding # <<>>
  /\ forwarding' = Tail(forwarding)
  /\ IF Head(forwarding) \in {"manual", "disabled"}
     THEN velcon' = Head(forwarding) /\ UNCHANGED events
     ELSE Raise(Head(forwarding)) /\ UNCHANGED velcon
  /\ UNCHANGED <<fsm, inbox, parser_inbox, primitive, nextPrimitive, flags, timer,
                 timeout_cb, data, late, goal, results, operator, parser>>

(* A change of the document while the main thread reads it may end the     *)
(* node.                                                                   *)
DocumentChanges ==
  /\ pc' \in {pc} \cup (IF pc = "parse" THEN {"crashed"} ELSE {})
  /\ UNCHANGED <<state, next>>

(* Seeded fault: the parser does not look at the message.                  *)
ParserResetByAnyMessage ==
  /\ CanCall
  /\ parser_inbox # <<>>
  /\ parser_inbox' = Tail(parser_inbox)
  /\ ResetParser
  /\ DocumentChanges
  /\ UNCHANGED <<events, inbox, forwarding, primitive, nextPrimitive, flags, timer,
                 timeout_cb, data, late, vehicle, operator>>

ParserOnEventString ==
  /\ CanCall
  /\ parser_inbox # <<>>
  /\ parser_inbox' = Tail(parser_inbox)
  /\ IF Head(parser_inbox) = "STOP" THEN ResetParser /\ DocumentChanges
                                    ELSE UNCHANGED <<parser, fsm>>
  /\ UNCHANGED <<events, inbox, forwarding, primitive, nextPrimitive, flags, timer,
                 timeout_cb, data, late, vehicle, operator>>

(* The one-shot timer goes off.  A timeout is longer than the few          *)
(* instructions of setTimeout and of onTimeout.                            *)
OnTimeout ==
  /\ CanCall
  /\ timer # 0 /\ pc # "armed" /\ timeout_cb = "idle"
  /\ timer' = 0
  /\ timeout_cb' = "stop"
  /\ UNCHANGED <<fsm, events, topics, primitive, nextPrimitive, flags, data, late,
                 vehicle, operator, parser>>

TimeoutResets ==
  /\ Alive
  /\ timeout_cb \in ResetSteps
  /\ EndReset(timeout_cb)
  /\ timeout_cb' = Following(timeout_cb)
  /\ UNCHANGED <<fsm, events, topics, primitive, nextPrimitive, data, late, vehicle,
                 operator, parser>>

TimeoutRaises ==
  /\ Alive
  /\ timeout_cb = "done"
  /\ Raise("TIMEOUT")
  /\ timeout_cb' = "idle"
  /\ UNCHANGED <<fsm, topics, primitive, nextPrimitive, flags, timer, data, late, vehicle,
                 operator, parser>>

(* onDataEventsContainer: the first true event of receivedPrimitive is     *)
(* looked for while the main thread may be replacing it, ...               *)
OnDataEvent ==
  /\ CanCall
  /\ data_cb = "idle"
  /\ checkEventFlag
  /\ \E i \in DOMAIN received.next : chosen' = received.next[i]
  /\ data_cb' = "store"
  /\ late' = (late \/ pc = "parse")
  /\ pc' \in {pc} \cup (IF pc = "parse" THEN {"torn"} ELSE {})
  /\ UNCHANGED <<state, next, events, topics, primitive, nextPrimitive, flags, timer,
                 timeout_cb, vehicle, operator, parser>>

(* ... decides which primitive is next, unless the main thread is just     *)
(* incrementing or decrementing the number and overwrites it, ...          *)
Overwritten == pc = "number" \/ (state = "Pause_state" /\ pc = "done")
StoreChosen ==
  /\ Alive
  /\ data_cb = "store"
  /\ nextPrimitive' \in {chosen} \cup (IF Overwritten THEN {nextPrimitive} ELSE {})
  /\ data_cb' = "stop"
  /\ UNCHANGED <<fsm, events, topics, primitive, flags, timer, timeout_cb, chosen, late,
                 vehicle, operator, parser>>

(* ... and ends this one.                                                  *)
DataEventResets ==
  /\ Alive
  /\ data_cb \in ResetSteps
  /\ CanStop(data_cb)
  /\ EndReset(data_cb)
  /\ data_cb' = Following(data_cb)
  /\ UNCHANGED <<fsm, events, topics, primitive, nextPrimitive, timeout_cb, chosen, late,
                 vehicle, operator, parser>>

DataEventRaises ==
  /\ Alive
  /\ data_cb = "done"
  /\ Raise("PRIMITIVE_FINISHED")
  /\ data_cb' = "idle"
  /\ chosen' = 0
  /\ UNCHANGED <<fsm, topics, primitive, nextPrimitive, flags, timer, timeout_cb, late,
                 vehicle, operator, parser>>

(* doneCb of the action client, for a goal that succeeded.                 *)
PrimitiveDone(k) ==
  /\ CanCall
  /\ k \in results
  /\ results' = results \ {k}
  /\ Publish("PRIMITIVE_FINISHED")
  /\ UNCHANGED <<fsm, events, primitive, nextPrimitive, flags, timer, timeout_cb, data,
                 late, goal, velcon, operator, parser>>

(* The mission file arrives; the data event manager is told about it.  A   *)
(* stop handled at the same time changes the document, too.                *)
LoadMission(mission) ==
  /\ CanCall
  /\ issued < MaxCommands
  /\ issued' = issued + 1
  /\ ReceiveMission(mission)
  /\ setup' = (setup \/ mission # NoMission)
  /\ \/ DocumentChanges
     \/ /\ parser_inbox # <<>> /\ Head(parser_inbox) = "STOP"
        /\ pc' = "crashed" /\ UNCHANGED <<state, next>>
  /\ UNCHANGED <<events, topics, primitive, nextPrimitive, flags, timer, timeout_cb,
                 data, late, vehicle, stopped>>

-----------------------------------------------------------------------------
(* The other nodes.                                                        *)

(* The action server of a primitive.  A cancel may come too late.          *)
Succeeds(k) ==
  /\ goal[k] # "none"
  /\ goal' = [goal EXCEPT ![k] = "none"]
  /\ results' = results \cup {k}
  /\ UNCHANGED <<fsm, events, topics, primitive, nextPrimitive, flags, timer, timeout_cb,
                 data, late, velcon, operator, parser>>

Preempted(k) ==
  /\ goal[k] = "cancelling"
  /\ goal' = [goal EXCEPT ![k] = "none"]
  /\ UNCHANGED <<fsm, events, topics, primitive, nextPrimitive, flags, timer, timeout_cb,
                 data, late, results, velcon, operator, parser>>

(* Seeded fault: another event's name.                                     *)
SetupMisspelt ==
  /\ setup
  /\ setup' = FALSE
  /\ Publish("START")
  /\ UNCHANGED <<fsm, events, primitive, nextPrimitive, flags, timer, timeout_cb, data,
                 late, vehicle, issued, stopped, parser>>

(* onMissionSetup of the data event manager.                               *)
SetupDone ==
  /\ setup
  /\ setup' = FALSE
  /\ Publish("START_DISPATCHER")
  /\ UNCHANGED <<fsm, events, primitive, nextPrimitive, flags, timer, timeout_cb, data,
                 late, vehicle, issued, stopped, parser>>

Operator(msg) ==
  /\ issued < MaxCommands
  /\ issued' = issued + 1
  /\ stopped' = (stopped \/ msg = "STOP")
  /\ Publish(msg)
  /\ UNCHANGED <<fsm, events, primitive, nextPrimitive, flags, timer, timeout_cb, data,
                 late, vehicle, setup, parser>>

Callbacks ==
  \/ OnEventString \/ Forward \/ ParserOnEventString
  \/ OnTimeout \/ TimeoutResets \/ TimeoutRaises
  \/ OnDataEvent \/ StoreChosen \/ DataEventResets \/ DataEventRaises
  \/ \E k \in Startable : PrimitiveDone(k)
  \/ \E mission \in Missions : LoadMission(mission)

Others ==
  \/ \E k \in Startable : Preempted(k)
  \/ \E k \in Ending : Succeeds(k)
  \/ SetupDone
  \/ \E msg \in Commands : Operator(msg)

Next == MainThread \/ Callbacks \/ Others

Spec == Init /\ [][Next]_vars

(* A considerate operator sends one mission, and a command only when the   *)
(* one before has been passed on.                                          *)
Considerate ==
  issued' > issued => inbox = <<>> /\ forwarding = <<>> /\ (issued = 0 <=> setup')
ConsiderateNext == Next /\ Considerate
ConsiderateSafety == Init /\ [][ConsiderateNext]_vars

(* Threads keep running, messages arrive, a timer that is not stopped goes *)
(* off, and the actions of the kinds in Ending end.  Data events and the   *)
(* operator are under no obligation.                                       *)
Fairness ==
  /\ WF_vars(MainThread)
  /\ WF_vars(OnEventString) /\ WF_vars(Forward) /\ WF_vars(ParserOnEventString)
  /\ WF_vars(OnTimeout) /\ WF_vars(TimeoutResets) /\ WF_vars(TimeoutRaises)
  /\ WF_vars(StoreChosen) /\ WF_vars(DataEventResets) /\ WF_vars(DataEventRaises)
  /\ WF_vars(SetupDone)
  /\ \A k \in Startable : WF_vars(PrimitiveDone(k)) /\ WF_vars(Preempted(k))
  /\ \A k \in Ending : WF_vars(Succeeds(k))
FairSpec == Spec /\ Fairness
ConsiderateSpec == ConsiderateSafety /\ Fairness

-----------------------------------------------------------------------------
(* Properties.                                                             *)

(* Types of the node's state (class MissionExecution, class MissionParser).*)
TypeOK ==
  /\ state \in States /\ next \in States
  /\ pc \in ResetSteps \cup {"done", "enter", "number", "parse", "flag", "answer",
                             "armed", "start", "wait", "exit", "crashed", "torn"}
  /\ events \in Seq(Event)
  /\ inbox \in Seq(Event) /\ parser_inbox \in Seq(Event)
  /\ forwarding \in Seq(Event \cup {"manual", "disabled"})
  /\ received \in {NoPrimitive} \cup [kind : Kinds, timeout : BOOLEAN, next : Seq(Nat)]
  /\ request \in Int /\ nextPrimitive \in Int /\ timer \in Int
  /\ missionActive \in BOOLEAN /\ timeoutActive \in BOOLEAN /\ checkEventFlag \in BOOLEAN
  /\ timeout_cb \in ResetSteps \cup {"idle", "done"}
  /\ data_cb \in ResetSteps \cup {"idle", "store", "done"}
  /\ chosen \in Nat /\ late \in BOOLEAN
  /\ goal \in [Startable -> {"none", "active", "cancelling"}]
  /\ results \subseteq Startable
  /\ velcon \in {"disabled", "manual", "velcon"}
  /\ setup \in BOOLEAN /\ issued \in 0 .. MaxCommands /\ stopped \in BOOLEAN
  /\ doc \in Missions \cup {NoMission} /\ parser_active \in BOOLEAN

(* No primitive outlives its FSM state: while the FSM is in another state, *)
(* whatever the order of stops, timeouts, data events and results, no goal *)
(* is left running and the velocity controllers do not follow references,  *)
(* unless the node is lost.                                                *)
QuietOutsidePrimitive ==
  Alive =>
    /\ \A k \in Startable :
         goal[k] = "active" => state = k /\ pc \in {"wait", "exit"}
    /\ velcon = "velcon" => state \in Startable /\ pc \in {"wait", "exit"}

(* A mission whose events lead forward never goes back: from a primitive's *)
(* state and from a pause, in which nextPrimitive is decremented, also if  *)
(* a data event has just set it, the next request is for the same or a     *)
(* later primitive.  Only a data event that comes late may set it back:    *)
(* its callback has read the number from a receivedPrimitive that the main *)
(* thread is replacing or has replaced when it is stored.                  *)
NeverBackwards ==
  (~late /\ state \in Primitives \cup {"Pause_state"} /\ pc = "wait") =>
    nextPrimitive >= request

(* A primitive's state runs with the data of a primitive of its own kind:  *)
(* the event that leads to it and receivedPrimitive are set together, but  *)
(* the event is consumed later (`Evaluate primitive data with current      *)
(* values' in go2point_state).                                             *)
PrimitiveFitsState ==
  (state \in Startable /\ pc \in {"enter", "armed", "start", "wait"}) =>
    received.kind = state

(* `Activate primitive timeout' (go2point_state and the others): while a   *)
(* primitive with a timeout runs, the running timer is its own.            *)
PrimitiveHasItsTimeout ==
  (state \in Startable /\ pc = "wait" /\ received.timeout /\ timer # 0) =>
    timer = request

(* Under a considerate operator the main thread finds a mission in the     *)
(* document whenever it looks for a primitive, and nobody changes it       *)
(* meanwhile, unless he stops the mission: then the parser may empty the   *)
(* document before the main thread has heard of the stop (onEventString of *)
(* MissionParser), which parseMission does not survive.  The stop that     *)
(* requestPrimitive publishes at the end of a mission never does that.     *)
LostOnlyByStop == pc = "crashed" => stopped

(* A stop is obeyed from wherever the FSM is, whatever was queued before   *)
(* it, unless the node is lost on the way.                                 *)
StopHeeded ==
  (\E i \in DOMAIN events : events[i] = "STOP") ~>
    (~Alive \/ (state = "Wait_state" /\ pc = "wait"))

(* A mission comes to its end or is paused: no event is lost between the   *)
(* queues on which the dispatcher or a primitive would wait for ever,      *)
(* unless the node is lost (see LostOnlyByStop).                           *)
MissionEnds ==
  (state = "Dispatcher_state") ~> (~Alive \/ state \in {"Wait_state", "Pause_state"})
=============================================================================
