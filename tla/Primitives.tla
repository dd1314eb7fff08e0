----------------------------- MODULE Primitives -----------------------------
(***************************************************************************)
(* The primitives go2point, dynamic_positioning, docking and track_diver   *)
(* of labust_primitives: four nodes, each an action server and, in one     *)
(* thread, the callbacks onGoal, onPreempt and onStateHat.  A callback     *)
(* enables and disables high-level controllers, which the nodes share, by  *)
(* blocking service calls: each is a step, and the other nodes go on in    *)
(* between.                                                                *)
(*                                                                         *)
(* The client is the mission execution: it starts one primitive after the  *)
(* other and, when it leaves a primitive, because it has succeeded or for  *)
(* another reason, cancels its goals (PrimitiveManager, PrimitiveCallBase).*)
(* Goals and cancels are messages of two topics of a node, so that a       *)
(* cancel may come before the goal, or after the goal of the next          *)
(* primitive has reached its own node.                                     *)
(***************************************************************************)
EXTENDS Naturals, Sequences, FiniteSets, SequencesExt

CONSTANTS
  Goals,     \* the goals the client may send
  MaxGoals   \* bound: the number of goals it sends

Nodes == {"go2point", "dynamic_positioning", "docking", "track_diver"}
Controllers == {"UALF", "FALF", "HDG", "DEPTH", "FADP", "VT"}

(* A goal: the node it is for, fully actuated or not, whether the          *)
(* horizontal axes and the depth are enabled, and whether go2point finds   *)
(* its speed and its radius acceptable.                                    *)
Goal == [node : Nodes, fa : BOOLEAN, xy : BOOLEAN, z : BOOLEAN, valid : BOOLEAN]

ASSUME GoalsAssumption == Goals \subseteq Goal
ASSUME MaxGoalsAssumption == MaxGoals \in Nat

VARIABLES
  \* the high-level controllers
  enabled,        \* those whose flag `enable' is set
  \* the nodes; a goal is known by its number in `sent', 0 is none
  goal,           \* the pointer `goal' (cgoal in track_diver)
  on,             \* controllers.state: those that are to be enabled
  underactuated,  \* of go2point
  todo,           \* what is left of the callback that runs
  \* the action servers
  active,         \* aserver->isActive()
  current,        \* the goal accepted last
  lastCancel,     \* goals up to this one are cancelled
  goal_msgs, cancel_msgs,   \* the two topics
  \* the client
  sent,           \* the goals sent so far, in this order
  running         \* the one whose primitive the mission is in, or 0

client == <<sent, running>>
server == <<active, current, lastCancel>>
msgs == <<goal_msgs, cancel_msgs>>
vars == <<enabled, goal, on, underactuated, todo, server, msgs, client>>

Init ==
  /\ enabled = {}
  /\ goal = [n \in Nodes |-> 0] /\ on = [n \in Nodes |-> {}]
  /\ underactuated = FALSE
  /\ todo = [n \in Nodes |-> <<>>]
  /\ active = [n \in Nodes |-> FALSE]
  /\ current = [n \in Nodes |-> 0] /\ lastCancel = [n \in Nodes |-> 0]
  /\ goal_msgs = [n \in Nodes |-> <<>>] /\ cancel_msgs = [n \in Nodes |-> <<>>]
  /\ sent = <<>> /\ running = 0

-----------------------------------------------------------------------------
(* What a callback has to do, one after the other: service calls, and the  *)
(* parts between them.                                                     *)

Set(c, b) == [do |-> "set", controller |-> c, enable |-> b]
Part(name) == [do |-> name, controller |-> "none", enable |-> FALSE]
Item == [do : {"set"}, controller : Controllers, enable : BOOLEAN]
          \cup {Part(name) : name \in {"goal", "preempted", "succeeded"}}

(* updateControllers of each node: the calls that bring its controllers to *)
(* what `on' says.  go2point calls one of its line followers only, and     *)
(* dynamic_positioning sets the heading controller from the flag of FADP.  *)
PointCalls(s, ua) ==
  << Set(IF ua THEN "UALF" ELSE "FALF", {"UALF", "FALF"} \cap s # {}),
     Set("HDG", "HDG" \in s), Set("DEPTH", "DEPTH" \in s) >>
(* Seeded fault: the name of a controller is not initialised.              *)
PositionCallsUnnamed(s) == << Set("none", "FADP" \in s), Set("HDG", "FADP" \in s) >>
PositionCalls(s) == << Set("FADP", "FADP" \in s), Set("HDG", "FADP" \in s) >>
DockCalls(s) == << Set("HDG", "HDG" \in s) >>
TrackCalls(s) == << Set("VT", "VT" \in s) >>
Update(n, s, ua) ==
  CASE n = "go2point" -> PointCalls(s, ua)
    [] n = "dynamic_positioning" -> PositionCalls(s)
    [] n = "docking" -> DockCalls(s)
    [] n = "track_diver" -> TrackCalls(s)

Idle(n) == todo[n] = <<>>
Doing(n, what) == ~Idle(n) /\ Head(todo[n]).do = what

(* A service call: the controller's onEnableControl.                       *)
SetController(n) ==
  /\ Doing(n, "set")
  /\ LET call == Head(todo[n])
     IN enabled' = IF call.enable THEN enabled \cup {call.controller}
                                  ELSE enabled \ {call.controller}
  /\ todo' = [todo EXCEPT ![n] = Tail(@)]
  /\ UNCHANGED <<goal, on, underactuated, server, msgs, client>>

-----------------------------------------------------------------------------
(* The client.                                                             *)

(* A primitive's state is entered: sendGoal.                               *)
Start(g) ==
  /\ running = 0 /\ Len(sent) < MaxGoals
  /\ sent' = Append(sent, g) /\ running' = Len(sent')
  /\ goal_msgs' = [goal_msgs EXCEPT ![g.node] = Append(@, Len(sent'))]
  /\ UNCHANGED <<enabled, goal, on, underactuated, todo, server, cancel_msgs>>

(* The state is left, after the primitive's success, a timeout, a stop or  *)
(* a data event: all goals sent until now are cancelled at this node.      *)
Leave ==
  /\ running # 0
  /\ running' = 0
  /\ cancel_msgs' = [cancel_msgs EXCEPT ![sent[running].node] = Append(@, Len(sent))]
  /\ UNCHANGED <<enabled, goal, on, underactuated, todo, server, goal_msgs, sent>>

-----------------------------------------------------------------------------
(* The action server (actionlib's SimpleActionServer).                     *)

(* Seeded fault: a new goal does not disable the controllers of the old.   *)
OnPreemptKeeping(n, then) ==
  /\ goal' = [goal EXCEPT ![n] = IF then = <<>> THEN 0 ELSE @]
  /\ on' = [on EXCEPT ![n] = IF then = <<>> THEN {} ELSE @]
  /\ todo' = [todo EXCEPT ![n] = (IF then = <<>> THEN Update(n, {}, underactuated) ELSE <<>>)
                                   \o <<Part("preempted")>> \o then]

(* onPreempt: forget the goal, disable the controllers, setPreempted.  The *)
(* flag processNewGoal is never set here: the server calls it before       *)
(* onGoal, which sets the flag.                                            *)
OnPreempt(n, then) ==
  /\ goal' = [goal EXCEPT ![n] = 0]
  /\ on' = [on EXCEPT ![n] = {}]
  /\ todo' = [todo EXCEPT ![n] = Update(n, {}, underactuated) \o <<Part("preempted")>> \o then]

(* Seeded fault: the goal sent after a cancel is taken to be cancelled.    *)
ReceiveGoalLate(n) ==
  /\ Idle(n) /\ goal_msgs[n] # <<>>
  /\ IF lastCancel[n] > 0 /\ Head(goal_msgs[n]) <= lastCancel[n] + 1
     THEN /\ goal_msgs' = [goal_msgs EXCEPT ![n] = Tail(@)]
          /\ UNCHANGED <<goal, on, todo>>
     ELSE /\ IF active[n] THEN OnPreempt(n, <<Part("goal")>>)
             ELSE todo' = [todo EXCEPT ![n] = <<Part("goal")>>] /\ UNCHANGED <<goal, on>>
          /\ UNCHANGED goal_msgs
  /\ UNCHANGED <<enabled, underactuated, server, cancel_msgs, client>>

(* A goal: dropped if it is not later than the last cancel; otherwise the  *)
(* preempt callback, if a goal is active, and the goal callback.           *)
ReceiveGoal(n) ==
  /\ Idle(n) /\ goal_msgs[n] # <<>>
  /\ IF Head(goal_msgs[n]) <= lastCancel[n]
     THEN /\ goal_msgs' = [goal_msgs EXCEPT ![n] = Tail(@)]
          /\ UNCHANGED <<goal, on, todo>>
     ELSE /\ IF active[n] THEN OnPreempt(n, <<Part("goal")>>)
             ELSE todo' = [todo EXCEPT ![n] = <<Part("goal")>>] /\ UNCHANGED <<goal, on>>
          /\ UNCHANGED goal_msgs
  /\ UNCHANGED <<enabled, underactuated, server, cancel_msgs, client>>

(* Seeded fault: a cancel applies to whatever goal is active.              *)
CancelAnyGoal(n) ==
  /\ Idle(n) /\ cancel_msgs[n] # <<>>
  /\ LET stamp == Head(cancel_msgs[n])
     IN lastCancel' = [lastCancel EXCEPT ![n] = IF stamp > @ THEN stamp ELSE @]
  /\ IF active[n] THEN OnPreempt(n, <<>>) ELSE UNCHANGED <<goal, on, todo>>
  /\ cancel_msgs' = [cancel_msgs EXCEPT ![n] = Tail(@)]
  /\ UNCHANGED <<enabled, underactuated, active, current, goal_msgs, client>>

(* Seeded fault: a cancel is not remembered for a goal that comes later.   *)
CancelForgotten(n) ==
  /\ Idle(n) /\ cancel_msgs[n] # <<>>
  /\ IF active[n] /\ current[n] <= Head(cancel_msgs[n]) THEN OnPreempt(n, <<>>)
     ELSE UNCHANGED <<goal, on, todo>>
  /\ cancel_msgs' = [cancel_msgs EXCEPT ![n] = Tail(@)]
  /\ UNCHANGED <<enabled, underactuated, server, goal_msgs, client>>

(* A cancel: the preempt callback, if the active goal is not later.        *)
ReceiveCancel(n) ==
  /\ Idle(n) /\ cancel_msgs[n] # <<>>
  /\ LET stamp == Head(cancel_msgs[n])
     IN /\ lastCancel' = [lastCancel EXCEPT ![n] = IF stamp > @ THEN stamp ELSE @]
        /\ IF active[n] /\ current[n] <= stamp THEN OnPreempt(n, <<>>)
           ELSE UNCHANGED <<goal, on, todo>>
  /\ cancel_msgs' = [cancel_msgs EXCEPT ![n] = Tail(@)]
  /\ UNCHANGED <<enabled, underactuated, active, current, goal_msgs, client>>

(* Seeded fault: the server is not told of the preemption.                 *)
PreemptedSilently(n) ==
  /\ Doing(n, "preempted")
  /\ todo' = [todo EXCEPT ![n] = Tail(@)]
  /\ UNCHANGED <<enabled, goal, on, underactuated, server, msgs, client>>

(* The end of onPreempt: setPreempted.                                     *)
Preempted(n) ==
  /\ Doing(n, "preempted")
  /\ active' = [active EXCEPT ![n] = FALSE]
  /\ todo' = [todo EXCEPT ![n] = Tail(@)]
  /\ UNCHANGED <<enabled, goal, on, underactuated, current, lastCancel, msgs, client>>

-----------------------------------------------------------------------------
(* The callbacks of the nodes.                                             *)

(* The vehicle's heading against the line to the point: within 60 degrees, *)
(* within 90 degrees, or beyond.                                           *)
Headings == {"ahead", "aside", "astern"}

(* step() of an underactuated go2point: the line follower ahead, the       *)
(* heading controller astern; nothing changes in between.                  *)
Turns(g, s, ua, h) == g.xy /\ ua /\ (h = "astern" \/ (h = "ahead" /\ "HDG" \in s))
Turned(g, s, ua, h) ==
  IF ~Turns(g, s, ua, h) THEN s
  ELSE IF h = "astern" THEN (s \cup {"HDG"}) \ {"UALF"} ELSE (s \cup {"UALF"}) \ {"HDG"}
TurnCalls(g, s, ua, h) ==
  IF Turns(g, s, ua, h) THEN Update("go2point", Turned(g, s, ua, h), ua) ELSE <<>>

Where(c, condition) == IF condition THEN {c} ELSE {}
(* What go2point's onGoal leaves in controllers.state.  Underactuated and  *)
(* astern it changes nothing, the depth controller is not enabled either.  *)
ForPoint(g, s, h) ==
  IF g.fa THEN (s \ {"FALF", "HDG", "DEPTH"}) \cup Where("FALF", g.xy)
                 \cup Where("HDG", g.xy) \cup Where("DEPTH", g.z)
  ELSE IF h = "astern" THEN s
  ELSE (s \ {"UALF", "HDG", "DEPTH"}) \cup Where("UALF", g.xy) \cup Where("DEPTH", g.z)

(* go2point: a goal without speed or radius is aborted, and the callback   *)
(* goes on all the same.                                                   *)
GoToPoint(g, h) ==
  LET ua == ~g.fa
      s == ForPoint(g, Turned(g, on["go2point"], ua, h), h)
  IN /\ underactuated' = ua
     /\ active' = [active EXCEPT !["go2point"] = g.valid]
     /\ on' = [on EXCEPT !["go2point"] = s]
     /\ todo' = [todo EXCEPT !["go2point"] =
                   TurnCalls(g, on["go2point"], ua, h) \o Update("go2point", s, ua)]

(* The others: what a goal enables, and the service calls for it.          *)
Accept(n, s, calls) ==
  /\ active' = [active EXCEPT ![n] = TRUE]
  /\ on' = [on EXCEPT ![n] = s]
  /\ todo' = [todo EXCEPT ![n] = calls]
  /\ UNCHANGED underactuated

(* dynamic_positioning: FADP if both horizontal axes are enabled.          *)
HoldPosition(g) ==
  LET s == Where("FADP", g.xy)
  IN Accept("dynamic_positioning", s, PositionCalls(s))
(* docking: first its hardware is moved, for many seconds; then the heading*)
(* controller is disabled.                                                 *)
DockMussel == Accept("docking", {}, DockCalls({}))
(* track_diver: its controller is called if there was no goal.             *)
TrackDiver ==
  Accept("track_diver", {"VT"}, IF goal["track_diver"] = 0 THEN TrackCalls({"VT"}) ELSE <<>>)

OnGoal(n) ==
  /\ Doing(n, "goal")
  /\ LET id == Head(goal_msgs[n])
     IN /\ CASE n = "go2point" -> \E h \in Headings : GoToPoint(sent[id], h)
             [] n = "dynamic_positioning" -> HoldPosition(sent[id])
             [] n = "docking" -> DockMussel
             [] n = "track_diver" -> TrackDiver
        /\ current' = [current EXCEPT ![n] = id]
        /\ goal' = [goal EXCEPT ![n] = id]
  /\ goal_msgs' = [goal_msgs EXCEPT ![n] = Tail(@)]
  /\ UNCHANGED <<enabled, lastCancel, cancel_msgs, client>>

(* A state estimate while a goal is active.  go2point may turn, and may    *)
(* have come to its end; the calls of a turn come first.                   *)
PointStateHat ==
  /\ Idle("go2point") /\ active["go2point"]
  /\ LET g == sent[goal["go2point"]]
         s == on["go2point"]
     IN \E h \in Headings, end \in {<<>>, <<Part("succeeded")>>} :
          /\ on' = [on EXCEPT !["go2point"] = Turned(g, s, underactuated, h)]
          /\ todo' = [todo EXCEPT !["go2point"] = TurnCalls(g, s, underactuated, h) \o end]
  /\ UNCHANGED <<enabled, goal, underactuated, server, msgs, client>>

(* docking may have come to its end; the other two have none.              *)
DockStateHat ==
  /\ Idle("docking") /\ active["docking"]
  /\ todo' = [todo EXCEPT !["docking"] = <<Part("succeeded")>>]
  /\ UNCHANGED <<enabled, goal, on, underactuated, server, msgs, client>>

(* Seeded fault: controllers.state keeps its flags at the end.             *)
SucceededStillOn(n) ==
  /\ Doing(n, "succeeded")
  /\ active' = [active EXCEPT ![n] = FALSE]
  /\ goal' = [goal EXCEPT ![n] = 0]
  /\ todo' = [todo EXCEPT ![n] = Update(n, on[n], underactuated)]
  /\ UNCHANGED <<enabled, on, underactuated, current, lastCancel, msgs, client>>

(* The end of the primitive: setSucceeded first, the controllers after it. *)
Succeeded(n) ==
  /\ Doing(n, "succeeded")
  /\ active' = [active EXCEPT ![n] = FALSE]
  /\ goal' = [goal EXCEPT ![n] = 0]
  /\ on' = [on EXCEPT ![n] = {}]
  /\ todo' = [todo EXCEPT ![n] = Update(n, {}, underactuated)]
  /\ UNCHANGED <<enabled, underactuated, current, lastCancel, msgs, client>>

(* A state estimate when the goal is over but not forgotten (after an      *)
(* abort): the controllers are disabled.  Only track_diver, whose goals    *)
(* are not aborted, would not forget it here.                              *)
StopControllers(n) ==
  /\ Idle(n) /\ ~active[n] /\ goal[n] # 0
  /\ goal' = [goal EXCEPT ![n] = IF n = "track_diver" THEN @ ELSE 0]
  /\ on' = [on EXCEPT ![n] = {}]
  /\ todo' = [todo EXCEPT ![n] = Update(n, {}, underactuated)]
  /\ UNCHANGED <<enabled, underactuated, server, msgs, client>>

-----------------------------------------------------------------------------
Callback(n) == SetController(n) \/ Preempted(n) \/ OnGoal(n) \/ Succeeded(n)
Serve(n) == ReceiveGoal(n) \/ ReceiveCancel(n) \/ StopControllers(n)
Client == (\E g \in Goals : Start(g)) \/ Leave
Next ==
  \/ Client \/ PointStateHat \/ DockStateHat
  \/ \E n \in Nodes : Callback(n) \/ Serve(n)

(* A callback that runs goes on; ros::spin serves the messages of a node   *)
(* in turn, and state estimates keep coming.  A node without goals does    *)
(* nothing.                                                                *)
Fairness ==
  \A n \in {g.node : g \in Goals} : WF_vars(Callback(n)) /\ SF_vars(Serve(n))
Safety == Init /\ [][Next]_vars
Spec == Safety /\ Fairness

(* State estimates come many times a second, goals do not: after an abort  *)
(* an estimate comes in before the next goal.                              *)
EstimatesAreFrequent ==
  \A n \in Nodes :
    (Idle(n) /\ ~active[n] /\ goal[n] # 0) => todo'[n] # <<Part("goal")>>
FrequentNext == Next /\ EstimatesAreFrequent
FrequentSafety == Init /\ [][FrequentNext]_vars
FrequentSpec == FrequentSafety /\ Fairness

-----------------------------------------------------------------------------
(* Properties.                                                             *)

(* Types.                                                                  *)
Ids == 0 .. Len(sent)
TypeOK ==
  /\ enabled \subseteq Controllers
  /\ sent \in Seq(Goals) /\ running \in Ids
  /\ goal \in [Nodes -> Ids] /\ current \in [Nodes -> Ids] /\ lastCancel \in [Nodes -> Ids]
  /\ on \in [Nodes -> SUBSET Controllers]
  /\ underactuated \in BOOLEAN /\ active \in [Nodes -> BOOLEAN]
  /\ todo \in [Nodes -> Seq(Item)]
  /\ goal_msgs \in [Nodes -> Seq(Ids \ {0})] /\ cancel_msgs \in [Nodes -> Seq(Ids \ {0})]

(* The controllers a node's callbacks have decided to enable, and those    *)
(* that no other node uses.                                                *)
Wanted(n) ==
  {c \in Controllers : Set(c, TRUE) \in ToSet(Update(n, on[n], underactuated))}
Private(n) ==
  CASE n = "go2point" -> {"UALF", "FALF", "DEPTH"}
    [] n = "dynamic_positioning" -> {"FADP"}
    [] n = "docking" -> {}
    [] n = "track_diver" -> {"VT"}

(* No controller is forgotten: one that is enabled is wanted by a node, or *)
(* a callback that runs will disable it.  go2point reaches only the line   *)
(* follower of its present subtype.                                        *)
NoneForgotten ==
  \A c \in enabled :
    \E n \in Nodes : c \in Wanted(n) \/ Set(c, FALSE) \in ToSet(todo[n])

(* Between callbacks the controllers that only one node uses are as it     *)
(* wants them, through all successions of goals, cancels, turns and ends;  *)
(* and a node wants something only for a goal it knows.                    *)
PrivateAsWanted ==
  \A n \in Nodes :
    Idle(n) => /\ enabled \cap Private(n) = Wanted(n) \ {"HDG"}
               /\ goal[n] = 0 => Wanted(n) = {}

(* While a goal is active, onStateHat finds it behind its pointer, which   *)
(* it does not check: a null pointer is dereferenced otherwise.            *)
GoalBehindPointer ==
  \A n \in Nodes : Idle(n) /\ active[n] => goal[n] = current[n] /\ goal[n] # 0

(* The goal of the running primitive is ended by nothing but its success:  *)
(* the cancel and the preempt callback of an earlier goal, however late,   *)
(* do not reach it.                                                        *)
EndsBySuccess ==
  [][ \A n \in Nodes :
        (active[n] /\ ~active'[n] /\ current[n] = running /\ running # 0)
          => Succeeded(n) ]_vars

(* When the mission has left its last primitive, in the end no controller  *)
(* is enabled.                                                             *)
OffInTheEnd == (running = 0) ~> (enabled = {} \/ running # 0)

(* A primitive that the mission stays in gets its goal: it is accepted and *)
(* everything it asks for from its own controllers is done.                *)
GoalTaken ==
  \A i \in 1 .. MaxGoals :
    (running = i) ~>
      (running # i \/ \E n \in Nodes : current[n] = i /\ enabled \cap Private(n) = Wanted(n) \ {"HDG"})

(* What the code says of itself, and does not do.                          *)

(* `Enable controllers' (DynamicPositionining::onGoal, GoToPoint::onGoal): *)
(* when everything has come to rest, the controllers that the active       *)
(* primitive wants are enabled, the heading controller too.                *)
AtRest ==
  \A n \in Nodes : Idle(n) /\ goal_msgs[n] = <<>> /\ cancel_msgs[n] = <<>>
HasItsControllers ==
  AtRest => \A n \in Nodes : active[n] => Wanted(n) \subseteq enabled
=============================================================================
