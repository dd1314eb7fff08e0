------------------------ MODULE MissionExecutionProofs ------------------------
(* Proofs about the mission execution node, for every set of mission files *)
(* and commands, every bound on them and every choice of the actions that  *)
(* end by themselves.                                                      *)
EXTENDS MissionExecution, TLAPS

(***************************************************************************)
(* What the properties rest on: the phases in which a primitive is         *)
(* requested or started belong to their states, and the exit code runs on  *)
(* the way along an arrow.                                                 *)
(***************************************************************************)
PhasesKnown ==
  /\ pc \in {"armed", "start"} => state \in Startable
  /\ pc \in {"number", "parse", "flag", "answer"} => state = "Dispatcher_state"
  /\ pc \in ResetSteps \cup {"done"} => state \in {"Wait_state", "Pause_state"}
  /\ pc = "exit" => \E e \in Event : <<state, e, next>> \in Arrows

-----------------------------------------------------------------------------
(* Types.                                                                  *)

LEMMA KindTypes ==
  /\ Startable \subseteq Primitives /\ Primitives \subseteq Kinds /\ Kinds \subseteq Event
  /\ Startable \subseteq States /\ Primitives \subseteq States
  /\ {"START_DISPATCHER", "STOP", "PRIMITIVE_FINISHED", "TIMEOUT"} \subseteq Event
  /\ {"Wait_state", "Pause_state", "Dispatcher_state"} \subseteq States
BY DEF Kinds, Event, States, Primitives, Stoppable, Startable, NoCode

LEMMA EnqueueType ==
  ASSUME NEW q \in Seq(Event), NEW msg \in Event, NEW size \in Nat \ {0}
  PROVE  Enqueue(q, msg, size) \in Seq(Event)
<1>1. CASE Len(q) < size
  BY <1>1 DEF Enqueue
<1>2. CASE ~(Len(q) < size)
  <2>1. q # <<>>
    BY <1>2
  <2>2. Tail(q) \in Seq(Event)
    BY <2>1
  <2> QED BY <1>2, <2>2 DEF Enqueue
<1> QED BY <1>1, <1>2

LEMMA PublishType ==
  ASSUME TypeOK, NEW msg \in Event, Publish(msg)
  PROVE  inbox' \in Seq(Event) /\ parser_inbox' \in Seq(Event) /\ forwarding' = forwarding
<1>1. InboxSize \in Nat \ {0} /\ ParserInboxSize \in Nat \ {0}
  BY DEF InboxSize, ParserInboxSize
<1>2. inbox \in Seq(Event) /\ parser_inbox \in Seq(Event)
  BY DEF TypeOK
<1> QED BY <1>1, <1>2, EnqueueType DEF Publish

LEMMA RaiseType ==
  ASSUME TypeOK, NEW e \in Event, Raise(e)
  PROVE  events' \in Seq(Event)
BY DEF TypeOK, Raise

LEMMA ElementOfSeq ==
  ASSUME NEW S, NEW q \in Seq(S), NEW i \in DOMAIN q
  PROVE  q[i] \in S
OBVIOUS

LEMMA RequestedType ==
  ASSUME TypeOK, NEW id \in Int
  PROVE  Requested(id) \in {NoPrimitive} \cup [kind : Kinds, timeout : BOOLEAN, next : Seq(Nat)]
<1>1. CASE CanParse /\ id \in DOMAIN doc
  <2>1. doc \in Seq([kind : Kinds, timeout : BOOLEAN, next : Seq(Nat)])
    BY <1>1, MissionsAssumption DEF TypeOK, CanParse
  <2>2. doc[id] \in [kind : Kinds, timeout : BOOLEAN, next : Seq(Nat)]
    BY <1>1, <2>1, ElementOfSeq
  <2> QED BY <1>1, <2>2 DEF Requested
<1>2. CASE ~(CanParse /\ id \in DOMAIN doc)
  BY <1>2 DEF Requested
<1> QED BY <1>1, <1>2

LEMMA EndResetType ==
  ASSUME TypeOK, NEW step \in ResetSteps, EndReset(step)
  PROVE  /\ missionActive' \in BOOLEAN /\ timeoutActive' \in BOOLEAN
         /\ checkEventFlag' \in BOOLEAN /\ timer' \in Int
         /\ Following(step) \in ResetSteps \cup {"done"}
<1>1. /\ missionActive' \in BOOLEAN /\ timeoutActive' \in BOOLEAN
      /\ checkEventFlag' \in BOOLEAN
  BY Zenon DEF EndReset
<1>2. timer' \in Int
  BY DEF EndReset, TypeOK
<1>3. Following(step) \in ResetSteps \cup {"done"}
  BY DEF Following, ResetSteps
<1> QED BY <1>1, <1>2, <1>3

LEMMA InitTypes == Init => TypeOK
<1> SUFFICES ASSUME Init PROVE TypeOK
  OBVIOUS
<1>1. /\ state \in States /\ next \in States
      /\ events \in Seq(Event) /\ inbox \in Seq(Event) /\ parser_inbox \in Seq(Event)
      /\ forwarding \in Seq(Event \cup {"manual", "disabled"})
  BY KindTypes DEF Init
<1>2. goal \in [Startable -> {"none", "active", "cancelling"}] /\ results \subseteq Startable
  BY DEF Init
<1>3. /\ missionActive \in BOOLEAN /\ timeoutActive \in BOOLEAN /\ checkEventFlag \in BOOLEAN
      /\ late \in BOOLEAN /\ setup \in BOOLEAN /\ stopped \in BOOLEAN
      /\ doc \in Missions \cup {NoMission} /\ parser_active \in BOOLEAN
  BY DEF Init, ParserInit
<1>4. pc \in ResetSteps
  BY DEF Init, ResetSteps
<1> QED BY <1>1, <1>2, <1>3, <1>4, MaxCommandsAssumption DEF Init, TypeOK

(* The state machine.                                                      *)
LEMMA EntryTypes ==
  ASSUME TypeOK,
         \/ ResetOnEntry \/ EnterWait \/ EnterPause \/ EnterDispatcher
         \/ EnterPrimitive \/ TimeoutSet \/ EnterIdlePrimitive
  PROVE  TypeOK'
<1>1. CASE ResetOnEntry
  <2>1. pc \in ResetSteps /\ EndReset(pc) /\ pc' = Following(pc)
    BY <1>1 DEF ResetOnEntry
  <2>2. /\ missionActive' \in BOOLEAN /\ timeoutActive' \in BOOLEAN
        /\ checkEventFlag' \in BOOLEAN /\ timer' \in Int
        /\ pc' \in ResetSteps \cup {"done"}
    BY <2>1, EndResetType
  <2> QED BY <1>1, <2>2 DEF ResetOnEntry, TypeOK, topics, primitive, data, vehicle, operator, parser
<1>2. CASE EnterWait
  BY <1>2 DEF EnterWait, TypeOK, topics, primitive, flags, data, vehicle, operator, parser
<1>3. CASE EnterPause
  BY <1>3 DEF EnterPause, TypeOK, topics, primitive, flags, data, vehicle, operator, parser
<1>4. CASE EnterDispatcher
  BY <1>4 DEF EnterDispatcher, TypeOK, topics, primitive, data, vehicle, operator, parser
<1>5. CASE EnterPrimitive
  BY <1>5 DEF EnterPrimitive, TypeOK, topics, primitive, flags, data, vehicle, operator, parser
<1>6. CASE TimeoutSet
  BY <1>6 DEF TimeoutSet, TypeOK, topics, primitive, data, vehicle, operator, parser
<1>7. CASE EnterIdlePrimitive
  BY <1>7 DEF EnterIdlePrimitive, TypeOK, topics, primitive, flags, data, vehicle, operator, parser
<1> QED BY <1>1, <1>2, <1>3, <1>4, <1>5, <1>6, <1>7

LEMMA RequestTypes ==
  ASSUME TypeOK,
         TakeNumber \/ ParsePrimitive \/ ParseNothing \/ SetEventFlag \/ CallPrimitive
  PROVE  TypeOK'
<1>1. CASE TakeNumber
  <2>1. late' \in BOOLEAN
    BY <1>1, Zenon DEF TakeNumber
  <2> QED BY <1>1, <2>1 DEF TakeNumber, TypeOK, topics, flags, data, vehicle, operator, parser
<1>2. CASE ParsePrimitive
  <2>1. received' \in {NoPrimitive} \cup [kind : Kinds, timeout : BOOLEAN, next : Seq(Nat)]
    BY <1>2, RequestedType DEF ParsePrimitive, TypeOK
  <2> QED BY <1>2, <2>1 DEF ParsePrimitive, TypeOK, topics, flags, data, vehicle, operator, parser
<1>3. CASE ParseNothing
  BY <1>3 DEF ParseNothing, TypeOK, topics, primitive, flags, data, vehicle, operator, parser
<1>4. CASE SetEventFlag
  <2>1. checkEventFlag' \in BOOLEAN
    BY <1>4, Zenon DEF SetEventFlag
  <2> QED BY <1>4, <2>1 DEF SetEventFlag, TypeOK, topics, primitive, data, vehicle, operator, parser
<1>5. CASE CallPrimitive
  <2>1. CASE received # NoPrimitive
    <3>1. received.kind \in Event /\ Raise(received.kind) /\ UNCHANGED topics
      BY <1>5, <2>1, KindTypes DEF CallPrimitive, TypeOK
    <3>2. events' \in Seq(Event)
      BY <3>1, RaiseType
    <3> QED BY <1>5, <3>1, <3>2
            DEF CallPrimitive, TypeOK, topics, primitive, flags, data, vehicle, operator, parser
  <2>2. CASE received = NoPrimitive
    <3>1. Publish("STOP") /\ UNCHANGED events
      BY <1>5, <2>2 DEF CallPrimitive
    <3> QED BY <1>5, <3>1, PublishType, KindTypes
            DEF CallPrimitive, TypeOK, primitive, flags, data, vehicle, operator, parser
  <2> QED BY <2>1, <2>2
<1> QED BY <1>1, <1>2, <1>3, <1>4, <1>5

LEMMA StateMachineTypes ==
  ASSUME TypeOK, StartPrimitive \/ TakeEvent \/ ExitState
  PROVE  TypeOK'
<1>1. CASE StartPrimitive
  <2>1. goal' \in [Startable -> {"none", "active", "cancelling"}] /\ results' \subseteq Startable
    BY <1>1 DEF StartPrimitive, TypeOK
  <2> QED BY <1>1, <2>1
        DEF StartPrimitive, TypeOK, topics, primitive, flags, data, operator, parser
<1>2. CASE TakeEvent
  <2>1. events' \in Seq(Event) /\ next' \in States /\ pc' \in {"wait", "exit"}
    <3>1. events \in Seq(Event) /\ events # <<>> /\ next \in States /\ pc = "wait"
      BY <1>2 DEF TakeEvent, TypeOK
    <3>2. Tail(events) \in Seq(Event)
      BY <3>1
    <3> QED BY <1>2, <3>1, <3>2 DEF TakeEvent
  <2> QED BY <1>2, <2>1
        DEF TakeEvent, TypeOK, topics, primitive, flags, data, vehicle, operator, parser
<1>3. CASE ExitState
  <2>1. goal' \in [Startable -> {"none", "active", "cancelling"}]
    BY <1>3 DEF ExitState, Stopped, TypeOK
  <2>2. velcon' \in {"disabled", "manual", "velcon"}
    BY <1>3 DEF ExitState, TypeOK
  <2>3. pc' \in ResetSteps \cup {"enter"}
    BY <1>3 DEF ExitState, ResetSteps
  <2> QED BY <1>3, <2>1, <2>2, <2>3
        DEF ExitState, TypeOK, topics, primitive, flags, data, operator, parser
<1> QED BY <1>1, <1>2, <1>3

LEMMA MessageTypes ==
  ASSUME TypeOK, OnEventString \/ Forward \/ ParserOnEventString
  PROVE  TypeOK'
<1>1. CASE OnEventString
  <2>1. inbox' \in Seq(Event) /\ Head(inbox) \in Event
    BY <1>1 DEF OnEventString, TypeOK
  <2>2. forwarding' \in Seq(Event \cup {"manual", "disabled"})
    <3>1. PICK msg \in Event : forwarding' = ToForward(msg)
      BY <1>1, <2>1 DEF OnEventString
    <3>2. PICK first \in {"STOP", "manual", "disabled"} :
            forwarding' = <<first, msg>> \/ forwarding' = <<msg>>
      BY <3>1, Zenon DEF ToForward
    <3>3. first \in Event \cup {"manual", "disabled"}
      BY KindTypes
    <3>4. msg \in Event \cup {"manual", "disabled"}
      OBVIOUS
    <3>5. \A S : \A a, b \in S : <<a, b>> \in Seq(S) /\ <<b>> \in Seq(S)
      OBVIOUS
    <3> QED BY <3>2, <3>3, <3>4, <3>5, Zenon
  <2> QED BY <1>1, <2>1, <2>2
        DEF OnEventString, TypeOK, fsm, primitive, flags, data, vehicle, operator, parser
<1>2. CASE Forward
  <2>1. /\ forwarding \in Seq(Event \cup {"manual", "disabled"}) /\ forwarding # <<>>
        /\ forwarding' = Tail(forwarding)
    BY <1>2 DEF Forward, TypeOK
  <2>2. /\ forwarding' \in Seq(Event \cup {"manual", "disabled"})
        /\ Head(forwarding) \in Event \cup {"manual", "disabled"}
    BY <2>1
  <2>3. events' \in Seq(Event) /\ velcon' \in {"disabled", "manual", "velcon"}
    BY <1>2, <2>2, RaiseType DEF Forward, TypeOK
  <2> QED BY <1>2, <2>2, <2>3
        DEF Forward, TypeOK, fsm, primitive, flags, data, operator, parser
<1>3. CASE ParserOnEventString
  <2>1. parser_inbox' \in Seq(Event)
    BY <1>3 DEF ParserOnEventString, TypeOK
  <2>2. doc' \in Missions \cup {NoMission} /\ parser_active' \in BOOLEAN
    BY <1>3 DEF ParserOnEventString, ResetParser, TypeOK, parser
  <2>3. pc' \in {pc, "crashed"} /\ UNCHANGED <<state, next>>
    BY <1>3 DEF ParserOnEventString, DocumentChanges, fsm
  <2> QED BY <1>3, <2>1, <2>2, <2>3
        DEF ParserOnEventString, TypeOK, primitive, flags, data, vehicle, operator
<1> QED BY <1>1, <1>2, <1>3

LEMMA TimeoutTypes ==
  ASSUME TypeOK, OnTimeout \/ TimeoutResets \/ TimeoutRaises
  PROVE  TypeOK'
<1>1. CASE OnTimeout
  BY <1>1 DEF OnTimeout, ResetSteps, TypeOK, fsm, topics, primitive, flags, data, vehicle,
              operator, parser
<1>2. CASE TimeoutResets
  <2>1. timeout_cb \in ResetSteps /\ EndReset(timeout_cb) /\ timeout_cb' = Following(timeout_cb)
    BY <1>2 DEF TimeoutResets
  <2>2. /\ missionActive' \in BOOLEAN /\ timeoutActive' \in BOOLEAN
        /\ checkEventFlag' \in BOOLEAN /\ timer' \in Int
        /\ timeout_cb' \in ResetSteps \cup {"done"}
    BY <2>1, EndResetType
  <2> QED BY <1>2, <2>2 DEF TimeoutResets, TypeOK, fsm, topics, primitive, data, vehicle,
                            operator, parser
<1>3. CASE TimeoutRaises
  BY <1>3, KindTypes, RaiseType
     DEF TimeoutRaises, TypeOK, fsm, topics, primitive, flags, data, vehicle, operator, parser
<1> QED BY <1>1, <1>2, <1>3

LEMMA DataEventTypes ==
  ASSUME TypeOK, OnDataEvent \/ StoreChosen \/ DataEventResets \/ DataEventRaises
  PROVE  TypeOK'
<1>1. CASE OnDataEvent
  <2>1. received.next \in Seq(Nat)
    <3>1. CASE received = NoPrimitive
      BY <3>1 DEF NoPrimitive
    <3>2. CASE received # NoPrimitive
      BY <3>2 DEF TypeOK
    <3> QED BY <3>1, <3>2
  <2>2. chosen' \in Nat
    BY <1>1, <2>1, ElementOfSeq DEF OnDataEvent
  <2>3. late' \in BOOLEAN
    BY <1>1, Zenon DEF OnDataEvent
  <2>4. pc' \in {pc, "torn"}
    BY <1>1 DEF OnDataEvent
  <2> QED BY <1>1, <2>2, <2>3, <2>4
        DEF OnDataEvent, TypeOK, topics, primitive, flags, vehicle, operator, parser
<1>2. CASE StoreChosen
  <2>1. nextPrimitive' \in Int
    BY <1>2 DEF StoreChosen, TypeOK
  <2> QED BY <1>2, <2>1 DEF StoreChosen, ResetSteps, TypeOK, fsm, topics, primitive, flags,
                            vehicle, operator, parser
<1>3. CASE DataEventResets
  <2>1. data_cb \in ResetSteps /\ EndReset(data_cb) /\ data_cb' = Following(data_cb)
    BY <1>3 DEF DataEventResets
  <2>2. /\ missionActive' \in BOOLEAN /\ timeoutActive' \in BOOLEAN
        /\ checkEventFlag' \in BOOLEAN /\ timer' \in Int
        /\ data_cb' \in ResetSteps \cup {"done"}
    BY <2>1, EndResetType
  <2> QED BY <1>3, <2>2 DEF DataEventResets, TypeOK, fsm, topics, primitive, vehicle,
                            operator, parser
<1>4. CASE DataEventRaises
  BY <1>4, KindTypes, RaiseType
     DEF DataEventRaises, TypeOK, fsm, topics, primitive, flags, vehicle, operator, parser
<1> QED BY <1>1, <1>2, <1>3, <1>4

LEMMA OtherTypes ==
  ASSUME TypeOK,
         \/ \E k \in Startable : PrimitiveDone(k) \/ Preempted(k)
         \/ \E mission \in Missions : LoadMission(mission)
         \/ \E k \in Ending : Succeeds(k)
         \/ SetupDone
         \/ \E msg \in Commands : Operator(msg)
  PROVE  TypeOK'
<1>1. ASSUME NEW k \in Startable, PrimitiveDone(k) PROVE TypeOK'
  <2>1. inbox' \in Seq(Event) /\ parser_inbox' \in Seq(Event) /\ forwarding' = forwarding
    BY <1>1, PublishType, KindTypes DEF PrimitiveDone
  <2> QED BY <1>1, <2>1 DEF PrimitiveDone, TypeOK, fsm, primitive, flags, data, operator, parser
<1>2. ASSUME NEW k \in Startable, Preempted(k) PROVE TypeOK'
  BY <1>2 DEF Preempted, TypeOK, fsm, topics, primitive, flags, data, operator, parser
<1>3. ASSUME NEW mission \in Missions, LoadMission(mission) PROVE TypeOK'
  <2>1. setup' \in BOOLEAN /\ parser_active' \in BOOLEAN
    BY <1>3, Zenon DEF LoadMission, ReceiveMission
  <2>2. pc' \in {pc, "crashed"} /\ UNCHANGED <<state, next>>
    BY <1>3 DEF LoadMission, DocumentChanges
  <2> QED BY <1>3, <2>1, <2>2, MaxCommandsAssumption
        DEF LoadMission, ReceiveMission, TypeOK, topics, primitive, flags, data, vehicle
<1>4. ASSUME NEW k \in Ending, Succeeds(k) PROVE TypeOK'
  BY <1>4, EndingAssumption
     DEF Succeeds, TypeOK, fsm, topics, primitive, flags, data, operator, parser
<1>5. CASE SetupDone
  <2>1. inbox' \in Seq(Event) /\ parser_inbox' \in Seq(Event) /\ forwarding' = forwarding
    BY <1>5, PublishType, KindTypes DEF SetupDone
  <2>2. setup' \in BOOLEAN
    BY <1>5, Zenon DEF SetupDone
  <2> QED BY <1>5, <2>1, <2>2 DEF SetupDone, TypeOK, fsm, primitive, flags, data, vehicle, parser
<1>6. ASSUME NEW msg \in Commands, Operator(msg) PROVE TypeOK'
  <2>1. inbox' \in Seq(Event) /\ parser_inbox' \in Seq(Event) /\ forwarding' = forwarding
    BY <1>6, PublishType, CommandsAssumption DEF Operator
  <2>2. stopped' \in BOOLEAN
    BY <1>6, Zenon DEF Operator
  <2> QED BY <1>6, <2>1, <2>2, MaxCommandsAssumption
        DEF Operator, TypeOK, fsm, primitive, flags, data, vehicle, parser
<1> QED BY <1>1, <1>2, <1>3, <1>4, <1>5, <1>6

LEMMA StepTypes == TypeOK /\ [Next]_vars => TypeOK'
<1> SUFFICES ASSUME TypeOK, [Next]_vars PROVE TypeOK'
  OBVIOUS
<1>1. CASE UNCHANGED vars
  BY <1>1 DEF vars, TypeOK, fsm, topics, primitive, flags, data, vehicle, operator, parser
<1>2. CASE MainThread
  BY <1>2, EntryTypes, RequestTypes, StateMachineTypes DEF MainThread
<1>3. CASE Callbacks
  BY <1>3, MessageTypes, TimeoutTypes, DataEventTypes, OtherTypes DEF Callbacks
<1>4. CASE Others
  BY <1>4, OtherTypes DEF Others
<1> QED BY <1>1, <1>2, <1>3, <1>4 DEF Next

(***************************************************************************)
(* The state of the node keeps its types, whatever missions and commands   *)
(* arrive.                                                                 *)
(***************************************************************************)
THEOREM MissionTyping == Spec => []TypeOK
BY InitTypes, StepTypes, PTL DEF Spec

-----------------------------------------------------------------------------
(* The callbacks and the other nodes leave the state machine alone, or the *)
(* node is lost by them.                                                   *)
LEMMA FsmUntouched ==
  ASSUME Callbacks \/ Others
  PROVE  /\ UNCHANGED <<state, next>>
         /\ pc' = pc \/ (pc = "parse" /\ pc' = "torn") \/ pc' = "crashed"
<1>1. CASE OnEventString \/ Forward \/ ParserOnEventString
  BY <1>1 DEF OnEventString, Forward, ParserOnEventString, DocumentChanges, fsm
<1>2. CASE OnTimeout \/ TimeoutResets \/ TimeoutRaises
  BY <1>2 DEF OnTimeout, TimeoutResets, TimeoutRaises, fsm
<1>3. CASE OnDataEvent \/ StoreChosen \/ DataEventResets \/ DataEventRaises
  BY <1>3 DEF OnDataEvent, StoreChosen, DataEventResets, DataEventRaises, fsm
<1>4. CASE \/ \E k \in Startable : PrimitiveDone(k)
           \/ \E mission \in Missions : LoadMission(mission)
  BY <1>4 DEF PrimitiveDone, LoadMission, DocumentChanges, fsm
<1>5. CASE Others
  BY <1>5 DEF Others, Preempted, Succeeds, SetupDone, Operator, fsm
<1> QED BY <1>1, <1>2, <1>3, <1>4, <1>5 DEF Callbacks

LEMMA ArrowEvents ==
  ASSUME NEW s, NEW e, NEW to, <<s, e, to>> \in Arrows
  PROVE  e \in Event
BY DEF Arrows, WaitArrows, DispatcherArrows, PauseArrows, PrimitiveArrows, Goto, Event, Kinds

LEMMA PhasesStep == PhasesKnown /\ [Next]_vars => PhasesKnown'
<1> SUFFICES ASSUME PhasesKnown, [Next]_vars PROVE PhasesKnown'
  OBVIOUS
<1>1. CASE UNCHANGED fsm
  BY <1>1 DEF PhasesKnown, fsm
<1>2. CASE ResetOnEntry
  BY <1>2 DEF ResetOnEntry, Following, ResetSteps, PhasesKnown
<1>3. CASE EnterWait \/ EnterPause \/ EnterDispatcher
  BY <1>3 DEF EnterWait, EnterPause, EnterDispatcher, ResetSteps, PhasesKnown
<1>4. CASE TakeNumber \/ ParsePrimitive \/ ParseNothing \/ SetEventFlag \/ CallPrimitive
  BY <1>4 DEF TakeNumber, ParsePrimitive, ParseNothing, SetEventFlag, CallPrimitive,
              ResetSteps, PhasesKnown
<1>5. CASE EnterPrimitive
  BY <1>5 DEF EnterPrimitive, ResetSteps, PhasesKnown
<1>6. CASE TimeoutSet \/ StartPrimitive \/ EnterIdlePrimitive
  BY <1>6 DEF TimeoutSet, StartPrimitive, EnterIdlePrimitive, ResetSteps, PhasesKnown
<1>7. CASE TakeEvent
  <2>1. CASE UNCHANGED pc
    BY <1>7, <2>1 DEF TakeEvent, ResetSteps, PhasesKnown
  <2>2. CASE pc' = "exit"
    <3>1. state' = state /\ <<state, Head(events), next'>> \in Arrows
      BY <1>7, <2>2 DEF TakeEvent
    <3> QED BY <2>2, <3>1, ArrowEvents DEF ResetSteps, PhasesKnown
  <2> QED BY <1>7, <2>1, <2>2 DEF TakeEvent
<1>8. CASE ExitState
  BY <1>8 DEF ExitState, ResetSteps, PhasesKnown
<1>9. CASE Callbacks \/ Others
  <2>1. CASE pc' = pc
    BY <1>1, <1>9, <2>1, FsmUntouched DEF fsm
  <2>2. CASE pc' \in {"torn", "crashed"}
    BY <2>2 DEF ResetSteps, PhasesKnown
  <2> QED BY <1>9, <2>1, <2>2, FsmUntouched
<1>10. CASE UNCHANGED vars
  BY <1>1, <1>10 DEF vars
<1> QED BY <1>2, <1>3, <1>4, <1>5, <1>6, <1>7, <1>8, <1>9, <1>10 DEF Next, MainThread

-----------------------------------------------------------------------------
(* The vehicle.                                                            *)

(* Nothing is started by a step that leaves the goals and the velocity     *)
(* controllers alone and does not leave a state in which they may run.     *)
LEMMA StaysQuiet ==
  ASSUME QuietOutsidePrimitive, Alive, UNCHANGED goal, velcon' = "velcon" => velcon = "velcon",
         Alive' /\ pc \in {"wait", "exit"} => state' = state /\ pc' \in {"wait", "exit"}
  PROVE  QuietOutsidePrimitive'
BY DEF QuietOutsidePrimitive

(* A step of the callbacks and the other nodes.                            *)
LEMMA CallbacksStayQuiet ==
  ASSUME QuietOutsidePrimitive, Alive, Callbacks \/ Others,
         UNCHANGED goal, velcon' = "velcon" => velcon = "velcon"
  PROVE  QuietOutsidePrimitive'
BY FsmUntouched, StaysQuiet DEF Alive

(* Nobody gets a lost node running again.                                  *)
LEMMA LostForGood == [Next]_vars /\ ~Alive => pc' = pc
<1> SUFFICES ASSUME [Next]_vars, pc \in {"crashed", "torn"} PROVE pc' = pc
  BY DEF Alive
<1>1. ~Callbacks
  BY DEF Alive, CanCall, Callbacks, OnEventString, Forward, ParserOnEventString, OnTimeout,
         TimeoutResets, TimeoutRaises, OnDataEvent, StoreChosen, DataEventResets,
         DataEventRaises, PrimitiveDone, LoadMission
<1>2. ~MainThread
  <2>1. pc \notin ResetSteps
    BY DEF ResetSteps
  <2>2. ~ResetOnEntry /\ ~EnterWait /\ ~EnterPause /\ ~EnterDispatcher
    BY <2>1 DEF ResetOnEntry, EnterWait, EnterPause, EnterDispatcher
  <2>3. ~TakeNumber /\ ~ParsePrimitive /\ ~ParseNothing /\ ~SetEventFlag /\ ~CallPrimitive
    BY DEF TakeNumber, ParsePrimitive, ParseNothing, SetEventFlag, CallPrimitive
  <2>4. ~EnterPrimitive /\ ~TimeoutSet /\ ~StartPrimitive /\ ~EnterIdlePrimitive
    BY DEF EnterPrimitive, TimeoutSet, StartPrimitive, EnterIdlePrimitive
  <2>5. ~TakeEvent /\ ~ExitState
    BY DEF TakeEvent, ExitState
  <2> QED BY <2>2, <2>3, <2>4, <2>5 DEF MainThread
<1>3. Others => pc' = pc
  BY DEF Others, Preempted, Succeeds, SetupDone, Operator, fsm
<1> QED BY <1>1, <1>2, <1>3 DEF Next, vars, fsm

LEMMA QuietStep == TypeOK /\ PhasesKnown /\ QuietOutsidePrimitive /\ [Next]_vars
                     => QuietOutsidePrimitive'
<1> SUFFICES ASSUME TypeOK, PhasesKnown, QuietOutsidePrimitive, [Next]_vars, Alive
             PROVE  QuietOutsidePrimitive'
  BY LostForGood DEF QuietOutsidePrimitive, Alive
<1>1. CASE ResetOnEntry \/ EnterWait \/ EnterPause \/ EnterDispatcher \/ EnterIdlePrimitive
  BY <1>1, StaysQuiet DEF ResetOnEntry, EnterWait, EnterPause, EnterDispatcher,
                          EnterIdlePrimitive, ResetSteps, vehicle
<1>2. CASE TakeNumber \/ ParsePrimitive \/ ParseNothing \/ SetEventFlag \/ CallPrimitive
  BY <1>2, StaysQuiet DEF TakeNumber, ParsePrimitive, ParseNothing, SetEventFlag,
                          CallPrimitive, vehicle
<1>3. CASE EnterPrimitive \/ TimeoutSet
  BY <1>3, StaysQuiet DEF EnterPrimitive, TimeoutSet, vehicle
<1>4. CASE StartPrimitive
  <2>1. state \in Startable /\ \A k \in Startable : goal[k] # "active"
    BY <1>4 DEF StartPrimitive, PhasesKnown, QuietOutsidePrimitive
  <2>2. /\ goal' = [goal EXCEPT ![state] = "active"]
        /\ goal \in [Startable -> {"none", "active", "cancelling"}]
        /\ state' = state /\ pc' = "wait"
    BY <1>4 DEF StartPrimitive, TypeOK
  <2> QED BY <2>1, <2>2 DEF QuietOutsidePrimitive
<1>5. CASE TakeEvent
  <2>1. UNCHANGED vehicle /\ state' = state /\ pc' \in {"wait", "exit"}
    BY <1>5 DEF TakeEvent
  <2> QED BY <2>1, StaysQuiet DEF vehicle
<1>6. CASE ExitState
  <2>1. \A k \in Startable : goal'[k] # "active"
    BY <1>6 DEF ExitState, Stopped, QuietOutsidePrimitive
  <2>2. velcon' # "velcon"
    BY <1>6 DEF ExitState, Stoppable, QuietOutsidePrimitive
  <2> QED BY <2>1, <2>2 DEF QuietOutsidePrimitive
<1>7. CASE OnEventString \/ ParserOnEventString
  BY <1>7, CallbacksStayQuiet DEF OnEventString, ParserOnEventString, vehicle, Callbacks
<1>8. CASE Forward
  <2>1. UNCHANGED goal /\ (velcon' = "velcon" => velcon = "velcon")
    BY <1>8 DEF Forward
  <2> QED BY <1>8, <2>1, CallbacksStayQuiet DEF Callbacks
<1>9. CASE \/ OnTimeout \/ TimeoutResets \/ TimeoutRaises
           \/ OnDataEvent \/ StoreChosen \/ DataEventResets \/ DataEventRaises
  <2>1. UNCHANGED vehicle
    BY <1>9 DEF OnTimeout, TimeoutResets, TimeoutRaises, OnDataEvent, StoreChosen,
                DataEventResets, DataEventRaises
  <2> QED BY <1>9, <2>1, CallbacksStayQuiet DEF Callbacks, vehicle
<1>10. CASE \/ \E k \in Startable : PrimitiveDone(k)
            \/ \E mission \in Missions : LoadMission(mission)
  <2>1. UNCHANGED <<goal, velcon>>
    BY <1>10 DEF PrimitiveDone, LoadMission, vehicle
  <2> QED BY <1>10, <2>1, CallbacksStayQuiet DEF Callbacks
<1>11. ASSUME NEW k \in Startable, Preempted(k) \/ Succeeds(k) PROVE QuietOutsidePrimitive'
  <2>1. /\ goal' = [goal EXCEPT ![k] = "none"]
        /\ goal \in [Startable -> {"none", "active", "cancelling"}]
        /\ UNCHANGED <<fsm, velcon>>
    BY <1>11 DEF Preempted, Succeeds, TypeOK
  <2> QED BY <2>1 DEF QuietOutsidePrimitive, Alive, fsm
<1>12. CASE SetupDone \/ \E msg \in Commands : Operator(msg)
  <2>1. UNCHANGED vehicle
    BY <1>12 DEF SetupDone, Operator
  <2> QED BY <1>12, <2>1, CallbacksStayQuiet DEF Others, vehicle
<1>13. CASE UNCHANGED vars
  BY <1>13, StaysQuiet DEF vars, vehicle, fsm
<1> QED BY <1>1, <1>2, <1>3, <1>4, <1>5, <1>6, <1>7, <1>8, <1>9, <1>10, <1>11, <1>12, <1>13,
           EndingAssumption DEF Next, MainThread, Callbacks, Others

(***************************************************************************)
(* No primitive outlives its FSM state: outside of it no goal is active    *)
(* that is not being cancelled, and the velocity controllers do not follow *)
(* references, for any missions and any order of commands and callbacks,   *)
(* unless the node is lost.                                                *)
(***************************************************************************)
THEOREM MissionQuiet == Spec => []QuietOutsidePrimitive
<1>1. Init => PhasesKnown /\ QuietOutsidePrimitive
  BY DEF Init, PhasesKnown, QuietOutsidePrimitive
<1> QED BY <1>1, InitTypes, StepTypes, PhasesStep, QuietStep, PTL DEF Spec

-----------------------------------------------------------------------------
(* Missions that lead forward.                                             *)

(* The events of a mission lead to later primitives only.                  *)
EventsLeadForward ==
  \A mission \in Missions \ {NoMission} :
    \A k \in DOMAIN mission : \A i \in DOMAIN mission[k].next : mission[k].next[i] > k

(* NeverBackwards, in every phase: a primitive is left, and a pause is     *)
(* entered, with the number of a later primitive, so that the pause can    *)
(* take one away; the number that a data event is about to store is one of *)
(* a later primitive, too, unless the event comes late.                    *)
EventsAhead == \A i \in DOMAIN received.next : received.next[i] > request
MustBeAhead ==
  \/ state \in Primitives
  \/ state = "Dispatcher_state" /\ pc \in {"parse", "flag", "answer", "wait", "exit"}
  \/ state = "Pause_state" /\ pc \in ResetSteps \cup {"done"}
MustNotBeBehind == state = "Pause_state" /\ pc \in {"wait", "exit"}
GoesForward ==
  Alive /\ ~late =>
    /\ pc # "parse" => EventsAhead
    /\ data_cb = "store" => chosen > request
    /\ MustBeAhead => nextPrimitive > request
    /\ MustNotBeBehind => nextPrimitive >= request

LEMMA ForwardKept ==
  ASSUME GoesForward, UNCHANGED <<received, request, nextPrimitive, late>>,
         Alive' => Alive /\ (pc = "parse" => pc' = "parse"),
         data_cb' = "store" => data_cb = "store" /\ chosen' = chosen,
         Alive' /\ MustBeAhead' => MustBeAhead,
         Alive' /\ MustNotBeBehind' => MustNotBeBehind
  PROVE  GoesForward'
<1> SUFFICES ASSUME Alive', ~late'
             PROVE  /\ pc' # "parse" => EventsAhead'
                    /\ data_cb' = "store" => chosen' > request'
                    /\ MustBeAhead' => nextPrimitive' > request'
                    /\ MustNotBeBehind' => nextPrimitive' >= request'
  BY DEF GoesForward
<1> QED BY DEF GoesForward, EventsAhead

(* The names of the states are different.                                  *)
LEMMA StateNames ==
  /\ "Wait_state" \notin Primitives /\ "Dispatcher_state" \notin Primitives
  /\ "Pause_state" \notin Primitives /\ Startable \subseteq Primitives
  /\ {"follow", "placeholder"} \subseteq Primitives
BY DEF Primitives, Stoppable, Startable

LEMMA RequestForward ==
  ASSUME EventsLeadForward, TypeOK, GoesForward,
         TakeNumber \/ ParsePrimitive
  PROVE  GoesForward'
<1>1. CASE TakeNumber
  <2>1. /\ request' = nextPrimitive /\ nextPrimitive' = nextPrimitive + 1
        /\ state' = "Dispatcher_state" /\ pc' = "parse" /\ data_cb' = data_cb
        /\ nextPrimitive \in Int
    BY <1>1 DEF TakeNumber, TypeOK, data
  <2>2. ~late' => data_cb # "store"
    BY <1>1, Zenon DEF TakeNumber
  <2>3. ~MustNotBeBehind' /\ nextPrimitive' > request'
    BY <2>1 DEF MustNotBeBehind
  <2> QED BY <2>1, <2>2, <2>3 DEF GoesForward
<1>2. CASE ParsePrimitive
  <2>1. /\ pc = "parse" /\ pc' = "flag" /\ received' = Requested(request)
        /\ UNCHANGED <<state, request, nextPrimitive, data_cb, chosen, late>>
    BY <1>2 DEF ParsePrimitive, data
  <2>2. EventsAhead'
    <3>1. CASE CanParse /\ request \in DOMAIN doc
      <4>1. doc \in Missions \ {NoMission}
        BY <3>1 DEF CanParse, TypeOK
      <4> QED BY <2>1, <3>1, <4>1 DEF EventsLeadForward, EventsAhead, Requested
    <3>2. CASE ~(CanParse /\ request \in DOMAIN doc)
      BY <2>1, <3>2 DEF EventsAhead, Requested, NoPrimitive
    <3> QED BY <3>1, <3>2
  <2>3. MustBeAhead' => MustBeAhead
    BY <2>1 DEF MustBeAhead, ResetSteps
  <2>4. ~MustNotBeBehind'
    BY <2>1 DEF MustNotBeBehind
  <2>5. Alive
    BY <2>1 DEF Alive
  <2> QED BY <2>1, <2>2, <2>3, <2>4, <2>5 DEF GoesForward
<1> QED BY <1>1, <1>2

(* A step of the state machine that leaves the numbers alone.              *)
LEMMA PhaseForward ==
  ASSUME GoesForward, Alive, UNCHANGED <<primitive, nextPrimitive, data, late>>,
         pc # "parse" \/ pc' = "crashed",
         Alive' /\ MustBeAhead' => MustBeAhead,
         Alive' /\ MustNotBeBehind' => MustNotBeBehind
  PROVE  GoesForward'
<1>1. pc = "parse" => ~Alive'
  BY DEF Alive
<1> QED BY <1>1, ForwardKept DEF primitive, data

LEMMA PauseForward ==
  ASSUME TypeOK, GoesForward, EnterPause
  PROVE  GoesForward'
<1>1. /\ state = "Pause_state" /\ pc = "done" /\ state' = state /\ pc' = "wait"
      /\ nextPrimitive' = nextPrimitive - 1
      /\ UNCHANGED <<received, request, data_cb, chosen, late>>
      /\ nextPrimitive \in Int /\ request \in Int
  BY DEF EnterPause, TypeOK, primitive, data
<1>2. MustBeAhead /\ ~MustBeAhead' /\ Alive
  BY <1>1, StateNames DEF MustBeAhead, ResetSteps, Alive
<1>3. EventsAhead' = EventsAhead
  BY <1>1 DEF EventsAhead
<1> QED BY <1>1, <1>2, <1>3 DEF GoesForward

(* An arrow to a primitive starts in the dispatcher, one to the pause in a *)
(* primitive.                                                              *)
LEMMA ArrowSources ==
  ASSUME NEW s, NEW e, NEW to, <<s, e, to>> \in Arrows
  PROVE  /\ to \in Primitives => s = "Dispatcher_state"
         /\ to = "Pause_state" => s \in Primitives
BY DEF Arrows, WaitArrows, DispatcherArrows, PauseArrows, PrimitiveArrows, Goto, Primitives,
       Stoppable, Startable, NoCode

LEMMA ExitForward ==
  ASSUME PhasesKnown, GoesForward, ExitState
  PROVE  GoesForward'
<1>1. /\ pc = "exit" /\ state' = next
      /\ pc' = IF next \in {"Wait_state", "Pause_state"} THEN "stop" ELSE "enter"
      /\ UNCHANGED <<primitive, nextPrimitive, data, late>>
  BY DEF ExitState
<1>2. /\ next \in Primitives => state = "Dispatcher_state"
      /\ next = "Pause_state" => state \in Primitives
  BY <1>1, ArrowSources DEF PhasesKnown
<1>3. MustBeAhead' => next \in Primitives \/ next = "Pause_state"
  BY <1>1 DEF MustBeAhead
<1>4. MustBeAhead' => MustBeAhead
  BY <1>1, <1>2, <1>3 DEF MustBeAhead
<1>5. ~MustNotBeBehind'
  BY <1>1 DEF MustNotBeBehind
<1>6. Alive
  BY <1>1 DEF Alive
<1> QED BY <1>1, <1>4, <1>5, <1>6, PhaseForward

(* A data event is read, and its number stored.                            *)
LEMMA DataEventForward ==
  ASSUME TypeOK, GoesForward, OnDataEvent \/ StoreChosen
  PROVE  GoesForward'
<1>1. CASE OnDataEvent
  <2>1. /\ Alive /\ \E i \in DOMAIN received.next : chosen' = received.next[i]
        /\ UNCHANGED <<state, received, request, nextPrimitive>>
        /\ (pc # "parse" => pc' = pc)
    BY <1>1 DEF OnDataEvent, CanCall, primitive
  <2>2. (late \/ pc = "parse") => late'
    BY <1>1, Zenon DEF OnDataEvent
  <2>3. CASE pc = "parse"
    BY <2>2, <2>3 DEF GoesForward
  <2>4. CASE pc # "parse" /\ ~late
    <3>1. EventsAhead /\ pc' = pc
      BY <2>1, <2>4 DEF GoesForward
    <3>2. chosen' > request' /\ EventsAhead'
      BY <2>1, <3>1 DEF EventsAhead
    <3>3. MustBeAhead' = MustBeAhead /\ MustNotBeBehind' = MustNotBeBehind
      BY <2>1, <3>1 DEF MustBeAhead, MustNotBeBehind
    <3> QED BY <2>1, <2>4, <3>2, <3>3 DEF GoesForward
  <2>5. CASE late
    BY <2>2, <2>5 DEF GoesForward
  <2> QED BY <2>3, <2>4, <2>5
<1>2. CASE StoreChosen
  <2>1. /\ Alive /\ data_cb = "store" /\ data_cb' = "stop"
        /\ nextPrimitive' \in {chosen, nextPrimitive}
        /\ UNCHANGED <<state, pc, received, request, late>>
        /\ chosen \in Int /\ request \in Int /\ nextPrimitive \in Int
    BY <1>2 DEF StoreChosen, TypeOK, primitive, fsm
  <2>2. /\ MustBeAhead' = MustBeAhead /\ MustNotBeBehind' = MustNotBeBehind
        /\ EventsAhead' = EventsAhead
    BY <2>1 DEF MustBeAhead, MustNotBeBehind, EventsAhead
  <2> QED BY <2>1, <2>2 DEF GoesForward, Alive
<1> QED BY <1>1, <1>2

LEMMA CallbacksForward ==
  ASSUME GoesForward, Callbacks \/ Others, UNCHANGED <<primitive, nextPrimitive, late>>,
         data_cb' = "store" => data_cb = "store" /\ chosen' = chosen
  PROVE  GoesForward'
<1>1. Alive' => pc' = pc /\ state' = state
  BY FsmUntouched DEF Alive
<1>2. Alive' => Alive
  BY <1>1 DEF Alive
<1>3. Alive' => MustBeAhead' = MustBeAhead /\ MustNotBeBehind' = MustNotBeBehind
  BY <1>1 DEF MustBeAhead, MustNotBeBehind
<1> QED BY <1>1, <1>2, <1>3, ForwardKept DEF primitive

LEMMA ForwardStep ==
  ASSUME EventsLeadForward, TypeOK, PhasesKnown, GoesForward, [Next]_vars
  PROVE  GoesForward'
<1> SUFFICES ASSUME Alive PROVE GoesForward'
  BY LostForGood DEF GoesForward, Alive
<1>1. CASE ResetOnEntry \/ EnterDispatcher \/ SetEventFlag \/ CallPrimitive
  <2>1. CASE ResetOnEntry
    <3>1. /\ state \in {"Wait_state", "Pause_state"} /\ pc \in ResetSteps /\ state' = state
          /\ pc' \in {"events", "timeouts", "active", "done"} /\ pc # "parse"
      BY <2>1 DEF ResetOnEntry, Following, ResetSteps
    <3>2. (MustBeAhead' => MustBeAhead) /\ ~MustNotBeBehind'
      BY <3>1 DEF MustBeAhead, MustNotBeBehind
    <3> QED BY <2>1, <3>1, <3>2, PhaseForward DEF ResetOnEntry
  <2>2. CASE EnterDispatcher
    <3>1. ~MustBeAhead' /\ ~MustNotBeBehind' /\ pc # "parse"
      BY <2>2, StateNames DEF EnterDispatcher, MustBeAhead, MustNotBeBehind, ResetSteps
    <3> QED BY <2>2, <3>1, PhaseForward DEF EnterDispatcher
  <2>3. CASE SetEventFlag \/ CallPrimitive
    <3>1. state = "Dispatcher_state" /\ state' = state
      BY <2>3 DEF SetEventFlag, CallPrimitive, PhasesKnown
    <3>2. MustBeAhead /\ ~MustNotBeBehind' /\ pc # "parse"
      BY <2>3, <3>1 DEF SetEventFlag, CallPrimitive, MustBeAhead, MustNotBeBehind
    <3> QED BY <2>3, <3>2, PhaseForward DEF SetEventFlag, CallPrimitive
  <2> QED BY <1>1, <2>1, <2>2, <2>3
<1>2. CASE EnterWait
  <2>1. ~MustBeAhead' /\ ~MustNotBeBehind' /\ pc # "parse" /\ pc' # "parse"
    BY <1>2, StateNames DEF EnterWait, MustBeAhead, MustNotBeBehind
  <2>2. UNCHANGED <<primitive, data, late>>
    BY <1>2 DEF EnterWait
  <2> QED BY <2>1, <2>2 DEF GoesForward, EventsAhead, primitive, data
<1>3. CASE EnterPause
  BY <1>3, PauseForward
<1>4. CASE TakeNumber \/ ParsePrimitive
  BY <1>4, RequestForward
<1>5. CASE ParseNothing
  BY <1>5 DEF ParseNothing, GoesForward, Alive
<1>6. CASE EnterPrimitive \/ TimeoutSet \/ StartPrimitive \/ EnterIdlePrimitive
  <2>1. /\ state \in Primitives /\ state' = state /\ pc # "parse"
        /\ UNCHANGED <<primitive, nextPrimitive, data, late>>
    BY <1>6, StateNames DEF EnterPrimitive, TimeoutSet, StartPrimitive, EnterIdlePrimitive,
                            PhasesKnown
  <2>2. MustBeAhead /\ ~MustNotBeBehind'
    BY <2>1, StateNames DEF MustBeAhead, MustNotBeBehind
  <2> QED BY <2>1, <2>2, PhaseForward
<1>7. CASE TakeEvent
  <2>1. /\ pc = "wait" /\ pc' \in {"wait", "exit"} /\ state' = state
        /\ UNCHANGED <<primitive, nextPrimitive, data, late>>
    BY <1>7 DEF TakeEvent
  <2>2. (MustBeAhead' => MustBeAhead) /\ (MustNotBeBehind' => MustNotBeBehind)
    BY <2>1 DEF MustBeAhead, MustNotBeBehind, ResetSteps
  <2> QED BY <2>1, <2>2, PhaseForward
<1>8. CASE ExitState
  BY <1>8, ExitForward
<1>9. CASE OnEventString \/ Forward \/ ParserOnEventString
  BY <1>9, CallbacksForward DEF OnEventString, Forward, ParserOnEventString, Callbacks, data
<1>10. CASE OnTimeout \/ TimeoutResets \/ TimeoutRaises
  BY <1>10, CallbacksForward DEF OnTimeout, TimeoutResets, TimeoutRaises, Callbacks, data
<1>11. CASE OnDataEvent \/ StoreChosen
  BY <1>11, DataEventForward
<1>12. CASE DataEventResets \/ DataEventRaises
  <2>1. data_cb' # "store"
    BY <1>12 DEF DataEventResets, DataEventRaises, Following, ResetSteps
  <2> QED BY <1>12, <2>1, CallbacksForward DEF DataEventResets, DataEventRaises, Callbacks
<1>13. CASE \/ \E k \in Startable : PrimitiveDone(k)
            \/ \E mission \in Missions : LoadMission(mission)
  <2>1. UNCHANGED <<primitive, nextPrimitive, data, late>>
    BY <1>13 DEF PrimitiveDone, LoadMission
  <2> QED BY <1>13, <2>1, CallbacksForward DEF Callbacks, data
<1>14. CASE Others
  <2>1. UNCHANGED <<primitive, nextPrimitive, data, late>>
    BY <1>14 DEF Others, Preempted, Succeeds, SetupDone, Operator
  <2> QED BY <1>14, <2>1, CallbacksForward DEF data
<1>15. CASE UNCHANGED vars
  BY <1>15, ForwardKept DEF vars, primitive, data, fsm, Alive, MustBeAhead, MustNotBeBehind
<1> QED BY <1>1, <1>2, <1>3, <1>4, <1>5, <1>6, <1>7, <1>8, <1>9, <1>10, <1>11, <1>12, <1>13,
           <1>14, <1>15 DEF Next, MainThread, Callbacks

(***************************************************************************)
(* A mission whose events lead forward never goes back, however pauses,    *)
(* data events, timeouts and results interleave with the statements of a   *)
(* request: from a primitive and from a pause the next request is for the  *)
(* same or a later primitive, unless a data event comes late, with the     *)
(* number of an earlier request.                                           *)
(***************************************************************************)
THEOREM MissionNeverBackwards ==
  ASSUME EventsLeadForward
  PROVE  Spec => []NeverBackwards
<1>1. Init => PhasesKnown /\ GoesForward
  BY StateNames
     DEF Init, PhasesKnown, GoesForward, EventsAhead, MustBeAhead, MustNotBeBehind, NoPrimitive
<1>2. TypeOK /\ PhasesKnown /\ GoesForward /\ [Next]_vars => GoesForward'
  BY ForwardStep
<1>3. TypeOK /\ GoesForward => NeverBackwards
  BY DEF GoesForward, NeverBackwards, MustBeAhead, MustNotBeBehind, Alive, TypeOK
<1> QED BY <1>1, <1>2, <1>3, InitTypes, StepTypes, PhasesStep, PTL DEF Spec

-----------------------------------------------------------------------------
(* Considerate operators.                                                  *)

(* An operator who sends missions that can be parsed, and neither starts   *)
(* nor names of primitives, which are the node's own.                      *)
Ordinary ==
  /\ NoMission \notin Missions
  /\ Commands \cap ({"START_DISPATCHER"} \cup Kinds) = {}

Mentions(q, es) == \E i \in DOMAIN q : q[i] \in es
Once(q, es) == \A i, j \in DOMAIN q : q[i] \in es /\ q[j] \in es => i = j

(***************************************************************************)
(* The one start of the mission passes from the data event manager through *)
(* the inbox and its callback to the queue of the state machine, which     *)
(* waits for it; from then on every request finds the mission loaded,      *)
(* until one finds no more primitives and its stop empties the parser:     *)
(* then the machine waits for that stop, and nothing can start it again.   *)
(* Every request that finds a primitive leaves one event, of the kind of   *)
(* receivedPrimitive, and the machine waits for it.                        *)
(***************************************************************************)
Start == {"START_DISPATCHER"}
Stop == {"STOP"}
Pending == \/ setup \/ Mentions(inbox, Start) \/ Mentions(forwarding, Start)
           \/ Mentions(events, Start)
Stopping == \/ Mentions(inbox, Stop) \/ Mentions(forwarding, Stop)
            \/ Mentions(parser_inbox, Stop) \/ Mentions(events, Stop)

OneStart ==
  /\ Once(inbox, Start) /\ Once(forwarding, Start) /\ Once(events, Start)
  /\ setup => ~Mentions(inbox, Start) /\ ~Mentions(forwarding, Start) /\ ~Mentions(events, Start)
  /\ ~(Mentions(inbox, Start) /\ Mentions(forwarding, Start))
  /\ ~(Mentions(inbox, Start) /\ Mentions(events, Start))
  /\ ~(Mentions(forwarding, Start) /\ Mentions(events, Start))

Before == issued = 0 \/ Pending
NotYet ==
  Before => /\ state = "Wait_state" /\ pc \in ResetSteps \cup {"done", "wait"}
            /\ ~missionActive /\ ~Stopping

Finished ==
  /\ ~Before
  /\ \/ state = "Wait_state" /\ pc # "exit"
     \/ state = "Dispatcher_state" /\ pc = "wait" /\ ~Mentions(events, Kinds)
     \/ state = "Dispatcher_state" /\ pc = "exit" /\ next = "Wait_state"
Loaded ==
  /\ Pending => doc # NoMission /\ issued > 0
  /\ Stopping \/ doc = NoMission => issued = 0 \/ Finished

OneKind ==
  /\ Mentions(events, Kinds) => state = "Dispatcher_state" /\ pc = "wait"
  /\ Once(events, Kinds)
  /\ ~Mentions(events, Kinds \ {received.kind})
  /\ ~Mentions(inbox, Kinds) /\ ~Mentions(forwarding, Kinds)
KindFits ==
  /\ state = "Dispatcher_state" /\ pc = "exit" /\ next \in Primitives => received.kind = next
  /\ state \in Primitives => received.kind = state

NoneLost == OneStart /\ NotYet /\ Loaded /\ OneKind /\ KindFits /\ pc # "crashed"

(* Queues.                                                                 *)
LEMMA AppendMentions ==
  ASSUME NEW S, NEW q \in Seq(S), NEW x \in S, NEW es
  PROVE  /\ Mentions(Append(q, x), es) <=> Mentions(q, es) \/ x \in es
         /\ Once(q, es) /\ ~(Mentions(q, es) /\ x \in es) => Once(Append(q, x), es)
<1>1. PICK n \in Nat : n = Len(q)
  OBVIOUS
<1>2. /\ DOMAIN q = 1 .. n /\ DOMAIN Append(q, x) = 1 .. n + 1
      /\ \A i \in 1 .. n : Append(q, x)[i] = q[i]
      /\ Append(q, x)[n + 1] = x
  BY <1>1
<1>3. \A i \in 1 .. n + 1 : i = n + 1 \/ i \in 1 .. n
  BY <1>1
<1>4. n + 1 \in 1 .. n + 1 /\ \A i \in 1 .. n : i \in 1 .. n + 1
  BY <1>1
<1>5. Mentions(Append(q, x), es) <=> Mentions(q, es) \/ x \in es
  BY <1>2, <1>3, <1>4 DEF Mentions
<1>6. ASSUME Once(q, es), ~(Mentions(q, es) /\ x \in es) PROVE Once(Append(q, x), es)
  BY <1>2, <1>3, <1>6 DEF Mentions, Once
<1> QED BY <1>5, <1>6

LEMMA TailMentions ==
  ASSUME NEW S, NEW q \in Seq(S), q # <<>>, NEW es
  PROVE  /\ Mentions(q, es) <=> Head(q) \in es \/ Mentions(Tail(q), es)
         /\ Once(q, es) => Once(Tail(q), es)
         /\ Once(q, es) /\ Head(q) \in es => ~Mentions(Tail(q), es)
<1>1. PICK n \in Nat \ {0} : n = Len(q)
  OBVIOUS
<1>2. /\ DOMAIN q = 1 .. n /\ DOMAIN Tail(q) = 1 .. n - 1
      /\ \A i \in 1 .. n - 1 : Tail(q)[i] = q[i + 1]
      /\ Head(q) = q[1]
  BY <1>1
<1>3. \A i \in 1 .. n - 1 : i + 1 \in 1 .. n /\ i + 1 # 1
  BY <1>1
<1>4. \A i \in 1 .. n : i = 1 \/ \E j \in 1 .. n - 1 : i = j + 1
  <2> SUFFICES ASSUME NEW i \in 1 .. n, i # 1 PROVE \E j \in 1 .. n - 1 : i = j + 1
    OBVIOUS
  <2>1. i - 1 \in 1 .. n - 1 /\ i = (i - 1) + 1
    BY <1>1
  <2> QED BY <2>1
<1>5. 1 \in 1 .. n
  BY <1>1
<1>6. Mentions(q, es) <=> Head(q) \in es \/ Mentions(Tail(q), es)
  BY <1>2, <1>3, <1>4, <1>5 DEF Mentions
<1>7. ASSUME Once(q, es) PROVE Once(Tail(q), es)
  <2>1. \A i, j \in 1 .. n - 1 : i + 1 = j + 1 => i = j
    OBVIOUS
  <2> QED BY <1>2, <1>3, <1>7, <2>1 DEF Once
<1>8. ASSUME Once(q, es), Head(q) \in es PROVE ~Mentions(Tail(q), es)
  BY <1>2, <1>3, <1>5, <1>8 DEF Mentions, Once
<1> QED BY <1>6, <1>7, <1>8

LEMMA EnqueueMentions ==
  ASSUME NEW S, NEW q \in Seq(S), NEW x \in S, NEW size \in Nat \ {0}, NEW es
  PROVE  /\ Mentions(Enqueue(q, x, size), es) => Mentions(q, es) \/ x \in es
         /\ Once(q, es) /\ ~(Mentions(q, es) /\ x \in es) => Once(Enqueue(q, x, size), es)
<1>1. CASE Len(q) < size
  BY <1>1, AppendMentions DEF Enqueue
<1>2. CASE ~(Len(q) < size)
  <2>1. q # <<>> /\ Tail(q) \in Seq(S)
    BY <1>2
  <2> QED BY <1>2, <2>1, TailMentions, AppendMentions DEF Enqueue
<1> QED BY <1>1, <1>2

(* The events of the node itself are no kinds.                             *)
LEMMA EventNames ==
  /\ "START_DISPATCHER" \notin Kinds /\ "STOP" \notin Kinds
  /\ "PRIMITIVE_FINISHED" \notin Kinds /\ "TIMEOUT" \notin Kinds
  /\ "Wait_state" \notin Primitives /\ "Dispatcher_state" \notin Primitives
  /\ "Pause_state" \notin Primitives /\ Startable \subseteq Primitives
  /\ Primitives \subseteq Kinds
  /\ "Wait_state" # "Dispatcher_state"
BY DEF Kinds, Primitives, Stoppable, Startable, NoCode

(* What is published reaches both inboxes, or pushes older messages out.   *)
LEMMA PublishMentions ==
  ASSUME TypeOK, NEW msg \in Event, Publish(msg), NEW es
  PROVE  /\ Mentions(inbox', es) => Mentions(inbox, es) \/ msg \in es
         /\ Mentions(parser_inbox', es) => Mentions(parser_inbox, es) \/ msg \in es
         /\ Once(inbox, es) /\ ~(Mentions(inbox, es) /\ msg \in es) => Once(inbox', es)
         /\ forwarding' = forwarding
<1>1. InboxSize \in Nat \ {0} /\ ParserInboxSize \in Nat \ {0}
  BY DEF InboxSize, ParserInboxSize
<1>2. /\ inbox \in Seq(Event) /\ parser_inbox \in Seq(Event)
      /\ inbox' = Enqueue(inbox, msg, InboxSize)
      /\ parser_inbox' = Enqueue(parser_inbox, msg, ParserInboxSize)
      /\ forwarding' = forwarding
  BY DEF TypeOK, Publish
<1> QED BY <1>1, <1>2, EnqueueMentions

(* A new event that is neither a start, a stop nor a kind changes nothing. *)
LEMMA RaiseMentions ==
  ASSUME TypeOK, NEW e \in Event, Raise(e), NEW es
  PROVE  /\ Mentions(events', es) <=> Mentions(events, es) \/ e \in es
         /\ Once(events, es) /\ ~(Mentions(events, es) /\ e \in es) => Once(events', es)
<1>1. events \in Seq(Event) /\ events' = Append(events, e)
  BY DEF TypeOK, Raise
<1> QED BY <1>1, AppendMentions

(* What the callback of a message has to forward.                          *)
LEMMA ToForwardMentions ==
  ASSUME NEW msg \in Event, ~(msg = "START_DISPATCHER" /\ missionActive),
         NEW es, es \cap {"manual", "disabled"} = {}
  PROVE  /\ Mentions(ToForward(msg), es) <=> msg \in es
         /\ Once(ToForward(msg), es)
<1>1. PICK first \in {"manual", "disabled"} :
        ToForward(msg) = <<first, msg>> \/ ToForward(msg) = <<msg>>
  BY Zenon DEF ToForward
<1>2. first \notin es
  OBVIOUS
<1>3. CASE ToForward(msg) = <<msg>>
  <2>1. /\ DOMAIN ToForward(msg) = {1} /\ ToForward(msg)[1] = msg
    BY <1>3
  <2> QED BY <2>1, Zenon DEF Mentions, Once
<1>4. CASE ToForward(msg) = <<first, msg>>
  <2>1. /\ DOMAIN ToForward(msg) = {1, 2}
        /\ ToForward(msg)[1] = first /\ ToForward(msg)[2] = msg
    BY <1>4
  <2> QED BY <1>2, <2>1, Zenon DEF Mentions, Once
<1> QED BY <1>1, <1>3, <1>4

LEMMA NotManual ==
  Start \cap {"manual", "disabled"} = {} /\ Stop \cap {"manual", "disabled"} = {}
    /\ Kinds \cap {"manual", "disabled"} = {}
BY DEF Start, Stop, Kinds, Primitives, Stoppable, Startable, NoCode

(* The queues and what the argument knows of the parser and the operator.  *)
quiet == <<inbox, forwarding, parser_inbox, setup, issued, doc>>

(* Steps of the main thread that leave the queues alone.                   *)
LEMMA PhaseStep ==
  ASSUME NoneLost, UNCHANGED quiet, UNCHANGED <<events, state>>,
         pc \notin {"wait", "exit"}, pc' \notin {"exit", "crashed"},
         received' = received \/ (state = "Dispatcher_state" /\ pc' # "exit"),
         missionActive' => missionActive \/ state = "Dispatcher_state",
         state = "Wait_state" => pc' \in ResetSteps \cup {"done", "wait"}
  PROVE  NoneLost'
<1>1. /\ Pending' = Pending /\ Stopping' = Stopping /\ Before' = Before
      /\ ~Mentions(events, Kinds)
  BY DEF Pending, Stopping, Before, quiet, NoneLost, OneKind
<1>2. OneStart'
  BY DEF OneStart, NoneLost, quiet
<1>3. OneKind'
  BY <1>1 DEF OneKind, Mentions, Once, NoneLost, quiet
<1>4. KindFits'
  BY EventNames DEF NoneLost, KindFits
<1>5. NotYet'
  BY <1>1 DEF NoneLost, NotYet
<1>6. Finished => Finished'
  BY <1>1 DEF Finished
<1>7. Loaded'
  BY <1>1, <1>6 DEF NoneLost, Loaded, quiet
<1> QED BY <1>2, <1>3, <1>4, <1>5, <1>7 DEF NoneLost

(* Steps of the callbacks and the other nodes that leave the queues alone. *)
LEMMA OtherStep ==
  ASSUME NoneLost, UNCHANGED quiet, UNCHANGED <<state, next, events, received>>,
         pc' = pc \/ (pc = "parse" /\ pc' = "torn"),
         missionActive' => missionActive
  PROVE  NoneLost'
<1>1. /\ Pending' = Pending /\ Stopping' = Stopping /\ Before' = Before
      /\ Finished' = Finished
  BY DEF Pending, Stopping, Before, quiet, Finished
<1>2. OneStart' /\ OneKind' /\ KindFits' /\ pc' # "crashed"
  BY DEF OneStart, OneKind, KindFits, NoneLost, quiet
<1>3. NotYet' /\ Loaded'
  BY <1>1 DEF NoneLost, NotYet, Loaded, ResetSteps, quiet
<1> QED BY <1>2, <1>3 DEF NoneLost

(* A request finds the mission loaded.                                     *)
LEMMA RequestFinds ==
  ASSUME NoneLost, state = "Dispatcher_state", pc \notin {"wait", "exit"}
  PROVE  /\ ~Before /\ ~Pending /\ ~Stopping /\ issued # 0 /\ CanParse
         /\ ~Mentions(events, Kinds)
<1>1. ~Before /\ ~Finished /\ issued # 0
  BY DEF NoneLost, NotYet, Finished, Before
<1> QED BY <1>1 DEF NoneLost, Loaded, Before, OneKind, CanParse

LEMMA CallKeeps ==
  ASSUME TypeOK, PhasesKnown, NoneLost, CallPrimitive
  PROVE  NoneLost'
<1>1. /\ ~Before /\ ~Pending /\ ~Stopping /\ issued # 0 /\ doc # NoMission
      /\ ~Mentions(events, Kinds) /\ state = "Dispatcher_state"
  BY RequestFinds DEF CallPrimitive, PhasesKnown, CanParse
<1>2. /\ UNCHANGED <<state, next, setup, issued, doc, received, missionActive>> /\ pc' = "wait"
  BY DEF CallPrimitive, primitive, flags, operator, parser
<1>3. KindFits' /\ pc' # "crashed"
  BY <1>1, <1>2, EventNames DEF KindFits
<1>4. CASE received # NoPrimitive
  <2>1. PICK k \in Kinds : k = received.kind
    BY <1>4 DEF TypeOK
  <2>2. Raise(k) /\ UNCHANGED topics /\ k \in Event
    BY <1>4, <2>1, KindTypes DEF CallPrimitive
  <2>3. k \notin Start /\ k \notin Stop /\ k \notin Kinds \ {k}
    BY EventNames DEF Start, Stop
  <2>4. /\ ~Mentions(events', Kinds \ {k}) /\ Once(events', Kinds)
        /\ (Mentions(events', Start) <=> Mentions(events, Start))
        /\ (Mentions(events', Stop) <=> Mentions(events, Stop))
        /\ Once(events', Start)
    <3>1. /\ Once(events, Kinds) /\ Once(events, Start) /\ ~Mentions(events, Kinds \ {k})
      BY <1>1 DEF NoneLost, OneKind, OneStart, Mentions
    <3> QED BY <1>1, <2>2, <2>3, <3>1, RaiseMentions
  <2>5. OneKind'
    BY <1>1, <1>2, <2>1, <2>2, <2>4 DEF NoneLost, OneKind, topics
  <2>6. OneStart' /\ ~Pending' /\ ~Stopping' /\ ~Before'
    BY <1>1, <1>2, <2>2, <2>4 DEF NoneLost, OneStart, Pending, Stopping, Before, topics
  <2>7. NotYet' /\ Loaded'
    BY <1>1, <1>2, <2>6 DEF NotYet, Loaded
  <2> QED BY <1>3, <2>5, <2>6, <2>7 DEF NoneLost
<1>5. CASE received = NoPrimitive
  <2>1. Publish("STOP") /\ UNCHANGED events /\ "STOP" \in Event
    BY <1>5, KindTypes DEF CallPrimitive
  <2>2. "STOP" \notin Start
    BY DEF Start
  <2>3. /\ Mentions(inbox', Start) => Mentions(inbox, Start)
        /\ Once(inbox, Start) => Once(inbox', Start)
        /\ Mentions(inbox', Kinds) => Mentions(inbox, Kinds)
        /\ forwarding' = forwarding
    BY <2>1, <2>2, PublishMentions, EventNames
  <2>4. OneStart' /\ ~Pending' /\ ~Before'
    BY <1>1, <1>2, <2>1, <2>3 DEF NoneLost, OneStart, Pending, Before
  <2>5. OneKind'
    BY <1>1, <1>2, <2>1, <2>3 DEF NoneLost, OneKind
  <2>6. Finished'
    BY <1>1, <1>2, <2>1, <2>4 DEF Finished
  <2>7. NotYet' /\ Loaded'
    BY <2>4, <2>6 DEF NotYet, Loaded, Before
  <2> QED BY <1>3, <2>4, <2>5, <2>7 DEF NoneLost
<1> QED BY <1>4, <1>5

(* The machine takes an event, or one that it has no arrow for.            *)
LEMMA TakeEventKeeps ==
  ASSUME TypeOK, NoneLost, TakeEvent
  PROVE  NoneLost'
<1>1. /\ pc = "wait" /\ events \in Seq(Event) /\ events # <<>> /\ events' = Tail(events)
      /\ UNCHANGED <<state, received, missionActive>> /\ UNCHANGED quiet
  BY DEF TakeEvent, TypeOK, primitive, flags, topics, operator, parser, quiet
<1>2. PICK e : e = Head(events)
  OBVIOUS
<1>3. ASSUME NEW es
      PROVE  /\ Mentions(events, es) <=> e \in es \/ Mentions(events', es)
             /\ Once(events, es) => Once(events', es)
             /\ Once(events, es) /\ e \in es => ~Mentions(events', es)
  BY <1>1, <1>2, TailMentions
<1>4. /\ Mentions(events, Start) <=> e = "START_DISPATCHER" \/ Mentions(events', Start)
      /\ Mentions(events, Stop) <=> e = "STOP" \/ Mentions(events', Stop)
      /\ Mentions(events, Kinds) <=> e \in Kinds \/ Mentions(events', Kinds)
      /\ Once(events', Start) /\ Once(events', Kinds)
      /\ e \in Start => ~Mentions(events', Start)
      /\ e \in Kinds => ~Mentions(events', Kinds)
      /\ ~Mentions(events', Kinds \ {received.kind})
      /\ e \notin Kinds \ {received.kind}
      /\ ~Mentions(inbox', Kinds) /\ ~Mentions(forwarding', Kinds)
  <2>1. Once(events, Start) /\ Once(events, Kinds) /\ ~Mentions(events, Kinds \ {received.kind})
    BY DEF NoneLost, OneStart, OneKind
  <2>2. ~Mentions(inbox', Kinds) /\ ~Mentions(forwarding', Kinds)
    BY <1>1 DEF NoneLost, OneKind, quiet
  <2> QED BY <1>3, <2>1, <2>2 DEF Start, Stop
<1>5. OneStart'
  BY <1>1, <1>4 DEF NoneLost, OneStart, quiet
<1>6. /\ Pending' => Pending
      /\ Stopping' => Stopping
      /\ issued' = issued /\ doc' = doc
  BY <1>1, <1>4 DEF Pending, Stopping, quiet
<1>7. CASE /\ \A s \in States : <<state, e, s>> \notin Arrows
           /\ UNCHANGED <<next, pc>>
  <2>1. OneKind' /\ KindFits' /\ pc' # "crashed"
    BY <1>1, <1>4, <1>7 DEF NoneLost, OneKind, KindFits
  <2>2. Before' => Before
    BY <1>6 DEF Before
  <2>3. Finished => Finished'
    BY <1>1, <1>4, <1>7, <2>2 DEF Finished
  <2>4. NotYet'
    BY <1>1, <1>6, <1>7, <2>2 DEF NoneLost, NotYet
  <2>5. Loaded'
    BY <1>6, <2>3 DEF NoneLost, Loaded
  <2> QED BY <1>5, <2>1, <2>4, <2>5 DEF NoneLost
<1>8. ASSUME NEW s \in States, <<state, e, s>> \in Arrows, next' = s, pc' = "exit"
      PROVE  NoneLost'
  <2>1. CASE state = "Wait_state"
    <3>1. e = "START_DISPATCHER" /\ s = "Dispatcher_state"
      BY <1>8, <2>1, EventNames DEF Arrows, WaitArrows, DispatcherArrows, PauseArrows,
                                    PrimitiveArrows, Goto
    <3>2. /\ Pending /\ ~Pending' /\ ~Before' /\ ~Stopping'
      BY <1>1, <1>4, <1>6, <3>1
         DEF NoneLost, OneStart, Loaded, NotYet, Pending, Before, Start, quiet
    <3>3. doc' # NoMission
      BY <1>6, <3>2 DEF NoneLost, Loaded
    <3>4. OneKind' /\ KindFits' /\ pc' # "crashed"
      BY <1>1, <1>4, <1>8, <2>1, EventNames DEF NoneLost, OneKind, KindFits
    <3> QED BY <1>5, <3>2, <3>3, <3>4 DEF NoneLost, NotYet, Loaded
  <2>2. CASE state # "Wait_state"
    <3>1. ~Before /\ ~Pending /\ ~Before' /\ ~Pending'
      BY <1>1, <1>6, <2>2 DEF NoneLost, NotYet, Before
    <3>2. NotYet' /\ pc' # "crashed"
      BY <1>8, <3>1 DEF NotYet
    <3>3. e # "START_DISPATCHER"
      BY <1>4, <3>1 DEF Pending
    <3>4. CASE state = "Dispatcher_state"
      <4>1. \/ e = "STOP" /\ s = "Wait_state"
            \/ e \in Kinds /\ s = e
        <5>1. Primitives \cup NoCode \subseteq Kinds
          BY DEF Kinds
        <5> QED BY <1>8, <3>3, <3>4, <5>1, EventNames
                DEF Arrows, WaitArrows, DispatcherArrows, PauseArrows, PrimitiveArrows, Goto
      <4>2. CASE e = "STOP" /\ s = "Wait_state"
        <5>1. Stopping
          BY <1>4, <4>2 DEF Stopping
        <5>2. issued # 0 /\ Finished
          BY <3>1, <5>1 DEF NoneLost, Loaded, Before
        <5>3. ~Mentions(events, Kinds)
          BY <1>1, <3>4, <5>2 DEF Finished
        <5>4. Finished'
          BY <1>1, <1>8, <3>1, <3>4, <4>2 DEF Finished
        <5>5. OneKind' /\ KindFits'
          BY <1>1, <1>4, <1>8, <3>4, <4>2, <5>3, EventNames DEF NoneLost, OneKind, KindFits
        <5> QED BY <1>5, <3>1, <3>2, <5>4, <5>5 DEF NoneLost, Loaded
      <4>3. CASE e \in Kinds /\ s = e
        <5>1. e = received.kind /\ Mentions(events, Kinds) /\ ~Mentions(events', Kinds)
          BY <1>4, <4>3
        <5>2. ~Finished
          BY <1>1, <2>2, <5>1 DEF Finished
        <5>3. ~Stopping' /\ doc' # NoMission
          BY <1>6, <3>1, <5>2 DEF NoneLost, Loaded, Before
        <5>4. OneKind' /\ KindFits'
          BY <1>1, <1>4, <1>8, <4>3, <5>1, <3>4, EventNames DEF NoneLost, OneKind, KindFits
        <5> QED BY <1>5, <3>1, <3>2, <5>3, <5>4 DEF NoneLost, Loaded
      <4> QED BY <4>1, <4>2, <4>3
    <3>5. CASE state # "Dispatcher_state"
      <4>1. ~Finished
        BY <2>2, <3>5 DEF Finished
      <4>2. ~Stopping' /\ doc' # NoMission
        BY <1>6, <3>1, <4>1 DEF NoneLost, Loaded, Before
      <4>3. OneKind' /\ KindFits'
        BY <1>1, <1>4, <3>5 DEF NoneLost, OneKind, KindFits
      <4> QED BY <1>5, <3>1, <3>2, <4>2, <4>3 DEF NoneLost, Loaded
    <3> QED BY <3>4, <3>5
  <2> QED BY <2>1, <2>2
<1> QED BY <1>2, <1>7, <1>8 DEF TakeEvent

(* The exit code runs on the way along an arrow.                           *)
LEMMA ExitKeeps ==
  ASSUME TypeOK, PhasesKnown, NoneLost, ExitState
  PROVE  NoneLost'
<1>1. /\ pc = "exit" /\ pc' \in {"stop", "enter"} /\ state' = next
      /\ UNCHANGED <<events, received, missionActive>> /\ UNCHANGED quiet
  BY DEF ExitState, primitive, flags, topics, operator, parser, quiet
<1>2. PICK e \in Event : <<state, e, next>> \in Arrows
  BY <1>1 DEF PhasesKnown
<1>3. next \in Primitives => state = "Dispatcher_state"
  BY <1>2, ArrowSources
<1>4. /\ Pending' = Pending /\ Stopping' = Stopping /\ Before' = Before
      /\ ~Before /\ ~Mentions(events, Kinds)
  BY <1>1 DEF Pending, Stopping, Before, quiet, NoneLost, NotYet, OneKind, ResetSteps
<1>5. Finished => Finished'
  BY <1>1, <1>4 DEF Finished
<1>6. KindFits' /\ pc' # "crashed"
  BY <1>1, <1>3 DEF NoneLost, KindFits
<1>7. OneStart' /\ OneKind'
  BY <1>1, <1>4 DEF NoneLost, OneStart, OneKind, quiet
<1>8. NotYet' /\ Loaded'
  BY <1>1, <1>4, <1>5 DEF NoneLost, NotYet, Loaded, quiet
<1> QED BY <1>6, <1>7, <1>8 DEF NoneLost

(* A message passes from the inbox to the callback, ...                    *)
LEMMA MessageKeeps ==
  ASSUME TypeOK, NoneLost, OnEventString
  PROVE  NoneLost'
<1>1. PICK msg \in Event : msg = Head(inbox)
  BY DEF OnEventString, TypeOK
<1>2. /\ inbox \in Seq(Event) /\ inbox # <<>> /\ inbox' = Tail(inbox)
      /\ forwarding = <<>> /\ forwarding' = ToForward(msg)
      /\ UNCHANGED <<fsm, events, parser_inbox, setup, issued, doc, received, missionActive>>
  BY <1>1 DEF OnEventString, TypeOK, primitive, flags, operator, parser
<1>3. ~(msg = "START_DISPATCHER" /\ missionActive)
  <2>1. msg = "START_DISPATCHER" => Pending
    BY <1>1, <1>2, TailMentions DEF Pending, Start
  <2> QED BY <2>1 DEF NoneLost, NotYet, Before
<1>4. ASSUME NEW es
      PROVE  /\ Mentions(inbox, es) <=> msg \in es \/ Mentions(inbox', es)
             /\ Once(inbox, es) => Once(inbox', es)
             /\ Once(inbox, es) /\ msg \in es => ~Mentions(inbox', es)
             /\ ~Mentions(forwarding, es)
  BY <1>1, <1>2, TailMentions DEF Mentions
<1>5. ASSUME NEW es, es \cap {"manual", "disabled"} = {}
      PROVE  (Mentions(forwarding', es) <=> msg \in es) /\ Once(forwarding', es)
  BY <1>2, <1>3, <1>5, ToForwardMentions
<1>6. OneKind'
  <2>1. msg \notin Kinds /\ ~Mentions(inbox', Kinds) /\ ~Mentions(forwarding', Kinds)
    BY <1>4, <1>5, NotManual DEF NoneLost, OneKind
  <2> QED BY <1>2, <2>1 DEF NoneLost, OneKind, fsm
<1>7. OneStart'
  BY <1>2, <1>4, <1>5, NotManual DEF NoneLost, OneStart
<1>8. Pending' = Pending /\ Stopping' = Stopping
  BY <1>2, <1>4, <1>5, NotManual DEF Pending, Stopping
<1>9. KindFits' /\ pc' # "crashed"
  BY <1>2 DEF NoneLost, KindFits, fsm
<1>10. Finished' = Finished
  BY <1>2, <1>8 DEF Finished, Before, fsm
<1>11. NotYet' /\ Loaded'
  BY <1>2, <1>8, <1>10 DEF NoneLost, NotYet, Loaded, Before, fsm
<1> QED BY <1>6, <1>7, <1>9, <1>11 DEF NoneLost

(* ... and from there to the queue of the state machine.                   *)
LEMMA ForwardKeeps ==
  ASSUME TypeOK, NoneLost, Forward
  PROVE  NoneLost'
<1>1. /\ forwarding \in Seq(Event \cup {"manual", "disabled"}) /\ forwarding # <<>>
      /\ forwarding' = Tail(forwarding)
      /\ UNCHANGED <<fsm, inbox, parser_inbox, setup, issued, doc, received, missionActive>>
  BY DEF Forward, TypeOK, primitive, flags, operator, parser
<1>2. PICK msg \in Event \cup {"manual", "disabled"} : msg = Head(forwarding)
  BY <1>1
<1>3. ASSUME NEW es
      PROVE  /\ Mentions(forwarding, es) <=> msg \in es \/ Mentions(forwarding', es)
             /\ Once(forwarding, es) => Once(forwarding', es)
             /\ Once(forwarding, es) /\ msg \in es => ~Mentions(forwarding', es)
  BY <1>1, <1>2, TailMentions
<1>4. ASSUME NEW es, es \cap {"manual", "disabled"} = {}
      PROVE  /\ Mentions(events', es) <=> Mentions(events, es) \/ msg \in es
             /\ Once(events, es) /\ ~(Mentions(events, es) /\ msg \in es) => Once(events', es)
  <2>1. CASE msg \in {"manual", "disabled"}
    <3>1. events' = events /\ msg \notin es
      BY <1>2, <1>4, <2>1 DEF Forward
    <3> QED BY <3>1
  <2>2. CASE msg \notin {"manual", "disabled"}
    <3>1. msg \in Event /\ Raise(msg)
      BY <1>2, <2>2 DEF Forward
    <3> QED BY <3>1, RaiseMentions
  <2> QED BY <2>1, <2>2
<1>5. msg \notin Kinds /\ ~Mentions(forwarding', Kinds)
  BY <1>3 DEF NoneLost, OneKind
<1>6. OneKind'
  <2>1. /\ msg \notin Kinds \ {received.kind}
        /\ (Kinds \ {received.kind}) \cap {"manual", "disabled"} = {}
    BY <1>5, NotManual
  <2>2. /\ Mentions(events', Kinds) => Mentions(events, Kinds)
        /\ Mentions(events', Kinds \ {received.kind}) => Mentions(events, Kinds \ {received.kind})
        /\ Once(events, Kinds) => Once(events', Kinds)
    BY <1>4, <1>5, <2>1, NotManual
  <2> QED BY <1>1, <1>5, <2>2 DEF NoneLost, OneKind, fsm
<1>7. OneStart'
  BY <1>1, <1>3, <1>4, NotManual DEF NoneLost, OneStart
<1>8. Pending' = Pending /\ Stopping' = Stopping
  BY <1>1, <1>3, <1>4, NotManual DEF Pending, Stopping
<1>9. KindFits' /\ pc' # "crashed"
  BY <1>1 DEF NoneLost, KindFits, fsm
<1>10. Finished' = Finished
  <2>1. Mentions(events', Kinds) <=> Mentions(events, Kinds)
    BY <1>4, <1>5, NotManual
  <2> QED BY <1>1, <1>8, <2>1 DEF Finished, Before, fsm
<1>11. NotYet' /\ Loaded'
  BY <1>1, <1>8, <1>10 DEF NoneLost, NotYet, Loaded, Before, fsm
<1> QED BY <1>6, <1>7, <1>9, <1>11 DEF NoneLost

(* The stop at the end of the mission empties the parser.                  *)
LEMMA ParserMessageKeeps ==
  ASSUME TypeOK, PhasesKnown, NoneLost, ParserOnEventString
  PROVE  NoneLost'
<1>1. /\ parser_inbox \in Seq(Event) /\ parser_inbox # <<>>
      /\ parser_inbox' = Tail(parser_inbox)
      /\ UNCHANGED <<state, next, events, inbox, forwarding, setup, issued, received,
                     missionActive>>
  BY DEF ParserOnEventString, DocumentChanges, TypeOK, fsm, primitive, flags, operator
<1>2. Mentions(parser_inbox, Stop) <=>
        Head(parser_inbox) = "STOP" \/ Mentions(parser_inbox', Stop)
  BY <1>1, TailMentions DEF Stop
<1>3. /\ Stopping' => Stopping
      /\ doc' = doc \/ (Stopping /\ doc' = NoMission)
  BY <1>1, <1>2 DEF Stopping, ParserOnEventString, ResetParser, parser
<1>4. pc' = pc
  <2>1. CASE Head(parser_inbox) = "STOP"
    <3>1. Stopping
      BY <1>2, <2>1 DEF Stopping
    <3>2. Finished
      BY <3>1 DEF NoneLost, NotYet, Loaded, Before
    <3>3. pc # "parse"
      BY <3>2 DEF Finished, PhasesKnown
    <3> QED BY <2>1, <3>3 DEF ParserOnEventString, DocumentChanges
  <2>2. CASE Head(parser_inbox) # "STOP"
    BY <2>2 DEF ParserOnEventString, fsm
  <2> QED BY <2>1, <2>2
<1>5. Pending' = Pending /\ Before' = Before /\ Finished' = Finished
  BY <1>1, <1>4 DEF Pending, Before, Finished
<1>6. OneStart' /\ OneKind' /\ KindFits' /\ pc' # "crashed"
  BY <1>1, <1>4 DEF NoneLost, OneStart, OneKind, KindFits
<1>7. NotYet' /\ Loaded'
  BY <1>1, <1>3, <1>4, <1>5 DEF NoneLost, NotYet, Loaded, Before
<1> QED BY <1>6, <1>7 DEF NoneLost

(* A timeout or a data event raises an event.                              *)
LEMMA EndKeeps ==
  ASSUME TypeOK, NoneLost, TimeoutRaises \/ DataEventRaises
  PROVE  NoneLost'
<1>1. PICK e \in {"TIMEOUT", "PRIMITIVE_FINISHED"} : Raise(e)
  BY DEF TimeoutRaises, DataEventRaises
<1>2. /\ UNCHANGED fsm /\ UNCHANGED quiet /\ UNCHANGED <<received, missionActive>>
  BY DEF TimeoutRaises, DataEventRaises, quiet, topics, primitive, flags, operator, parser
<1>3. /\ e \in Event /\ e \notin Start /\ e \notin Stop /\ e \notin Kinds
      /\ e \notin Kinds \ {received.kind}
  BY KindTypes, EventNames DEF Start, Stop
<1>4. ASSUME NEW es, e \notin es
      PROVE  /\ Mentions(events', es) <=> Mentions(events, es)
             /\ Once(events, es) => Once(events', es)
  BY <1>1, <1>3, <1>4, RaiseMentions
<1>5. /\ Mentions(events', Start) <=> Mentions(events, Start)
      /\ Mentions(events', Stop) <=> Mentions(events, Stop)
      /\ Mentions(events', Kinds) <=> Mentions(events, Kinds)
      /\ ~Mentions(events', Kinds \ {received.kind})
      /\ Once(events', Start) /\ Once(events', Kinds)
  BY <1>3, <1>4 DEF NoneLost, OneStart, OneKind
<1>6. OneStart' /\ OneKind' /\ KindFits' /\ pc' # "crashed"
  BY <1>2, <1>5 DEF NoneLost, OneStart, OneKind, KindFits, quiet, fsm
<1>7. /\ Pending' = Pending /\ Stopping' = Stopping /\ Before' = Before
      /\ Finished' = Finished
  BY <1>2, <1>5 DEF Pending, Stopping, Before, Finished, quiet, fsm
<1>8. NotYet' /\ Loaded'
  BY <1>2, <1>7 DEF NoneLost, NotYet, Loaded, quiet, fsm
<1> QED BY <1>6, <1>8 DEF NoneLost

(* What is published, other than a start or a stop.                        *)
LEMMA PublishKeeps ==
  ASSUME TypeOK, NoneLost, NEW msg \in Event \ ({"START_DISPATCHER", "STOP"} \cup Kinds),
         Publish(msg), UNCHANGED <<fsm, events, received, missionActive, setup, doc>>,
         issued \in Nat, issued' \in Nat,
         issued' = issued \/ (issued' > 0 /\ issued > 0)
  PROVE  NoneLost'
<1>1. ASSUME NEW es, msg \notin es
      PROVE  /\ Mentions(inbox', es) => Mentions(inbox, es)
             /\ Mentions(parser_inbox', es) => Mentions(parser_inbox, es)
             /\ Once(inbox, es) => Once(inbox', es)
             /\ forwarding' = forwarding
  BY <1>1, PublishMentions
<1>2. msg \notin Start /\ msg \notin Stop /\ msg \notin Kinds
  BY DEF Start, Stop
<1>3. Pending' => Pending
  BY <1>1, <1>2 DEF Pending
<1>4. Stopping' => Stopping
  BY <1>1, <1>2 DEF Stopping
<1>5. Before' => Before
  BY <1>3 DEF Before
<1>6. OneStart' /\ OneKind' /\ KindFits' /\ pc' # "crashed"
  BY <1>1, <1>2 DEF NoneLost, OneStart, OneKind, KindFits, fsm
<1>7. Finished => Finished'
  BY <1>5 DEF Finished, fsm
<1>8. NotYet'
  BY <1>4, <1>5 DEF NoneLost, NotYet, fsm
<1>9. Loaded'
  BY <1>3, <1>4, <1>7 DEF NoneLost, Loaded
<1> QED BY <1>6, <1>8, <1>9 DEF NoneLost

(* The start of the mission.                                               *)
LEMMA SetupKeeps ==
  ASSUME TypeOK, NoneLost, SetupDone
  PROVE  NoneLost'
<1>1. /\ setup /\ ~setup' /\ Publish("START_DISPATCHER")
      /\ UNCHANGED <<fsm, events, received, missionActive, doc, issued>>
  BY DEF SetupDone, primitive, flags, parser
<1>2. Pending /\ Before
  BY <1>1 DEF Pending, Before
<1>3. ASSUME NEW es
      PROVE  /\ Mentions(inbox', es) => Mentions(inbox, es) \/ "START_DISPATCHER" \in es
             /\ Mentions(parser_inbox', es)
                  => Mentions(parser_inbox, es) \/ "START_DISPATCHER" \in es
             /\ Once(inbox, es) /\ ~(Mentions(inbox, es) /\ "START_DISPATCHER" \in es)
                  => Once(inbox', es)
             /\ forwarding' = forwarding
  BY <1>1, PublishMentions, KindTypes
<1>4. OneStart'
  BY <1>1, <1>3 DEF NoneLost, OneStart
<1>5. ~Stopping' /\ OneKind'
  BY <1>1, <1>2, <1>3, EventNames DEF NoneLost, NotYet, Stopping, Stop, OneKind, fsm
<1>6. KindFits' /\ pc' # "crashed"
  BY <1>1 DEF NoneLost, KindFits, fsm
<1>7. NotYet' /\ Loaded'
  BY <1>1, <1>2, <1>5 DEF NoneLost, NotYet, Loaded, Before, fsm
<1> QED BY <1>4, <1>5, <1>6, <1>7 DEF NoneLost

(* The operator: one mission, then commands without a meaning of their own *)
(* for the argument.                                                       *)
LEMMA OperatorKeeps ==
  ASSUME Ordinary, TypeOK, NoneLost, Considerate, ~stopped',
         \/ \E mission \in Missions : LoadMission(mission)
         \/ \E msg \in Commands : Operator(msg)
  PROVE  NoneLost'
<1>1. /\ issued \in Nat /\ issued' = issued + 1 /\ (issued = 0 <=> setup')
      /\ UNCHANGED <<state, next, events, received, missionActive>>
  BY MaxCommandsAssumption
     DEF TypeOK, Considerate, LoadMission, DocumentChanges, Operator, primitive, flags, fsm
<1>2. ASSUME NEW mission \in Missions, LoadMission(mission) PROVE NoneLost'
  <2>1. /\ mission # NoMission /\ setup' /\ doc' # NoMission
        /\ UNCHANGED <<inbox, forwarding, parser_inbox>>
    BY <1>2 DEF Ordinary, LoadMission, ReceiveMission, topics
  <2>2. issued = 0 /\ issued' > 0
    BY <1>1, <2>1
  <2>3. Before /\ ~Pending
    BY <2>2 DEF NoneLost, Loaded, Before
  <2>4. ~Stopping /\ Stopping' = Stopping
    BY <1>1, <2>1, <2>3 DEF NoneLost, NotYet, Stopping
  <2>5. pc' = pc
    <3>1. pc # "parse"
      BY <2>3 DEF NoneLost, NotYet, ResetSteps
    <3>2. ~(parser_inbox # <<>> /\ Head(parser_inbox) = "STOP")
      BY <2>4, TailMentions DEF Stopping, Stop, TypeOK
    <3> QED BY <1>2, <3>1, <3>2 DEF LoadMission, DocumentChanges
  <2>6. OneStart'
    BY <1>1, <2>1, <2>3 DEF NoneLost, OneStart, Pending
  <2>7. OneKind' /\ KindFits' /\ pc' # "crashed"
    BY <1>1, <2>1, <2>5 DEF NoneLost, OneKind, KindFits
  <2>8. NotYet'
    BY <1>1, <2>3, <2>4, <2>5 DEF NoneLost, NotYet
  <2>9. Loaded'
    BY <2>1, <2>2, <2>4 DEF Loaded
  <2> QED BY <2>6, <2>7, <2>8, <2>9 DEF NoneLost
<1>3. ASSUME NEW msg \in Commands, Operator(msg) PROVE NoneLost'
  <2>1. msg # "STOP"
    BY <1>3, Zenon DEF Operator
  <2>2. msg \in Event \ ({"START_DISPATCHER", "STOP"} \cup Kinds)
    BY <2>1, CommandsAssumption DEF Ordinary
  <2>3. Publish(msg) /\ UNCHANGED <<setup, doc, pc>>
    BY <1>3 DEF Operator, parser, fsm
  <2>4. issued > 0
    <3>1. issued = 0 => ~setup
      BY DEF NoneLost, Loaded, Pending
    <3> QED BY <1>1, <2>3, <3>1
  <2> QED BY <1>1, <2>2, <2>3, <2>4, PublishKeeps DEF fsm
<1> QED BY <1>2, <1>3

(* Statements of the state machine between its queues.                     *)
LEMMA EntryKeeps ==
  ASSUME PhasesKnown, NoneLost,
         \/ ResetOnEntry \/ EnterWait \/ EnterPause \/ EnterDispatcher \/ TakeNumber
         \/ ParsePrimitive \/ ParseNothing \/ SetEventFlag
         \/ EnterPrimitive \/ TimeoutSet \/ StartPrimitive \/ EnterIdlePrimitive
  PROVE  NoneLost'
<1>1. CASE ResetOnEntry
  <2>1. /\ pc \in ResetSteps /\ UNCHANGED quiet /\ UNCHANGED <<events, state, received>>
        /\ pc' \in {"events", "timeouts", "active", "done"}
    BY <1>1 DEF ResetOnEntry, Following, ResetSteps, topics, primitive, operator, parser, quiet
  <2>2. missionActive' => missionActive
    BY <1>1, Zenon DEF ResetOnEntry, EndReset
  <2> QED BY <2>1, <2>2, PhaseStep DEF ResetSteps
<1>2. CASE EnterWait \/ EnterPause
  BY <1>2, PhaseStep DEF EnterWait, EnterPause, topics, primitive, flags, operator, parser, quiet
<1>3. CASE EnterDispatcher \/ TakeNumber
  BY <1>3, PhaseStep
     DEF EnterDispatcher, TakeNumber, topics, primitive, flags, operator, parser, quiet
<1>4. CASE ParsePrimitive \/ SetEventFlag
  <2>1. state = "Dispatcher_state"
    BY <1>4 DEF ParsePrimitive, SetEventFlag, PhasesKnown
  <2> QED BY <1>4, <2>1, PhaseStep
          DEF ParsePrimitive, SetEventFlag, topics, primitive, flags, operator, parser, quiet
<1>5. ~ParseNothing
  BY RequestFinds DEF ParseNothing, PhasesKnown
<1>6. CASE EnterPrimitive \/ TimeoutSet \/ StartPrimitive \/ EnterIdlePrimitive
  <2>1. state # "Wait_state"
    BY <1>6 DEF EnterPrimitive, TimeoutSet, StartPrimitive, EnterIdlePrimitive, PhasesKnown,
                Startable
  <2> QED BY <1>6, <2>1, PhaseStep
          DEF EnterPrimitive, TimeoutSet, StartPrimitive, EnterIdlePrimitive,
              topics, primitive, flags, operator, parser, quiet
<1> QED BY <1>1, <1>2, <1>3, <1>4, <1>5, <1>6

(* Statements of the callbacks between the queues.                         *)
LEMMA CallbackKeeps ==
  ASSUME NoneLost,
         \/ OnTimeout \/ TimeoutResets \/ OnDataEvent \/ StoreChosen \/ DataEventResets
         \/ \E k \in Startable : Preempted(k) \/ Succeeds(k)
  PROVE  NoneLost'
<1>1. CASE OnTimeout \/ StoreChosen
  BY <1>1, OtherStep
     DEF OnTimeout, StoreChosen, topics, primitive, flags, operator, parser, quiet, fsm
<1>2. CASE TimeoutResets \/ DataEventResets
  <2>1. missionActive' => missionActive
    BY <1>2, Zenon DEF TimeoutResets, DataEventResets, EndReset
  <2> QED BY <1>2, <2>1, OtherStep
          DEF TimeoutResets, DataEventResets, topics, primitive, operator, parser, quiet, fsm
<1>3. CASE OnDataEvent
  BY <1>3, OtherStep DEF OnDataEvent, topics, primitive, flags, operator, parser, quiet
<1>4. CASE \E k \in Startable : Preempted(k) \/ Succeeds(k)
  BY <1>4, OtherStep
     DEF Preempted, Succeeds, topics, primitive, flags, operator, parser, quiet, fsm
<1> QED BY <1>1, <1>2, <1>3, <1>4

(* Only the operator stops the mission, as the history has it.             *)
LEMMA StoppedStep ==
  ASSUME [Next]_vars
  PROVE  stopped' = stopped \/ \E msg \in Commands : Operator(msg)
<1>1. CASE MainThread
  BY <1>1 DEF MainThread, ResetOnEntry, EnterWait, EnterPause, EnterDispatcher, TakeNumber,
              ParsePrimitive, ParseNothing, SetEventFlag, CallPrimitive, EnterPrimitive,
              TimeoutSet, StartPrimitive, EnterIdlePrimitive, TakeEvent, ExitState, operator
<1>2. CASE Callbacks
  BY <1>2 DEF Callbacks, OnEventString, Forward, ParserOnEventString, OnTimeout,
              TimeoutResets, TimeoutRaises, OnDataEvent, StoreChosen, DataEventResets,
              DataEventRaises, PrimitiveDone, LoadMission, operator
<1>3. CASE Others
  BY <1>3 DEF Others, Preempted, Succeeds, SetupDone, operator
<1> QED BY <1>1, <1>2, <1>3 DEF Next, vars, operator

LEMMA NoneLostStep ==
  ASSUME Ordinary, TypeOK, PhasesKnown, stopped \/ NoneLost, [ConsiderateNext]_vars
  PROVE  (stopped \/ NoneLost)'
<1> SUFFICES ASSUME ~stopped' PROVE NoneLost'
  OBVIOUS
<1>1. CASE UNCHANGED vars
  BY <1>1, OtherStep DEF vars, fsm, topics, primitive, flags, operator, parser, quiet
<1>2. CASE ConsiderateNext
  <2>1. ~stopped
    <3>1. CASE stopped' = stopped
      BY <3>1
    <3>2. CASE \E msg \in Commands : Operator(msg)
      BY <3>2, Zenon DEF Operator
    <3> QED BY <1>2, <3>1, <3>2, StoppedStep DEF ConsiderateNext
  <2>2. NoneLost
    BY <2>1
  <2>3. CASE MainThread
    BY <2>2, <2>3, EntryKeeps, CallKeeps, TakeEventKeeps, ExitKeeps DEF MainThread
  <2>4. CASE OnEventString \/ Forward \/ ParserOnEventString
    BY <2>2, <2>4, MessageKeeps, ForwardKeeps, ParserMessageKeeps
  <2>5. CASE TimeoutRaises \/ DataEventRaises
    BY <2>2, <2>5, EndKeeps
  <2>6. CASE OnTimeout \/ TimeoutResets \/ OnDataEvent \/ StoreChosen \/ DataEventResets
    BY <2>2, <2>6, CallbackKeeps
  <2>7. ASSUME NEW k \in Startable, PrimitiveDone(k) PROVE NoneLost'
    <3>1. "PRIMITIVE_FINISHED" \in Event \ ({"START_DISPATCHER", "STOP"} \cup Kinds)
      BY KindTypes, EventNames
    <3>2. issued \in Nat
      BY MaxCommandsAssumption DEF TypeOK
    <3> QED BY <2>2, <2>7, <3>1, <3>2, PublishKeeps
            DEF PrimitiveDone, primitive, flags, operator, parser
  <2>8. ASSUME NEW k \in Startable, Preempted(k) \/ Succeeds(k) PROVE NoneLost'
    BY <2>2, <2>8, CallbackKeeps
  <2>9. CASE SetupDone
    BY <2>2, <2>9, SetupKeeps
  <2>10. CASE \/ \E mission \in Missions : LoadMission(mission)
              \/ \E msg \in Commands : Operator(msg)
    BY <1>2, <2>2, <2>10, OperatorKeeps DEF ConsiderateNext
  <2> QED BY <1>2, <2>3, <2>4, <2>5, <2>6, <2>7, <2>8, <2>9, <2>10, EndingAssumption
          DEF ConsiderateNext, Next, Callbacks, Others
<1> QED BY <1>1, <1>2

LEMMA NoneLostAlways ==
  ASSUME Ordinary
  PROVE  ConsiderateSafety => [](stopped \/ NoneLost)
<1>1. Init => PhasesKnown /\ NoneLost
  BY EventNames DEF Init, ParserInit, PhasesKnown, NoneLost, OneStart, NotYet, Loaded, OneKind,
         KindFits, Pending, Stopping, Before, Mentions, Once, ResetSteps
<1>2. [ConsiderateNext]_vars => [Next]_vars
  BY DEF ConsiderateNext
<1>3. TypeOK /\ PhasesKnown /\ (stopped \/ NoneLost) /\ [ConsiderateNext]_vars
        => (stopped \/ NoneLost)'
  BY NoneLostStep
<1> QED BY <1>1, <1>2, <1>3, InitTypes, StepTypes, PhasesStep, PTL DEF ConsiderateSafety

(***************************************************************************)
(* The node is never lost on a request without a mission (parseMission     *)
(* uses the root of the document unchecked), or while the document         *)
(* changes, when the operator sends one mission, neither starts nor names  *)
(* of primitives, and has not stopped the mission: the stop at its end,    *)
(* which empties the parser before the state machine has heard of it, is   *)
(* never followed by a request, for any mission and any order of results,  *)
(* timeouts and data events.                                               *)
(***************************************************************************)
THEOREM MissionLostOnlyByStop ==
  ASSUME Ordinary
  PROVE  ConsiderateSafety => []LostOnlyByStop
<1>1. stopped \/ NoneLost => LostOnlyByStop
  BY DEF NoneLost, LostOnlyByStop
<1> QED BY <1>1, NoneLostAlways, PTL

(***************************************************************************)
(* Under an operator who does not stop the mission either, a primitive's   *)
(* state always runs with the data of a primitive of its own kind,         *)
(* although the dispatcher sets them before the event that leads to the    *)
(* state is taken from the queue.                                          *)
(***************************************************************************)
THEOREM MissionPrimitiveFits ==
  ASSUME Ordinary, "STOP" \notin Commands
  PROVE  ConsiderateSafety => []PrimitiveFitsState
<1>1. Init => ~stopped
  BY DEF Init
<1>2. ~stopped /\ [ConsiderateNext]_vars => ~stopped'
  <2> SUFFICES ASSUME ~stopped, [ConsiderateNext]_vars PROVE ~stopped'
    OBVIOUS
  <2>1. ASSUME NEW msg \in Commands, Operator(msg) PROVE ~stopped'
    BY <2>1, Zenon DEF Operator
  <2> QED BY <2>1, StoppedStep DEF ConsiderateNext
<1>3. ~stopped /\ (stopped \/ NoneLost) => PrimitiveFitsState
  BY EventNames DEF NoneLost, KindFits, PrimitiveFitsState
<1> QED BY <1>1, <1>2, <1>3, NoneLostAlways, PTL DEF ConsiderateSafety
=============================================================================
