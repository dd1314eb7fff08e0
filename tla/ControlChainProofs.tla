------------------------- MODULE ControlChainProofs -------------------------
(***************************************************************************)
(* The chain implements the specifications of its parts, for every set of  *)
(* controllers and axes, every sampling time and timeout, and every number *)
(* of steps of the operator; what was proved of the parts alone therefore  *)
(* holds in the chain.                                                     *)
(***************************************************************************)
EXTENDS ControlChain, AsyncMergerProofs, VelocityControlProofs

LEMMA ChainAssumptions ==
  /\ Ts \in Nat \ {0} /\ Timeout \in Nat /\ RefDelay \in Nat
  /\ RefDelay >= 2 * Ts + 1
BY TsAssumption, TimeoutAssumption, RefDelayAssumption, ChainDelay

\* A request asks for velocities of axes of the vehicle, with new data.
LEMMA RequestIsMessage ==
  ASSUME NEW c \in Controllers, NEW asked \in Asked
  PROVE  /\ ControllerStep(c, asked) \in Messages
         /\ \A a \in DOMAIN ControllerStep(c, asked).nu :
              ControllerStep(c, asked).nu[a] = Wish
<1> DEFINE m == ControllerStep(c, asked)
<1>1. PICK name, axes : m = Request(name, axes)
  <2>1. c \in {"hdg", "alt", "depth", "pitch", "fadp"}
    BY ControllersAreKnown
  <2> QED BY <2>1 DEF ControllerStep, HDGStep, ALTStep, DepthStep, PitchStep, FADPStep
<1>2. m.requester \in Requesters /\ axes \subseteq Axes
  BY <1>1, ChainNames DEF Request
<1>3. Wish \in Velocities
  BY AgesAreNaturals DEF Wish, Velocities
<1>4. m.nu \in [axes -> Velocities] /\ \A a \in axes : m.nu[a] = Wish
  BY <1>1, <1>3 DEF Request
<1> QED BY <1>1, <1>2, <1>4 DEF Messages, Request

(***************************************************************************)
(* The merger in the chain is the merger of MergerSpec: it hears nothing   *)
(* but messages.                                                           *)
(***************************************************************************)
ReferencesKnown == ref \in [Controllers -> Asked]

LEMMA ReferencesInit == Init => ReferencesKnown
BY DEF Init, ReferencesKnown, Asked

LEMMA ReferencesStep == ReferencesKnown /\ [Next]_vars => ReferencesKnown'
<1> SUFFICES ASSUME ReferencesKnown, [Next]_vars PROVE ReferencesKnown'
  OBVIOUS
<1>1. ASSUME NEW c \in Controllers, NEW asked \in Asked, Reference(c, asked)
      PROVE  ReferencesKnown'
  BY <1>1 DEF Reference, onRef, ReferencesKnown
<1>2. CASE UNCHANGED ref
  BY <1>2 DEF ReferencesKnown
<1> QED
  BY <1>1, <1>2
     DEF Next, Operator, vars, hlVars, Enable, onEnableControl, Configure, DisableAxes,
         Joystick, Navigation, Control, onEstimate, MergerTimer, HearReference,
         HearEstimate, Step, Tick

LEMMA MergerRefined == ReferencesKnown /\ [Next]_vars => [MergerNext]_mergerVars
<1> SUFFICES ASSUME ReferencesKnown, [Next]_vars PROVE [MergerNext]_mergerVars
  OBVIOUS
<1>1. ASSUME NEW c \in Controllers, Control(c) PROVE [MergerNext]_mergerVars
  <2>1. ControllerStep(c, ref[c]) \in Messages
    BY RequestIsMessage DEF ReferencesKnown
  <2>2. onTopic(ControllerStep(c, ref[c])) \/ UNCHANGED mergerVars
    BY <1>1 DEF Control
  <2> QED BY <2>1, <2>2 DEF MergerNext
<1>2. CASE MergerTimer
  BY <1>2 DEF MergerTimer, MergerNext
<1>3. CASE HearReference
  BY <1>3 DEF HearReference, MergerNext
<1>4. CASE Tick
  BY <1>4 DEF Tick, MergerNext
<1>5. CASE UNCHANGED mergerVars
  BY <1>5
<1> QED
  BY <1>1, <1>2, <1>3, <1>4, <1>5
     DEF Next, Operator, vars, Enable, Reference, Configure, DisableAxes, Joystick,
         Navigation, HearEstimate, Step

THEOREM ChainImplementsMerger == Spec => MergerSpec
<1>1. Init => MergerInit
  BY DEF Init
<1> QED BY <1>1, ReferencesInit, ReferencesStep, MergerRefined, PTL DEF Spec, MergerSpec

(***************************************************************************)
(* In the chain too the merger forgets a controller only after a silence   *)
(* of a whole sampling time.                                               *)
(***************************************************************************)
THEOREM ChainOnlySilentRemoved == Spec => OnlySilentRemoved
BY ChainImplementsMerger, MergerOnlySilentRemoved, PTL

(***************************************************************************)
(* How old a value is that waits: in the merger it is no older than the    *)
(* round, which lasts until the timer finds that more than Ts passed since *)
(* the last complete round; once published, it is heard before the next    *)
(* step of the velocity controller.                                        *)
(***************************************************************************)
Waited(x) ==
  \/ sinceAll <= Ts /\ x.age <= sinceAll
  \/ sinceAll > Ts /\ x.age + timer <= 2 * Ts

RoundIsShort ==
  \A a \in Axes : Waited(outval[a]) /\ (outval[a] = Filler \/ arrived # {})

OutIsFresh ==
  out # NoMessage => \A a \in Axes : out[a].age <= 2 * Ts + (IF stepped THEN 0 ELSE 1)

LEMMA MergerValues ==
  ASSUME MergerTypeOK
  PROVE  /\ Ts \in Nat \ {0} /\ sinceAll \in 0..(Ts + 1) /\ timer \in 0..Ts
         /\ \A a \in Axes : outval[a] \in Velocities /\ outval[a].age \in Nat
         /\ out # NoMessage => out \in [Axes -> Velocities]
         /\ arrived \subseteq controllers
BY ChainAssumptions, AgesAreNaturals DEF MergerTypeOK, Velocities, AfterLongSilence

LEMMA NewValues ==
  /\ Filler.age = 0 /\ Wish.age = 0
BY DEF Filler, Wish

LEMMA OlderByOne ==
  ASSUME NEW x \in Velocities
  PROVE  /\ x.age \in Nat /\ OlderVelocity(x).age \in Nat
         /\ OlderVelocity(x).age <= x.age + 1
         /\ OlderVelocity(Filler) = Filler
<1>1. x.age \in Nat
  BY AgesAreNaturals DEF Velocities
<1>2. Aged(x.age) \in Nat /\ Aged(x.age) <= x.age + 1
  BY <1>1 DEF Aged
<1>3. OlderVelocity(x).age \in {x.age, Aged(x.age)}
  BY DEF OlderVelocity, Velocities
<1> QED BY <1>1, <1>2, <1>3 DEF OlderVelocity, Filler

\* A round that ends publishes what it collected, and the next is empty.
LEMMA EmptyRound ==
  ASSUME MergerTypeOK, MergerTypeOK', NEW collected, NEW come,
         EndRound(collected, come)
  PROVE  RoundIsShort'
<1>1. \A a \in Axes : outval'[a] = Filler
  BY DEF EndRound
<1>2. Ts \in Nat \ {0} /\ sinceAll' \in 0..(Ts + 1) /\ timer' \in 0..Ts
  BY ChainAssumptions DEF MergerTypeOK, AfterLongSilence
<1> QED BY <1>1, <1>2, NewValues DEF RoundIsShort, Waited

\* What a request leaves in the merger, or makes it publish.
LEMMA RequestKeepsAges ==
  ASSUME MergerTypeOK, MergerTypeOK', RoundIsShort, OutIsFresh, UNCHANGED stepped,
         NEW m \in Messages, \A a \in DOMAIN m.nu : m.nu[a] = Wish, onTopic(m)
  PROVE  RoundIsShort' /\ OutIsFresh'
<1> DEFINE collected == [a \in Axes |-> IF a \in DOMAIN m.nu THEN m.nu[a] ELSE outval[a]]
           come == arrived \cup {m.requester}
<1>1. \A a \in Axes : collected[a] = Wish \/ collected[a] = outval[a]
  OBVIOUS
<1>2. \A a \in Axes : Waited(collected[a])
  <2> SUFFICES ASSUME NEW a \in Axes PROVE Waited(collected[a])
    OBVIOUS
  <2>1. Waited(Wish)
    BY MergerValues, NewValues DEF Waited
  <2> QED BY <1>1, <2>1 DEF RoundIsShort
<1>3. CASE come = Known(m)
  <2>1. EndRound(collected, come)
    BY <1>3 DEF onTopic, AllArrived
  <2>2. \A a \in Axes : out'[a].age <= 2 * Ts
    <3> SUFFICES ASSUME NEW a \in Axes PROVE out'[a].age <= 2 * Ts
      OBVIOUS
    <3>1. out'[a] = collected[a] /\ Waited(out'[a])
      BY <1>2, <2>1 DEF EndRound
    <3>2. out'[a].age \in Nat
      BY <1>1, <3>1, NewValues, MergerValues
    <3> QED BY <3>1, <3>2, MergerValues DEF Waited
  <2>3. \A a \in Axes : out'[a].age \in Nat
    BY <1>1, <2>1, NewValues, MergerValues DEF EndRound
  <2>4. OutIsFresh'
    BY <2>2, <2>3, MergerValues DEF OutIsFresh
  <2> QED BY <2>1, <2>4, EmptyRound
<1>4. CASE come # Known(m)
  <2>1. outval' = collected /\ arrived' # {} /\ UNCHANGED <<out, sinceAll, timer>>
    BY <1>4 DEF onTopic
  <2> QED BY <1>2, <2>1 DEF RoundIsShort, OutIsFresh, Waited
<1> QED BY <1>3, <1>4

\* The timer leaves a round alone only while it is young.
LEMMA TimerKeepsAges ==
  ASSUME MergerTypeOK, MergerTypeOK', RoundIsShort, OutIsFresh, UNCHANGED stepped,
         checkArrived
  PROVE  RoundIsShort' /\ OutIsFresh'
<1>1. CASE EndRound(outval, arrived)
  <2>1. \A a \in Axes : out'[a] = outval[a] /\ out'[a].age \in Nat
    BY <1>1, MergerValues DEF EndRound
  <2>2. \A a \in Axes : out'[a].age <= 2 * Ts
    BY <2>1, MergerValues DEF RoundIsShort, Waited
  <2>3. OutIsFresh'
    BY <2>1, <2>2, MergerValues DEF OutIsFresh
  <2> QED BY <1>1, <2>3, EmptyRound
<1>2. CASE /\ sinceAll <= Ts \/ controllers = {}
           /\ UNCHANGED <<controllers, arrived, outval, out>>
  <2>1. OutIsFresh'
    BY <1>2 DEF OutIsFresh
  <2>2. UNCHANGED sinceAll /\ timer' = Ts
    BY DEF checkArrived
  <2>3. CASE sinceAll <= Ts
    BY <1>2, <2>1, <2>2, <2>3, MergerValues DEF RoundIsShort, Waited
  <2>4. CASE controllers = {}
    <3>1. \A a \in Axes : outval'[a] = Filler
      BY <1>2, <2>4, MergerValues DEF RoundIsShort
    <3> QED BY <2>1, <2>2, <3>1, NewValues, MergerValues DEF RoundIsShort, Waited
  <2> QED BY <1>2, <2>3, <2>4
<1> QED BY <1>1, <1>2 DEF checkArrived

\* With a tick every value grows older by one, and so does the round.
LEMMA TickKeepsAges ==
  ASSUME MergerTypeOK, RoundIsShort, OutIsFresh, Tick
  PROVE  RoundIsShort' /\ OutIsFresh'
<1>1. /\ timer > 0 /\ timer' = timer - 1 /\ arrived' = arrived
      /\ sinceAll' = IF sinceAll < Ts + 1 THEN sinceAll + 1 ELSE sinceAll
      /\ outval' = [a \in Axes |-> OlderVelocity(outval[a])]
      /\ out' = [a \in DOMAIN out |-> OlderVelocity(out[a])]
      /\ stepped /\ ~stepped'
  BY DEF Tick, MergerTick, AfterLongSilence
<1>2. RoundIsShort'
  <2> SUFFICES ASSUME NEW a \in Axes
               PROVE  Waited(outval[a])' /\ (outval'[a] = Filler \/ arrived' # {})
    BY DEF RoundIsShort
  <2>1. /\ outval'[a].age \in Nat /\ outval[a].age \in Nat
        /\ outval'[a].age <= outval[a].age + 1
        /\ outval[a] = Filler => outval'[a] = Filler
    BY <1>1, OlderByOne, MergerValues
  <2>2. Waited(outval[a]) /\ (outval[a] = Filler \/ arrived # {})
    BY DEF RoundIsShort
  <2>3. Waited(outval[a])'
    BY <1>1, <2>1, <2>2, MergerValues DEF Waited
  <2> QED BY <1>1, <2>1, <2>2, <2>3
<1>3. OutIsFresh'
  <2>1. CASE out = NoMessage
    BY <1>1, <2>1 DEF OutIsFresh, NoMessage
  <2>2. CASE out # NoMessage
    <3> SUFFICES ASSUME NEW a \in Axes PROVE out'[a].age <= 2 * Ts + 1
      BY <1>1 DEF OutIsFresh
    <3>1. out \in [Axes -> Velocities] /\ out[a].age <= 2 * Ts
      BY <1>1, <2>2, MergerValues DEF OutIsFresh
    <3>2. out'[a] = OlderVelocity(out[a])
      BY <1>1, <3>1
    <3> QED BY <3>1, <3>2, OlderByOne, MergerValues
  <2> QED BY <2>1, <2>2
<1> QED BY <1>2, <1>3

LEMMA MergerAgesStep ==
  /\ MergerTypeOK /\ MergerTypeOK' /\ ReferencesKnown /\ RoundIsShort /\ OutIsFresh
  /\ [Next]_vars
  => RoundIsShort' /\ OutIsFresh'
<1> SUFFICES ASSUME MergerTypeOK, MergerTypeOK', ReferencesKnown, RoundIsShort,
                    OutIsFresh, [Next]_vars
             PROVE  RoundIsShort' /\ OutIsFresh'
  OBVIOUS
<1>1. ASSUME UNCHANGED mergerVars,
             UNCHANGED stepped \/ out = NoMessage
      PROVE  RoundIsShort' /\ OutIsFresh'
  BY <1>1 DEF mergerVars, RoundIsShort, OutIsFresh, Waited
<1>2. ASSUME NEW c \in Controllers, Control(c) PROVE RoundIsShort' /\ OutIsFresh'
  <2>1. UNCHANGED stepped
    BY <1>2 DEF Control
  <2>2. CASE c \in Speaking
    <3>1. onTopic(ControllerStep(c, ref[c]))
      BY <1>2, <2>2 DEF Control
    <3>2. ref[c] \in Asked
      BY DEF ReferencesKnown
    <3> QED BY <2>1, <3>1, <3>2, RequestIsMessage, RequestKeepsAges
  <2>3. CASE c \notin Speaking
    BY <1>1, <1>2, <2>1, <2>3 DEF Control
  <2> QED BY <2>2, <2>3
<1>3. CASE MergerTimer
  BY <1>3, TimerKeepsAges DEF MergerTimer, chainVars
<1>4. CASE HearReference
  BY <1>4 DEF HearReference, Taken, RoundIsShort, OutIsFresh, Waited, chainVars
<1>5. CASE Step
  BY <1>1, <1>5 DEF Step
<1>6. CASE Tick
  BY <1>6, TickKeepsAges
<1>7. CASE Operator \/ HearEstimate
  BY <1>1, <1>7
     DEF Operator, HearEstimate, Operate, Enable, Reference, Configure, DisableAxes,
         Joystick, Navigation
<1>8. CASE UNCHANGED vars
  BY <1>1, <1>8 DEF vars, chainVars
<1> QED BY <1>2, <1>3, <1>4, <1>5, <1>6, <1>7, <1>8 DEF Next

LEMMA MergerAgesInit == Init => RoundIsShort /\ OutIsFresh
<1> SUFFICES ASSUME Init PROVE RoundIsShort /\ OutIsFresh
  OBVIOUS
<1>1. /\ \A a \in Axes : outval[a] = Filler
      /\ sinceAll = Ts + 1 /\ timer = Ts /\ out = NoMessage
  BY DEF Init, MergerInit, AfterLongSilence
<1> QED BY <1>1, ChainAssumptions, NewValues DEF RoundIsShort, OutIsFresh, Waited

LEMMA MergerAges == Spec => [](MergerTypeOK /\ RoundIsShort /\ OutIsFresh)
<1>1. Spec => []MergerTypeOK
  BY ChainImplementsMerger, MergerTyping, PTL
<1> QED BY <1>1, MergerAgesInit, MergerAgesStep, ReferencesInit, ReferencesStep, PTL DEF Spec

(***************************************************************************)
(* The velocity controller in the chain is the one of VelSpec: what it     *)
(* hears is no older than RefDelay.                                        *)
(***************************************************************************)
LEMMA VelRefined ==
  MergerTypeOK /\ OutIsFresh /\ [Next]_vars => [VelNext]_velVars
<1> SUFFICES ASSUME MergerTypeOK, OutIsFresh, [Next]_vars PROVE [VelNext]_velVars
  OBVIOUS
<1>1. CASE HearReference
  <2>1. out \in [Axes -> Velocities]
    BY <1>1, MergerValues DEF HearReference
  <2>2. \A a \in Axes : out[a].age \in Nat /\ out[a].age <= 2 * Ts + 1
    <3> SUFFICES ASSUME NEW a \in Axes PROVE out[a].age \in Nat /\ out[a].age <= 2 * Ts + 1
      OBVIOUS
    <3>1. out[a].age \in Nat /\ out[a].age <= 2 * Ts + (IF stepped THEN 0 ELSE 1)
      BY <1>1, <2>1, AgesAreNaturals DEF HearReference, OutIsFresh, Velocities
    <3> QED BY <1>1, <3>1 DEF HearReference
  <2>3. out \in References
    BY <2>1, <2>2, ChainAssumptions DEF References, Velocities
  <2> QED BY <1>1, <2>3 DEF HearReference, handleReference, VelNext
<1>2. CASE Operator
  <2>1. ASSUME NEW a \in Axes, NEW m \in {"disable", "manual", "control"}, Configure(a, m)
        PROVE  VelNext
    <3>1. [x \in {a} |-> m] \in [{a} -> Modes]
      BY DEF Modes
    <3>2. [x \in {a} |-> m] \in Configurations
      BY <3>1 DEF Configurations
    <3> QED BY <2>1, <3>2 DEF Configure, VelNext
  <2>2. CASE DisableAxes
    BY <2>2 DEF DisableAxes, VelNext
  <2>3. CASE Joystick
    BY <2>3 DEF Joystick, VelNext
  <2> QED BY <1>2, <2>1, <2>2, <2>3 DEF Operator, Enable, Reference, Navigation
<1>3. CASE HearEstimate
  BY <1>3 DEF HearEstimate, VelNext
<1>4. CASE Step
  BY <1>4 DEF Step, VelNext
<1>5. CASE Tick
  BY <1>5 DEF Tick, VelNext
<1>6. CASE UNCHANGED velVars
  BY <1>6
<1> QED
  BY <1>1, <1>2, <1>3, <1>4, <1>5, <1>6 DEF Next, Control, MergerTimer, vars

(***************************************************************************)
(* The chain keeps the assumption under which the velocity controller      *)
(* promises fresh commands: it implements VelSpec.                         *)
(***************************************************************************)
THEOREM ChainImplementsVelocityControl == Spec => VelocityControlAlone
<1>1. Init => VelInit
  BY DEF Init
<1> QED BY <1>1, MergerAges, VelRefined, PTL DEF Spec, VelSpec, VelocityControlAlone

(***************************************************************************)
(* So in the chain too the vehicle is never driven by an old command.      *)
(***************************************************************************)
THEOREM ChainFreshCommand == Spec => []FreshCommand
BY ChainImplementsVelocityControl, VelFreshCommand, PTL DEF VelocityControlAlone

(***************************************************************************)
(* The state of every process in the chain keeps its type.                 *)
(***************************************************************************)
SwitchesTyped ==
  /\ enable \subseteq Controllers /\ refOk \subseteq Controllers
  /\ ref \in [Controllers -> Asked]
  /\ estimate \subseteq Controllers \cup {"velcon"}

LEMMA SwitchesStep == SwitchesTyped /\ [Next]_vars => SwitchesTyped'
<1> SUFFICES ASSUME SwitchesTyped, [Next]_vars PROVE SwitchesTyped'
  OBVIOUS
<1> USE DEF SwitchesTyped
<1>1. ASSUME NEW c \in Controllers, NEW on \in BOOLEAN, Enable(c, on) PROVE SwitchesTyped'
  BY <1>1 DEF Enable, Operate, onEnableControl
<1>2. ASSUME NEW c \in Controllers, NEW asked \in Asked, Reference(c, asked)
      PROVE  SwitchesTyped'
  BY <1>2 DEF Reference, Operate, onRef
<1>3. ASSUME NEW c \in Controllers, Control(c) PROVE SwitchesTyped'
  BY <1>3 DEF Control, onEstimate
<1>4. CASE HearEstimate
  BY <1>4 DEF HearEstimate, hlVars
<1>5. CASE Tick
  BY <1>5 DEF Tick, hlVars, Recipients
<1>6. CASE UNCHANGED <<hlVars, estimate>>
  BY <1>6 DEF hlVars
<1> QED
  BY <1>1, <1>2, <1>3, <1>4, <1>5, <1>6
     DEF Next, Operator, Operate, Configure, DisableAxes, Joystick, Navigation, MergerTimer,
         HearReference, Step, vars, chainVars

THEOREM ChainTyping == Spec => []TypeOK
<1>1. Init => SwitchesTyped
  BY DEF Init, SwitchesTyped, Asked, Recipients
<1>2. SwitchesTyped /\ MergerTypeOK /\ VelTypeOK => TypeOK
  BY DEF SwitchesTyped, TypeOK
<1>3. Spec => []MergerTypeOK
  BY ChainImplementsMerger, MergerTyping, PTL
<1>4. Spec => []VelTypeOK
  BY ChainImplementsVelocityControl, VelTyping, PTL DEF VelocityControlAlone
<1> QED BY <1>1, <1>2, <1>3, <1>4, SwitchesStep, PTL DEF Spec

(***************************************************************************)
(* Ticks until the timer has certainly ended the round, if no request      *)
(* does: it finds at its next run, or the one after, that more than Ts     *)
(* passed since the last complete round.                                   *)
(***************************************************************************)
RoundEnd(since, ticks) ==
  IF since + ticks > Ts THEN ticks
  ELSE IF since + ticks > 0 THEN ticks + Ts ELSE 2 * Ts
NextRoundEnd == RoundEnd(sinceAll, timer)

LEMMA RoundEndRange ==
  ASSUME NEW since \in 0..(Ts + 1), NEW ticks \in 0..Ts
  PROVE  RoundEnd(since, ticks) \in 0..(2 * Ts)
BY ChainAssumptions DEF RoundEnd

LEMMA RoundEndBounds ==
  /\ MergerTypeOK => NextRoundEnd \in 0..(2 * Ts)
  /\ MergerTypeOK' => NextRoundEnd' \in 0..(2 * Ts)
<1>1. MergerTypeOK => sinceAll \in 0..(Ts + 1) /\ timer \in 0..Ts
  BY DEF MergerTypeOK, AfterLongSilence
<1>2. MergerTypeOK' => sinceAll' \in 0..(Ts + 1) /\ timer' \in 0..Ts
  BY DEF MergerTypeOK, AfterLongSilence
<1> QED BY <1>1, <1>2, RoundEndRange DEF NextRoundEnd

LEMMA RoundEndTick ==
  ASSUME MergerTypeOK, MergerTick
  PROVE  NextRoundEnd > 0 /\ NextRoundEnd' = NextRoundEnd - 1
<1>1. /\ timer > 0 /\ timer' = timer - 1
      /\ sinceAll' = IF sinceAll < Ts + 1 THEN sinceAll + 1 ELSE sinceAll
  BY DEF MergerTick, AfterLongSilence
<1> QED BY <1>1, MergerValues DEF NextRoundEnd, RoundEnd

\* The timer that does not end the round brings its end no further away.
LEMMA RoundEndTimer ==
  ASSUME MergerTypeOK, checkArrived, controllers # {}
  PROVE  \/ /\ sinceAll >= Ts /\ EndRound(outval, arrived)
            /\ NextRoundEnd' = Ts
         \/ /\ UNCHANGED <<controllers, arrived, outval, out>>
            /\ NextRoundEnd' = NextRoundEnd
<1>1. timer = 0 /\ timer' = Ts /\ sinceAll' = sinceAll
  BY DEF checkArrived
<1>2. CASE sinceAll >= Ts /\ EndRound(outval, arrived)
  BY <1>1, <1>2, MergerValues DEF NextRoundEnd, RoundEnd
<1>3. CASE sinceAll <= Ts /\ UNCHANGED <<controllers, arrived, outval, out>>
  <2>1. NextRoundEnd' = NextRoundEnd
    BY <1>1, <1>3, MergerValues DEF NextRoundEnd, RoundEnd
  <2> QED BY <1>3, <2>1
<1> QED BY <1>2, <1>3 DEF checkArrived

(***************************************************************************)
(* Silence.  Once the last request has come, the merger ends two rounds at *)
(* most: the first with what has come, the second because those who have   *)
(* not come since are still known.                                         *)
(***************************************************************************)
RoundsLeft == NextRoundEnd + (IF arrived = {} THEN 0 ELSE Ts)

MergerFallsSilent ==
  /\ controllers # {} => quiet + RoundsLeft <= 3 * Ts
  /\ out # NoMessage => quiet <= 3 * Ts + (IF stepped THEN 0 ELSE 1)

\* Each of the rounds restarts the timeout of the velocity controller.
ReferencesStop == quiet <= refAge + 3 * Ts + 1

\* Then a step of the velocity controller suspends the axes.
VehicleStops ==
  (DoSafetyTest /\ (quiet > SilenceBound \/ (quiet = SilenceBound /\ stepped))) =>
    \A a \in Axes : output[a].by # "control"

Quiet ==
  /\ quiet \in 0..(SilenceBound + 1)
  /\ MergerFallsSilent
  /\ ReferencesStop
  /\ VehicleStops

LEMMA QuietInit == Init => Quiet
<1> SUFFICES ASSUME Init PROVE Quiet
  OBVIOUS
<1>1. /\ quiet = 0 /\ controllers = {} /\ out = NoMessage /\ refAge = 0
  BY DEF Init, MergerInit, VelInit
<1> QED BY <1>1, ChainAssumptions
        DEF Quiet, MergerFallsSilent, ReferencesStop, VehicleStops, SilenceBound

\* A request begins the silence anew.
LEMMA QuietRequest ==
  ASSUME Quiet, MergerTypeOK', VelTypeOK, quiet' = 0, UNCHANGED velVars
  PROVE  Quiet'
<1>1. NextRoundEnd' \in 0..(2 * Ts)
  BY RoundEndBounds
<1>2. refAge \in Nat /\ UNCHANGED <<refAge, output>>
  BY AgesAreNaturals DEF VelTypeOK, velVars
<1>3. RoundsLeft' <= 3 * Ts /\ RoundsLeft' \in Nat
  <2> DEFINE n == NextRoundEnd'
  <2>1. n \in Nat /\ n <= 2 * Ts
    BY <1>1, ChainAssumptions
  <2>2. RoundsLeft' = n + (IF arrived' = {} THEN 0 ELSE Ts)
    BY DEF RoundsLeft
  <2> HIDE DEF n
  <2> QED BY <2>1, <2>2, ChainAssumptions
<1>4. MergerFallsSilent'
  <2>1. quiet' + RoundsLeft' <= 3 * Ts
    BY <1>3
  <2>2. quiet' <= 3 * Ts /\ quiet' <= 3 * Ts + 1
    BY ChainAssumptions
  <2>3. CASE stepped'
    BY <2>1, <2>2, <2>3, ChainAssumptions DEF MergerFallsSilent
  <2>4. CASE ~stepped'
    BY <2>1, <2>2, <2>4, ChainAssumptions DEF MergerFallsSilent
  <2> QED BY <2>3, <2>4
<1>5. ReferencesStop' /\ VehicleStops' /\ quiet' \in 0..(SilenceBound + 1)
  BY <1>2, ChainAssumptions DEF ReferencesStop, VehicleStops, SilenceBound
<1> QED BY <1>4, <1>5 DEF Quiet

LEMMA QuietTimer ==
  ASSUME Quiet, MergerTypeOK, checkArrived, UNCHANGED <<velVars, chainVars>>
  PROVE  Quiet'
<1>1. UNCHANGED <<quiet, stepped, refAge, output>>
  BY DEF velVars, chainVars
<1>2. NextRoundEnd \in 0..(2 * Ts) /\ quiet \in Nat
  BY RoundEndBounds, ChainAssumptions DEF Quiet, SilenceBound
<1>3. MergerFallsSilent'
  <2>1. CASE controllers = {}
    BY <1>1, <2>1 DEF checkArrived, Quiet, MergerFallsSilent
  <2>2. CASE controllers # {} /\ EndRound(outval, arrived) /\ NextRoundEnd' = Ts
    <3>1. quiet + NextRoundEnd + (IF arrived = {} THEN 0 ELSE Ts) <= 3 * Ts
      BY <1>2, <2>2, ChainAssumptions DEF Quiet, MergerFallsSilent, RoundsLeft
    <3>2. controllers' = arrived /\ arrived' = {}
      BY <2>2 DEF EndRound
    <3>3. controllers' # {} => quiet' + RoundsLeft' <= 3 * Ts
      BY <1>1, <1>2, <2>2, <3>1, <3>2, ChainAssumptions DEF RoundsLeft
    <3>4. out' # NoMessage => quiet' <= 3 * Ts + (IF stepped' THEN 0 ELSE 1)
      BY <1>1, <1>2, <3>1, ChainAssumptions
    <3> QED BY <3>3, <3>4 DEF MergerFallsSilent
  <2>3. CASE UNCHANGED <<controllers, arrived, outval, out>> /\ NextRoundEnd' = NextRoundEnd
    BY <1>1, <2>3 DEF Quiet, MergerFallsSilent, RoundsLeft
  <2> QED BY <2>1, <2>2, <2>3, RoundEndTimer
<1>4. ReferencesStop' /\ VehicleStops' /\ (quiet \in 0..(SilenceBound + 1))'
  BY <1>1 DEF Quiet, ReferencesStop, VehicleStops, SilenceBound
<1> QED BY <1>3, <1>4 DEF Quiet

\* An axis whose reference has timed out is not controlled.
LEMMA StepSuspends ==
  ASSUME VelTypeOK, step, DoSafetyTest, refAge > Timeout, NEW a \in Axes
  PROVE  output'[a].by # "control"
<1>1. suspended' = {b \in Axes : TimedOut(b)}
  BY DEF step
<1>2. output'[a] = IF a \in suspended' THEN NoForce ELSE AxisForce(a)
  BY DEF step
<1>3. CASE mode[a] = "control"
  BY <1>1, <1>2, <1>3 DEF TimedOut, NoForce
<1>4. CASE mode[a] # "control"
  BY <1>2, <1>4 DEF AxisForce, NoForce
<1> QED BY <1>3, <1>4

LEMMA QuietStep ==
  MergerTypeOK /\ MergerTypeOK' /\ VelTypeOK /\ Quiet /\ [Next]_vars => Quiet'
<1> SUFFICES ASSUME MergerTypeOK, MergerTypeOK', VelTypeOK, Quiet, [Next]_vars
             PROVE  Quiet'
  OBVIOUS
<1>t. /\ refAge \in Nat /\ quiet \in Nat /\ NextRoundEnd \in 0..(2 * Ts)
      /\ AgeCap \in Nat /\ AgeCap >= Timeout + 2 /\ SilenceBound = 3 * Ts + Timeout + 2
  BY AgesAreNaturals, ChainAssumptions, RoundEndBounds DEF VelTypeOK, Quiet, SilenceBound, AgeCap
<1>1. CASE UNCHANGED <<mergerVars, quiet, stepped, refAge, output>>
  BY <1>1 DEF Quiet, MergerFallsSilent, RoundsLeft, NextRoundEnd, ReferencesStop, VehicleStops,
              mergerVars
<1>2. ASSUME NEW c \in Controllers, Control(c) PROVE Quiet'
  <2>1. CASE c \in Speaking
    BY <1>2, <2>1, QuietRequest DEF Control
  <2>2. CASE c \notin Speaking
    BY <1>1, <1>2, <2>2 DEF Control, velVars
  <2> QED BY <2>1, <2>2
<1>3. CASE MergerTimer
  BY <1>3, QuietTimer DEF MergerTimer
<1>4. CASE HearReference
  <2>1. out' = NoMessage /\ refAge' = 0
        /\ UNCHANGED <<controllers, arrived, sinceAll, timer, quiet, stepped, output>>
    BY <1>4 DEF HearReference, Taken, handleReference, chainVars
  <2>2. quiet <= 3 * Ts + 1
    BY <1>4 DEF HearReference, Quiet, MergerFallsSilent
  <2>3. MergerFallsSilent'
    BY <2>1 DEF Quiet, MergerFallsSilent, RoundsLeft, NextRoundEnd
  <2> QED BY <1>t, <2>1, <2>2, <2>3, ChainAssumptions DEF Quiet, ReferencesStop, VehicleStops
<1>5. CASE Step
  <2>1. /\ stepped' /\ ~stepped /\ out = NoMessage
        /\ UNCHANGED <<mergerVars, quiet, refAge>> /\ step
    BY <1>5 DEF Step, step
  <2>2. MergerFallsSilent'
    BY <2>1 DEF Quiet, MergerFallsSilent, RoundsLeft, NextRoundEnd, mergerVars
  <2>3. VehicleStops'
    <3> SUFFICES ASSUME DoSafetyTest, quiet' > SilenceBound \/ quiet' = SilenceBound,
                        NEW a \in Axes
                 PROVE  output'[a].by # "control"
      BY DEF VehicleStops, SilenceBound
    <3>1. refAge > Timeout
      BY <1>t, <2>1, ChainAssumptions DEF Quiet, ReferencesStop
    <3> QED BY <2>1, <3>1, StepSuspends
  <2> QED BY <2>1, <2>2, <2>3 DEF Quiet, ReferencesStop, SilenceBound
<1>6. CASE Tick
  <2>1. /\ stepped /\ ~stepped' /\ quiet' = Up(quiet, SilenceBound)
        /\ refAge' = Aged(refAge) /\ UNCHANGED <<output, controllers, arrived>>
        /\ out' = [a \in DOMAIN out |-> OlderVelocity(out[a])]
        /\ MergerTick
    BY <1>6 DEF Tick, MergerTick, VelTick
  <2>2. /\ quiet' <= quiet + 1 /\ quiet' \in 0..(SilenceBound + 1)
        /\ quiet' = quiet + 1 \/ (quiet > SilenceBound /\ quiet' = quiet)
    BY <1>t, <2>1, ChainAssumptions DEF Up, Quiet, SilenceBound
  <2>3. NextRoundEnd' = NextRoundEnd - 1
    BY <2>1, RoundEndTick
  <2>4. controllers' # {} => quiet' + RoundsLeft' <= 3 * Ts
    <3>1. controllers # {} => quiet + NextRoundEnd + (IF arrived = {} THEN 0 ELSE Ts) <= 3 * Ts
      BY <1>t, ChainAssumptions DEF Quiet, MergerFallsSilent, RoundsLeft
    <3> QED BY <1>t, <2>1, <2>2, <2>3, <3>1, ChainAssumptions DEF RoundsLeft
  <2>5. out' # NoMessage => quiet' <= 3 * Ts + 1
    <3>1. out = NoMessage => out' = NoMessage
      BY <2>1 DEF NoMessage
    <3> QED BY <1>t, <2>1, <2>2, <3>1, ChainAssumptions DEF Quiet, MergerFallsSilent
  <2>6. MergerFallsSilent'
    BY <2>1, <2>4, <2>5, <2>2, ChainAssumptions DEF MergerFallsSilent
  <2>7. ReferencesStop'
    BY <1>t, <2>1, <2>2, ChainAssumptions DEF Quiet, ReferencesStop, Aged
  <2>8. VehicleStops'
    <3>1. quiet' > SilenceBound => quiet > SilenceBound \/ (quiet = SilenceBound /\ stepped)
      BY <1>t, <2>1, <2>2, ChainAssumptions
    <3> QED BY <2>1, <3>1, <1>t, <2>2, ChainAssumptions DEF Quiet, VehicleStops, SilenceBound
  <2> QED BY <2>2, <2>6, <2>7, <2>8 DEF Quiet, SilenceBound
<1>7. CASE Operator \/ HearEstimate \/ UNCHANGED vars
  BY <1>1, <1>7
     DEF Operator, HearEstimate, Operate, Enable, Reference, Configure, DisableAxes,
         Joystick, Navigation, vars, velVars, chainVars, handleEstimates, handleManual,
         handleServerConfig, handleEnableControl
<1> QED BY <1>2, <1>3, <1>4, <1>5, <1>6, <1>7 DEF Next

(***************************************************************************)
(* The vehicle stops when its controllers do: three sampling times of the  *)
(* merger and the timeout after the last request no axis is driven by the  *)
(* controller any more.                                                    *)
(***************************************************************************)
THEOREM ChainSilenceStops == Spec => []SilenceStops
<1>1. Quiet => SilenceStops
  BY DEF Quiet, VehicleStops, SilenceStops
<1>2. Spec => []MergerTypeOK
  BY ChainImplementsMerger, MergerTyping, PTL
<1>3. Spec => []VelTypeOK
  BY ChainImplementsVelocityControl, VelTyping, PTL DEF VelocityControlAlone
<1> QED BY <1>1, <1>2, <1>3, QuietInit, QuietStep, PTL DEF Spec

(***************************************************************************)
(* A controller that is left alone.  Every request of it is in the round   *)
(* of the merger when the round ends, because the timer waits for longer   *)
(* than the controller, so that what the merger publishes drives its axes; *)
(* and the rounds are short enough for the velocity controller.            *)
(***************************************************************************)
Name(c) == ControllerStep(c, "value").requester

Alone(c) ==
  /\ c \in Speaking /\ ref[c] = "value"
  /\ \A a \in Driven(c) : mode[a] = "control"
  /\ "velcon" \in estimate \/ estAge = 0

\* Whether the merger has heard it since it is left alone.
IsHeard(c) == steady[c] > 1 \/ c \notin estimate

InRound(c) ==
  /\ Name(c) \in controllers
  /\ Name(c) \in arrived => \A a \in Driven(c) : outval[a].own
  /\ heard[Name(c)] <= 1 /\ (c \notin estimate => heard[Name(c)] = 0)

\* What the velocity controller goes by is what was asked for its axes.
Served(c) ==
  \/ out # NoMessage /\ \A a \in Driven(c) : out[a].own
  \/ /\ out = NoMessage /\ \A a \in Driven(c) : desired[a].own
     /\ refAge + NextRoundEnd <= 2 * Ts

DrivenAsAsked(c) == \A a \in Driven(c) : output[a].by = "control" /\ output[a].own

KeepsItsAxes(c) ==
  steady[c] > 0 =>
    /\ Alone(c)
    /\ IsHeard(c) => /\ InRound(c)
                     /\ Served(c) \/ steady[c] + NextRoundEnd < SteadyBound
    /\ steady[c] > SteadyBound => DrivenAsAsked(c)
    /\ (steady[c] = SteadyBound /\ stepped) => DrivenAsAsked(c)

SteadyTyped == steady \in [Controllers -> 0..(SteadyBound + 1)]

LEMMA SteadyStep == SteadyTyped /\ [Next]_vars => SteadyTyped'
<1> SUFFICES ASSUME SteadyTyped, [Next]_vars PROVE SteadyTyped'
  OBVIOUS
<1>b. SteadyBound \in Nat
  BY ChainAssumptions DEF SteadyBound
<1>c. SteadyTyped' <=> steady' \in [Controllers -> 0..(SteadyBound + 1)]
  BY DEF SteadyTyped, SteadyBound
<1>1. ASSUME NEW disturbed, Operate(disturbed) PROVE SteadyTyped'
  <2>1. \A c \in Controllers : steady[c] \in 0..(SteadyBound + 1) /\ 0 \in 0..(SteadyBound + 1)
    BY <1>b DEF SteadyTyped
  <2> QED BY <1>1, <1>c, <2>1 DEF Operate
<1>2. CASE Tick
  <2>1. \A c \in Controllers : Up(steady[c], SteadyBound) \in 0..(SteadyBound + 1)
    BY <1>b DEF SteadyTyped, Up
  <2>2. \A c \in Controllers : steady'[c] \in {0, Up(steady[c], SteadyBound)}
    BY <1>2 DEF Tick
  <2>3. DOMAIN steady' = Controllers /\ steady' = [c \in Controllers |-> steady'[c]]
    BY <1>2 DEF Tick
  <2> QED BY <1>b, <1>c, <2>1, <2>2, <2>3
<1>3. CASE UNCHANGED steady
  BY <1>3, <1>c DEF SteadyTyped
<1> QED
  BY <1>1, <1>2, <1>3
     DEF Next, Operator, Enable, Reference, Configure, DisableAxes, Joystick, Navigation,
         Control, MergerTimer, HearReference, HearEstimate, Step, vars, chainVars

LEMMA OwnRequest ==
  ASSUME NEW c \in Controllers
  PROVE  /\ Driven(c) \subseteq Axes /\ Driven(c) # {} /\ Name(c) \in Requesters
         /\ \A a \in Driven(c) : ControllerStep(c, "value").nu[a] = Wish
<1>1. "value" \in Asked
  BY DEF Asked
<1>2. Driven(c) \subseteq Axes /\ Name(c) \in Requesters
  BY <1>1, ChainNames DEF Driven, Name
<1>3. \A a \in Driven(c) : ControllerStep(c, "value").nu[a] = Wish
  BY <1>1, RequestIsMessage DEF Driven
<1>4. Driven(c) # {}
  BY ControllersAreKnown
     DEF Driven, ControllerStep, HDGStep, ALTStep, DepthStep, PitchStep, FADPStep, Request
<1> QED BY <1>2, <1>3, <1>4

\* No other controller speaks in its name.
LEMMA NamesDiffer ==
  ASSUME NEW c \in Controllers, NEW d \in Controllers, c # d, NEW asked \in Asked
  PROVE  ControllerStep(d, asked).requester # Name(c)
<1> DEFINE Speaker(n) == IF n = "hdg_controller" THEN "hdg"
                         ELSE IF n = "depth_controller" THEN "depth"
                         ELSE IF n = "pitch_controller" THEN "pitch"
                         ELSE IF n = "fadp_controller" THEN "fadp" ELSE "alt"
           Five == {"hdg", "alt", "depth", "pitch", "fadp"}
<1>1. ASSUME NEW x \in Five, NEW y \in Asked PROVE Speaker(ControllerStep(x, y).requester) = x
  BY DEF ControllerStep, HDGStep, ALTStep, DepthStep, PitchStep, FADPStep, Request
<1>2. c \in Five /\ d \in Five /\ "value" \in Asked
  BY ControllersAreKnown DEF Asked
<1> HIDE DEF Speaker, Five
<1> QED BY <1>1, <1>2 DEF Name

\* A message for axes of the vehicle is no empty one.
LEMMA PublishedIsMessage ==
  ASSUME NEW c \in Controllers, NEW f, DOMAIN f = Axes
  PROVE  f # NoMessage
BY OwnRequest DEF NoMessage

Slow == VelocityControlIsPatient /\ MergerWaits

\* In simulated time no axis is ever suspended.
NotTested == ~DoSafetyTest => suspended = {}

\* What the steps below start from.
Before ==
  /\ MergerTypeOK /\ VelTypeOK /\ SwitchesTyped /\ MissingIsSilent /\ SteadyTyped
  /\ NotTested
  /\ \A c \in Controllers : KeepsItsAxes(c)
  /\ MergerTypeOK' /\ SteadyTyped'

LEMMA SteadyBefore ==
  ASSUME Before, NEW c \in Controllers, steady[c] > 0
  PROVE  /\ steady[c] \in Nat /\ steady[c] <= SteadyBound + 1 /\ SteadyBound = 2 * Ts + 2
         /\ NextRoundEnd \in 0..(2 * Ts) /\ refAge \in Nat /\ Ts \in Nat /\ Ts >= 1
         /\ Alone(c)
         /\ IsHeard(c) => InRound(c) /\ (Served(c) \/ steady[c] + NextRoundEnd < SteadyBound)
         /\ steady[c] > SteadyBound => DrivenAsAsked(c)
         /\ (steady[c] = SteadyBound /\ stepped) => DrivenAsAsked(c)
<1>1. KeepsItsAxes(c)
  BY DEF Before
<1>2. SteadyBound = 2 * Ts + 2 /\ Ts \in Nat /\ Ts >= 1
  BY ChainAssumptions DEF SteadyBound
<1>3. steady[c] \in 0..(SteadyBound + 1)
  BY DEF Before, SteadyTyped
<1>4. NextRoundEnd \in 0..(2 * Ts) /\ refAge \in Nat
  BY RoundEndBounds, AgesAreNaturals DEF Before, VelTypeOK
<1> QED BY <1>1, <1>2, <1>3, <1>4 DEF KeepsItsAxes

\* What happens elsewhere.
LEMMA ElsewhereKeeps ==
  ASSUME Before, NEW c \in Controllers,
         UNCHANGED <<mergerVars, desired, refAge, output, stepped>>,
         steady'[c] = steady[c],
         Alone(c) => Alone(c)', c \in estimate' <=> c \in estimate
  PROVE  KeepsItsAxes(c)'
<1> SUFFICES ASSUME steady[c] > 0 PROVE KeepsItsAxes(c)'
  BY DEF KeepsItsAxes
<1>1. Alone(c)'
  BY SteadyBefore
<1>2. NextRoundEnd' = NextRoundEnd
  BY DEF NextRoundEnd, mergerVars
<1>3. IsHeard(c)' <=> IsHeard(c)
  BY DEF IsHeard
<1>4. (InRound(c) => InRound(c)') /\ (Served(c) => Served(c)')
  BY <1>2 DEF InRound, Served, mergerVars
<1>5. DrivenAsAsked(c) => DrivenAsAsked(c)'
  BY DEF DrivenAsAsked
<1> QED BY <1>1, <1>2, <1>3, <1>4, <1>5, SteadyBefore DEF KeepsItsAxes, SteadyBound

LEMMA OperatorKeepsAxes ==
  ASSUME Before, Operator, NEW c \in Controllers
  PROVE  KeepsItsAxes(c)'
<1>1. CASE steady'[c] = 0
  BY <1>1 DEF KeepsItsAxes
<1>2. ASSUME NEW disturbed, Operate(disturbed), c \notin disturbed
      PROVE  /\ steady'[c] = steady[c] /\ UNCHANGED <<estimate, stepped>>
  BY <1>2 DEF Operate
<1>3. ASSUME NEW disturbed, Operate(disturbed), c \in disturbed
      PROVE  KeepsItsAxes(c)'
  BY <1>1, <1>3 DEF Operate
<1>4. ASSUME NEW d \in Controllers, NEW on \in BOOLEAN, Enable(d, on) PROVE KeepsItsAxes(c)'
  <2>1. CASE c = d
    BY <1>3, <1>4, <2>1 DEF Enable
  <2>2. CASE c # d
    <3>1. steady'[c] = steady[c] /\ UNCHANGED <<estimate, stepped, mergerVars, velVars>>
      BY <1>2, <1>4, <2>2 DEF Enable
    <3>2. c \in enable => c \in enable'
      BY <1>4, <2>2 DEF Enable, onEnableControl
    <3>3. UNCHANGED <<refOk, ref>>
      BY <1>4 DEF Enable, onEnableControl
    <3>4. Alone(c) => Alone(c)'
      BY <3>1, <3>2, <3>3 DEF Alone, Speaking, velVars
    <3> QED BY <3>1, <3>4, ElsewhereKeeps DEF velVars
  <2> QED BY <2>1, <2>2
<1>5. ASSUME NEW d \in Controllers, NEW asked \in Asked, Reference(d, asked)
      PROVE  KeepsItsAxes(c)'
  <2>1. CASE c = d
    BY <1>3, <1>5, <2>1 DEF Reference
  <2>2. CASE c # d
    <3>1. steady'[c] = steady[c] /\ UNCHANGED <<estimate, stepped, mergerVars, velVars>>
      BY <1>2, <1>5, <2>2 DEF Reference
    <3>2. enable' = enable /\ (c \in refOk => c \in refOk') /\ ref'[c] = ref[c]
      BY <1>5, <2>2 DEF Reference, onRef, Before, SwitchesTyped
    <3>3. Alone(c) => Alone(c)'
      BY <3>1, <3>2 DEF Alone, Speaking, velVars
    <3> QED BY <3>1, <3>3, ElsewhereKeeps DEF velVars
  <2> QED BY <2>1, <2>2
<1>6. ASSUME NEW b \in Axes, NEW m \in {"disable", "manual", "control"}, Configure(b, m)
      PROVE  KeepsItsAxes(c)'
  BY <1>3, <1>6 DEF Configure
<1>7. CASE DisableAxes
  BY <1>3, <1>7 DEF DisableAxes
<1>8. CASE Joystick
  <2>1. steady'[c] = steady[c] /\ UNCHANGED <<estimate, stepped, hlVars, mergerVars>>
    BY <1>2, <1>8 DEF Joystick
  <2>2. UNCHANGED <<mode, desired, output, refAge, estAge>>
    BY <1>8 DEF Joystick, handleManual
  <2>3. Alone(c) => Alone(c)'
    BY <2>1, <2>2 DEF Alone, Speaking, hlVars
  <2> QED BY <2>1, <2>2, <2>3, ElsewhereKeeps
<1>9. CASE Navigation
  <2>1. UNCHANGED <<steady, estimate, stepped, hlVars, mergerVars, velVars>>
    BY <1>9 DEF Navigation
  <2>2. Alone(c) => Alone(c)'
    BY <2>1 DEF Alone, Speaking, hlVars, velVars
  <2> QED BY <2>1, <2>2, ElsewhereKeeps DEF velVars
<1> QED BY <1>4, <1>5, <1>6, <1>7, <1>8, <1>9 DEF Operator

\* A request leaves what the round has for the axes of another controller,
\* or publishes it.
LEMMA RequestOfOther ==
  ASSUME Before, NEW c \in Controllers, InRound(c), NEW m \in Messages,
         \A a \in DOMAIN m.nu : m.nu[a] = Wish, m.requester # Name(c), onTopic(m),
         c \in estimate' <=> c \in estimate
  PROVE  /\ InRound(c)'
         /\ \/ out' # NoMessage /\ \A a \in Driven(c) : out'[a].own
            \/ UNCHANGED <<out, sinceAll, timer>>
<1> DEFINE collected == [a \in Axes |-> IF a \in DOMAIN m.nu THEN m.nu[a] ELSE outval[a]]
           come == arrived \cup {m.requester}
<1>1. /\ heard'[Name(c)] = heard[Name(c)] /\ heard[Name(c)] \in Nat
      /\ Name(c) \in Requesters /\ timer' = timer
  BY OwnRequest DEF onTopic, Before, MergerTypeOK
<1>2. ASSUME Name(c) \in arrived, NEW a \in Driven(c) PROVE collected[a].own
  <2>1. a \in Axes /\ outval[a].own
    BY <1>2, OwnRequest DEF InRound
  <2> QED BY <2>1 DEF Wish
<1>3. CASE come = Known(m)
  <2>1. EndRound(collected, come)
    BY <1>3 DEF onTopic, AllArrived
  <2>2. Name(c) \in come /\ Name(c) \in arrived
    BY <1>3 DEF Known, InRound
  <2>3. out' = collected /\ controllers' = come /\ arrived' = {}
    BY <2>1 DEF EndRound
  <2>4. out' # NoMessage /\ \A a \in Driven(c) : out'[a].own
    BY <1>2, <2>2, <2>3, PublishedIsMessage
  <2>5. InRound(c)'
    BY <1>1, <2>2, <2>3 DEF InRound
  <2> QED BY <2>4, <2>5
<1>4. CASE come # Known(m)
  <2>1. /\ outval' = collected /\ controllers' = Known(m) /\ arrived' = come
        /\ UNCHANGED <<out, sinceAll>>
    BY <1>4 DEF onTopic
  <2>2. Name(c) \in controllers' /\ (Name(c) \in arrived' => Name(c) \in arrived)
    BY <2>1 DEF Known, InRound
  <2>3. InRound(c)'
    BY <1>1, <1>2, <2>1, <2>2 DEF InRound
  <2> QED BY <1>1, <2>1, <2>3
<1> QED BY <1>3, <1>4

\* So does its own request.
LEMMA RequestOfItsOwn ==
  ASSUME Before, NEW c \in Controllers, onTopic(ControllerStep(c, "value"))
  PROVE  /\ Name(c) \in controllers' /\ heard'[Name(c)] = 0
         /\ Name(c) \in arrived' => \A a \in Driven(c) : outval'[a].own
         /\ \/ out' # NoMessage /\ \A a \in Driven(c) : out'[a].own
            \/ UNCHANGED <<out, sinceAll, timer>>
<1> DEFINE m == ControllerStep(c, "value")
           collected == [a \in Axes |-> IF a \in DOMAIN m.nu THEN m.nu[a] ELSE outval[a]]
           come == arrived \cup {m.requester}
<1>1. m.requester = Name(c) /\ Name(c) \in Requesters
  BY OwnRequest DEF Name
<1>2. \A a \in Driven(c) : collected[a].own
  <2>1. \A a \in Driven(c) : a \in Axes /\ a \in DOMAIN m.nu /\ m.nu[a] = Wish
    BY OwnRequest DEF Driven
  <2> QED BY <2>1 DEF Wish
<1> HIDE DEF m
<1>3. /\ heard' = [heard EXCEPT ![m.requester] = 0] /\ timer' = timer
      /\ IF come = Known(m) THEN AllArrived(collected, come)
         ELSE /\ outval' = collected /\ controllers' = Known(m) /\ arrived' = come
              /\ UNCHANGED <<out, sinceAll>>
  BY DEF onTopic, m
<1>4. heard'[Name(c)] = 0
  BY <1>1, <1>3 DEF Before, MergerTypeOK
<1>5. CASE come = Known(m)
  <2>1. out' = collected /\ controllers' = come /\ arrived' = {}
    BY <1>3, <1>5 DEF AllArrived, EndRound
  <2>2. out' # NoMessage
    BY <2>1, PublishedIsMessage
  <2> QED BY <1>1, <1>2, <1>4, <2>1, <2>2
<1>6. CASE come # Known(m)
  BY <1>1, <1>2, <1>3, <1>4, <1>6 DEF Known
<1> QED BY <1>5, <1>6

LEMMA ControlKeepsAxes ==
  ASSUME Before, NEW d \in Controllers, Control(d), NEW c \in Controllers
  PROVE  KeepsItsAxes(c)'
<1> SUFFICES ASSUME steady'[c] > 0 PROVE KeepsItsAxes(c)'
  BY DEF KeepsItsAxes
<1>1. /\ d \in estimate /\ estimate' = estimate \ {d} /\ steady' = steady
      /\ UNCHANGED <<velVars, stepped, enable, ref>>
      /\ refOk' = IF d \in enable THEN refOk ELSE refOk \ {d}
      /\ IF d \in Speaking THEN onTopic(ControllerStep(d, ref[d])) ELSE UNCHANGED mergerVars
  BY DEF Control, onEstimate
<1>2. UNCHANGED <<mode, desired, output, refAge, estAge>>
  BY <1>1 DEF velVars
<1>3. steady[c] > 0 /\ Alone(c) /\ "velcon" \notin Controllers
  BY <1>1, SteadyBefore, ControllersAreKnown
<1>4. Alone(c)'
  BY <1>1, <1>2, <1>3 DEF Alone, Speaking
<1>5. DrivenAsAsked(c) => DrivenAsAsked(c)'
  BY <1>2 DEF DrivenAsAsked
<1>6. ASSUME UNCHANGED <<out, sinceAll, timer>>
      PROVE  NextRoundEnd' = NextRoundEnd /\ (Served(c) => Served(c)')
  BY <1>2, <1>6 DEF NextRoundEnd, Served
<1>7. ASSUME out' # NoMessage, \A a \in Driven(c) : out'[a].own PROVE Served(c)'
  BY <1>7 DEF Served
<1>8. CASE d # c
  <2>1. c \in estimate' <=> c \in estimate
    BY <1>1, <1>8
  <2>2. CASE d \notin Speaking
    BY <1>1, <1>2, <1>4, <2>1, <2>2, ElsewhereKeeps
  <2>3. CASE d \in Speaking
    <3>1. ASSUME IsHeard(c)' PROVE InRound(c)' /\ (Served(c)' \/ steady'[c] + NextRoundEnd' < SteadyBound)
      <4> DEFINE m == ControllerStep(d, ref[d])
      <4>1. ref[d] \in Asked
        BY DEF Before, SwitchesTyped
      <4>2. m \in Messages /\ (\A a \in DOMAIN m.nu : m.nu[a] = Wish) /\ m.requester # Name(c)
        BY <1>8, <4>1, RequestIsMessage, NamesDiffer
      <4>3. InRound(c) /\ (Served(c) \/ steady[c] + NextRoundEnd < SteadyBound)
        BY <1>1, <1>3, <2>1, <3>1, SteadyBefore DEF IsHeard
      <4>4. onTopic(m)
        BY <1>1, <2>3
      <4> HIDE DEF m
      <4>5. InRound(c)' /\ ((out' # NoMessage /\ \A a \in Driven(c) : out'[a].own)
                              \/ UNCHANGED <<out, sinceAll, timer>>)
        BY <2>1, <4>2, <4>3, <4>4, RequestOfOther
      <4> QED BY <1>1, <1>6, <1>7, <4>3, <4>5
    <3> QED BY <1>1, <1>3, <1>4, <1>5, <3>1, SteadyBefore DEF KeepsItsAxes, SteadyBound
  <2> QED BY <2>2, <2>3
<1>9. CASE d = c
  <2>1. onTopic(ControllerStep(c, "value"))
    BY <1>1, <1>3, <1>9 DEF Alone
  <2>2. InRound(c)'
    BY <1>1, <1>9, <2>1, RequestOfItsOwn DEF InRound
  <2>3. Served(c) \/ steady[c] + NextRoundEnd < SteadyBound
    <3>1. CASE IsHeard(c)
      BY <1>3, <3>1, SteadyBefore
    <3>2. CASE steady[c] = 1
      BY <1>3, <3>2, SteadyBefore
    <3> QED BY <1>3, <3>1, <3>2, SteadyBefore DEF IsHeard
  <2>4. Served(c)' \/ steady'[c] + NextRoundEnd' < SteadyBound
    BY <1>1, <1>6, <1>7, <2>1, <2>3, RequestOfItsOwn
  <2> QED BY <1>1, <1>3, <1>4, <1>5, <2>2, <2>4, SteadyBefore DEF KeepsItsAxes, SteadyBound
<1> QED BY <1>8, <1>9

\* The timer does not end a round that still waits for a controller left
\* alone: its last request is too recent.
LEMMA TimerKeepsAxes ==
  ASSUME Before, Slow, MergerTimer, NEW c \in Controllers
  PROVE  KeepsItsAxes(c)'
<1> SUFFICES ASSUME steady'[c] > 0 PROVE KeepsItsAxes(c)'
  BY DEF KeepsItsAxes
<1>1. checkArrived /\ UNCHANGED <<hlVars, velVars, steady, estimate, stepped>>
  BY DEF MergerTimer, chainVars
<1>2. UNCHANGED <<mode, desired, output, refAge, estAge>>
  BY <1>1 DEF velVars
<1>3. steady[c] > 0 /\ steady'[c] = steady[c]
  BY <1>1
<1>4. Alone(c)'
  BY <1>1, <1>2, <1>3, SteadyBefore DEF Alone, Speaking, hlVars
<1>5. DrivenAsAsked(c) => DrivenAsAsked(c)'
  BY <1>2 DEF DrivenAsAsked
<1>6. ASSUME IsHeard(c)
      PROVE  InRound(c)' /\ (Served(c)' \/ steady[c] + NextRoundEnd' < SteadyBound)
  <2>1. InRound(c) /\ (Served(c) \/ steady[c] + NextRoundEnd < SteadyBound)
    BY <1>3, <1>6, SteadyBefore
  <2>2. controllers # {} /\ MergerTypeOK /\ UNCHANGED heard
    BY <1>1, <2>1 DEF InRound, Before, checkArrived
  <2>3. CASE sinceAll >= Ts /\ EndRound(outval, arrived)
    <3>1. timer = 0
      BY <1>1 DEF checkArrived
    <3>2. Name(c) \in arrived
      <4>1. heard[Name(c)] \in Nat /\ sinceAll \in Nat /\ Ts \in Nat /\ Ts >= 2
        BY <2>2, OwnRequest, MergerValues DEF Slow, MergerWaits, MergerTypeOK
      <4>2. Name(c) \notin arrived => heard[Name(c)] >= sinceAll \/ heard[Name(c)] + timer >= Ts
        BY <2>1 DEF Before, MissingIsSilent, InRound
      <4>3. heard[Name(c)] <= 1
        BY <2>1 DEF InRound
      <4> QED BY <2>3, <3>1, <4>1, <4>2, <4>3
    <3>3. out' = outval /\ controllers' = arrived /\ arrived' = {}
      BY <2>3 DEF EndRound
    <3>4. DOMAIN outval = Axes
      BY <2>2 DEF MergerTypeOK
    <3>5. Served(c)'
      BY <2>1, <3>2, <3>3, <3>4, PublishedIsMessage DEF Served, InRound
    <3>6. InRound(c)'
      BY <1>1, <2>1, <2>2, <3>2, <3>3 DEF InRound
    <3> QED BY <3>5, <3>6
  <2>4. CASE UNCHANGED <<controllers, arrived, outval, out>> /\ NextRoundEnd' = NextRoundEnd
    <3>1. InRound(c)'
      BY <1>1, <2>1, <2>2, <2>4 DEF InRound
    <3>2. Served(c) => Served(c)'
      BY <1>2, <2>4 DEF Served
    <3> QED BY <2>1, <2>4, <3>1, <3>2
  <2> QED BY <1>1, <2>2, <2>3, <2>4, RoundEndTimer
<1>7. IsHeard(c)' => IsHeard(c)
  BY <1>1 DEF IsHeard
<1> QED BY <1>1, <1>3, <1>4, <1>5, <1>6, <1>7, SteadyBefore DEF KeepsItsAxes, SteadyBound

LEMMA ReferenceKeepsAxes ==
  ASSUME Before, HearReference, NEW c \in Controllers
  PROVE  KeepsItsAxes(c)'
<1> SUFFICES ASSUME steady'[c] > 0 PROVE KeepsItsAxes(c)'
  BY DEF KeepsItsAxes
<1>1. /\ out # NoMessage /\ out' = NoMessage /\ desired' = out /\ refAge' = 0
      /\ UNCHANGED <<hlVars, mode, output, estAge, controllers, arrived, outval, sinceAll, timer,
                     heard, estimate, stepped, steady>>
  BY DEF HearReference, Taken, handleReference, chainVars
<1>2. steady[c] > 0 /\ steady'[c] = steady[c] /\ NextRoundEnd' = NextRoundEnd
  BY <1>1 DEF NextRoundEnd
<1>3. Alone(c)'
  BY <1>1, <1>2, SteadyBefore DEF Alone, Speaking, hlVars
<1>4. DrivenAsAsked(c) => DrivenAsAsked(c)'
  BY <1>1 DEF DrivenAsAsked
<1>5. InRound(c) => InRound(c)'
  BY <1>1 DEF InRound
<1>6. Served(c) => Served(c)'
  BY <1>1, <1>2, SteadyBefore DEF Served
<1>7. IsHeard(c)' => IsHeard(c)
  BY <1>1 DEF IsHeard
<1> QED BY <1>1, <1>2, <1>3, <1>4, <1>5, <1>6, <1>7, SteadyBefore DEF KeepsItsAxes, SteadyBound

LEMMA EstimateKeepsAxes ==
  ASSUME Before, HearEstimate, NEW c \in Controllers
  PROVE  KeepsItsAxes(c)'
<1> SUFFICES ASSUME steady'[c] > 0 PROVE KeepsItsAxes(c)'
  BY DEF KeepsItsAxes
<1>1. /\ estimate' = estimate \ {"velcon"} /\ estAge' = 0
      /\ desired' = [a \in Axes |-> IF mode[a] = "control" THEN desired[a] ELSE Filler]
      /\ UNCHANGED <<hlVars, mergerVars, mode, output, refAge, stepped, steady>>
  BY DEF HearEstimate, handleEstimates
<1>2. steady[c] > 0 /\ steady'[c] = steady[c] /\ NextRoundEnd' = NextRoundEnd
  BY <1>1 DEF NextRoundEnd, mergerVars
<1>3. Alone(c) /\ "velcon" \notin Controllers
  BY <1>2, SteadyBefore, ControllersAreKnown
<1>4. Alone(c)' /\ (c \in estimate' <=> c \in estimate)
  BY <1>1, <1>3 DEF Alone, Speaking, hlVars
<1>5. DrivenAsAsked(c) => DrivenAsAsked(c)'
  BY <1>1 DEF DrivenAsAsked
<1>6. InRound(c) => InRound(c)'
  BY <1>1, <1>4 DEF InRound, mergerVars
<1>7. \A a \in Driven(c) : desired'[a] = desired[a]
  BY <1>1, <1>3, OwnRequest DEF Alone
<1>8. Served(c) => Served(c)'
  BY <1>1, <1>2, <1>7 DEF Served, mergerVars
<1>9. IsHeard(c)' => IsHeard(c)
  BY <1>1, <1>4 DEF IsHeard
<1> QED BY <1>1, <1>2, <1>4, <1>5, <1>6, <1>8, <1>9, SteadyBefore DEF KeepsItsAxes, SteadyBound

LEMMA StepKeepsAxes ==
  ASSUME Before, Slow, Step, NEW c \in Controllers
  PROVE  KeepsItsAxes(c)'
<1> SUFFICES ASSUME steady'[c] > 0 PROVE KeepsItsAxes(c)'
  BY DEF KeepsItsAxes
<1>1. /\ ~stepped /\ out = NoMessage /\ "velcon" \notin estimate /\ step
      /\ UNCHANGED <<hlVars, mergerVars, estimate, steady, mode, desired, refAge, estAge>>
  BY DEF Step, step
<1>2. steady[c] > 0 /\ steady'[c] = steady[c] /\ NextRoundEnd' = NextRoundEnd
  BY <1>1 DEF NextRoundEnd, mergerVars
<1>3. Alone(c) /\ estAge = 0
  BY <1>1, <1>2, SteadyBefore DEF Alone
<1>4. Alone(c)'
  BY <1>1, <1>3 DEF Alone, Speaking, hlVars
<1>5. (InRound(c) => InRound(c)') /\ (Served(c) => Served(c)') /\ (IsHeard(c)' => IsHeard(c))
  BY <1>1, <1>2 DEF InRound, Served, IsHeard, mergerVars
<1>6. ASSUME steady[c] >= SteadyBound PROVE DrivenAsAsked(c)'
  <2>1. Served(c)
    <3>1. IsHeard(c)
      BY <1>2, <1>6, SteadyBefore DEF IsHeard
    <3> QED BY <1>2, <1>6, <3>1, SteadyBefore
  <2>2. (\A a \in Driven(c) : desired[a].own) /\ refAge + NextRoundEnd <= 2 * Ts
    BY <1>1, <2>1 DEF Served
  <2>3. refAge <= Timeout /\ estAge <= Timeout
    BY <1>2, <1>3, <2>2, SteadyBefore, ChainAssumptions DEF Slow, VelocityControlIsPatient
  <2> SUFFICES ASSUME NEW a \in Driven(c)
               PROVE  output'[a].by = "control" /\ output'[a].own
    BY DEF DrivenAsAsked
  <2>4. a \in Axes /\ mode[a] = "control"
    BY <1>3, OwnRequest DEF Alone
  <2>5. ~TimedOut(a)
    BY <1>2, <2>3, <2>4, SteadyBefore, ChainAssumptions, <1>3 DEF TimedOut
  <2>6. (output'[a] = NoForce /\ a \in suspended') \/ output'[a] = AxisForce(a)
    BY <1>1, <2>4 DEF step
  <2>7. AxisForce(a) = [by |-> "control", own |-> desired[a].own, age |-> desired[a].age]
    BY <2>4 DEF AxisForce
  <2>8. a \notin suspended'
    BY <1>1, <2>5 DEF step, Before, NotTested
  <2> QED BY <2>2, <2>6, <2>7, <2>8
<1>7. steady[c] \in Nat /\ SteadyBound \in Nat
  BY <1>2, SteadyBefore
<1> QED BY <1>1, <1>2, <1>4, <1>5, <1>6, <1>7, SteadyBefore DEF KeepsItsAxes, SteadyBound

LEMMA TickKeepsAxes ==
  ASSUME Before, Tick, NEW c \in Controllers
  PROVE  KeepsItsAxes(c)'
<1> SUFFICES ASSUME steady'[c] > 0 PROVE KeepsItsAxes(c)'
  BY DEF KeepsItsAxes
<1>1. /\ stepped /\ ~stepped' /\ estimate \subseteq {"velcon"} /\ MergerTick /\ VelTick
      /\ UNCHANGED <<hlVars, mode, output>>
  BY DEF Tick, VelTick
<1>2. /\ nav /\ c \in Speaking /\ ref[c] = "value"
      /\ \A a \in Driven(c) : mode[a] = "control"
      /\ steady'[c] = Up(steady[c], SteadyBound)
    BY DEF Tick
<1>3. estimate' = Recipients /\ "velcon" \in Recipients /\ c \in Recipients
  BY <1>2 DEF Tick, Recipients
<1>4. Alone(c)'
  BY <1>1, <1>2, <1>3 DEF Alone, Speaking, hlVars
<1>5. c \notin estimate /\ steady[c] \in 0..(SteadyBound + 1) /\ SteadyBound \in Nat
  BY <1>1, ControllersAreKnown, ChainAssumptions DEF Before, SteadyTyped, SteadyBound
<1>6. steady'[c] = steady[c] + 1 \/ (steady'[c] = steady[c] /\ steady[c] > SteadyBound)
  BY <1>2, <1>5 DEF Up
<1>7. ASSUME steady'[c] > SteadyBound PROVE DrivenAsAsked(c)'
  <2>1. steady[c] > SteadyBound \/ (steady[c] = SteadyBound /\ stepped)
    BY <1>1, <1>5, <1>6, <1>7
  <2>2. steady[c] > 0
    BY <1>5, <2>1, ChainAssumptions DEF SteadyBound
  <2>3. DrivenAsAsked(c)
    BY <2>1, <2>2, SteadyBefore
  <2> QED BY <1>1, <2>3 DEF DrivenAsAsked
<1>8. ASSUME steady[c] > 0
      PROVE  InRound(c)' /\ (Served(c)' \/ steady'[c] + NextRoundEnd' < SteadyBound)
  <2>1. InRound(c) /\ (Served(c) \/ steady[c] + NextRoundEnd < SteadyBound)
    BY <1>5, <1>8, SteadyBefore DEF IsHeard
  <2>2. NextRoundEnd > 0 /\ NextRoundEnd' = NextRoundEnd - 1
    BY <1>1, RoundEndTick DEF Before
  <2>3. /\ UNCHANGED <<controllers, arrived>>
        /\ outval' = [a \in Axes |-> OlderVelocity(outval[a])]
        /\ out' = [a \in DOMAIN out |-> OlderVelocity(out[a])]
        /\ heard' = [q \in Requesters |-> Longer(heard[q])]
    BY <1>1 DEF MergerTick
  <2>4. ASSUME NEW x \in Velocities PROVE OlderVelocity(x).own = x.own
    BY DEF OlderVelocity, Velocities
  <2>5. InRound(c)'
    <3>1. heard'[Name(c)] <= 1
      <4>1. heard[Name(c)] = 0 /\ heard'[Name(c)] = Longer(0)
        BY <1>5, <2>1, <2>3, OwnRequest DEF InRound
      <4> QED BY <4>1, ChainAssumptions DEF Longer
    <3>2. ASSUME Name(c) \in arrived, NEW a \in Driven(c) PROVE outval'[a].own
      BY <2>1, <2>3, <2>4, <3>2, OwnRequest DEF InRound, Before, MergerTypeOK
    <3> QED BY <1>3, <2>1, <2>3, <3>1, <3>2 DEF InRound
  <2>6. Served(c) => Served(c)'
    <3>1. ASSUME out # NoMessage, \A a \in Driven(c) : out[a].own PROVE Served(c)'
      <4>1. out \in [Axes -> Velocities]
        BY <3>1 DEF Before, MergerTypeOK
      <4>2. DOMAIN out' = Axes
        BY <2>3, <4>1
      <4>3. \A a \in Driven(c) : out'[a].own
        BY <2>3, <2>4, <3>1, <4>1, OwnRequest
      <4> QED BY <4>2, <4>3, PublishedIsMessage DEF Served
    <3>2. ASSUME out = NoMessage, \A a \in Driven(c) : desired[a].own,
                 refAge + NextRoundEnd <= 2 * Ts
          PROVE  Served(c)'
      <4>1. out' = NoMessage
        BY <2>3, <3>2 DEF NoMessage
      <4>2. refAge' \in Nat /\ refAge' <= refAge + 1
        BY <1>1, <1>8, SteadyBefore DEF VelTick, Aged
      <4>3. \A a \in Driven(c) : desired'[a].own
        BY <1>1, <3>2, OwnRequest DEF VelTick, Before, VelTypeOK, Velocities
      <4>4. refAge' + NextRoundEnd' <= 2 * Ts
        BY <1>8, <2>2, <3>2, <4>2, SteadyBefore
      <4> QED BY <4>1, <4>3, <4>4 DEF Served
    <3> QED BY <3>1, <3>2 DEF Served
  <2>7. steady[c] + NextRoundEnd < SteadyBound => steady'[c] + NextRoundEnd' < SteadyBound
    BY <1>5, <1>6, <1>8, <2>2, SteadyBefore
  <2> QED BY <2>1, <2>5, <2>6, <2>7
<1>9. IsHeard(c)' => steady[c] > 0
  BY <1>3, <1>5, <1>6 DEF IsHeard
<1> QED BY <1>1, <1>4, <1>7, <1>8, <1>9 DEF KeepsItsAxes, SteadyBound

LEMMA KeepsAxesStep ==
  Before /\ Slow /\ [Next]_vars => \A c \in Controllers : KeepsItsAxes(c)'
<1> SUFFICES ASSUME Before, Slow, [Next]_vars, NEW c \in Controllers PROVE KeepsItsAxes(c)'
  OBVIOUS
<1>1. CASE UNCHANGED vars
  <2>1. UNCHANGED <<hlVars, mergerVars, mode, desired, refAge, output, estAge, estimate, stepped,
                    steady>>
    BY <1>1 DEF vars, velVars, chainVars
  <2>2. Alone(c) => Alone(c)'
    BY <2>1 DEF Alone, Speaking, hlVars
  <2> QED BY <2>1, <2>2, ElsewhereKeeps
<1> QED
  BY <1>1, OperatorKeepsAxes, ControlKeepsAxes, TimerKeepsAxes, ReferenceKeepsAxes,
     EstimateKeepsAxes, StepKeepsAxes, TickKeepsAxes DEF Next

LEMMA NotTestedStep == NotTested /\ [VelNext]_velVars => NotTested'
BY DEF NotTested, VelNext, velVars, handleReference, handleEstimates, handleManual,
       handleMeasurement, handleExt, handleServerConfig, handleEnableControl, step, VelTick

LEMMA AxesInit ==
  Init => SteadyTyped /\ NotTested /\ \A c \in Controllers : KeepsItsAxes(c)
<1> SUFFICES ASSUME Init PROVE SteadyTyped /\ NotTested /\ \A c \in Controllers : KeepsItsAxes(c)
  OBVIOUS
<1>1. steady = [c \in Controllers |-> 0] /\ suspended = {}
  BY DEF Init, VelInit
<1> QED BY <1>1, ChainAssumptions DEF SteadyTyped, NotTested, KeepsItsAxes, SteadyBound

(***************************************************************************)
(* A controller that is left alone keeps its axes, whatever the others do, *)
(* if the velocity controller waits for two sampling times of the merger   *)
(* and a sampling time is longer than the period of the estimates.         *)
(***************************************************************************)
THEOREM ChainOthersDoNotInterfere == Spec => []OthersDoNotInterfere
<1> DEFINE Keep == Slow => \A c \in Controllers : KeepsItsAxes(c)
           Typed == MergerTypeOK /\ VelTypeOK /\ SwitchesTyped /\ MissingIsSilent
<1>1. Spec => []Typed
  <2>1. Spec => []MergerTypeOK /\ []MissingIsSilent
    BY ChainImplementsMerger, MergerTyping, MergerMissing, PTL
  <2>2. Spec => []VelTypeOK
    BY ChainImplementsVelocityControl, VelTyping, PTL DEF VelocityControlAlone
  <2>3. Init => SwitchesTyped
    BY DEF Init, SwitchesTyped, Asked, Recipients
  <2> QED BY <2>1, <2>2, <2>3, SwitchesStep, PTL DEF Spec
<1>2. Spec => [][VelNext]_velVars
  BY ChainImplementsVelocityControl, PTL DEF VelocityControlAlone, VelSpec
<1>3. Init => SteadyTyped /\ NotTested /\ Keep
  BY AxesInit
<1>4. /\ Typed /\ Typed' /\ SteadyTyped /\ NotTested /\ Keep
      /\ [Next]_vars /\ [VelNext]_velVars
      => (SteadyTyped /\ NotTested /\ Keep)'
  <2> SUFFICES ASSUME Typed, Typed', SteadyTyped, NotTested, Keep, [Next]_vars,
                      [VelNext]_velVars
               PROVE  SteadyTyped' /\ NotTested' /\ Keep'
    OBVIOUS
  <2>1. SteadyTyped' /\ NotTested'
    BY SteadyStep, NotTestedStep
  <2>2. ASSUME Slow PROVE \A c \in Controllers : KeepsItsAxes(c)'
    BY <2>1, <2>2, KeepsAxesStep DEF Before
  <2>3. Slow' = Slow
    BY DEF Slow, VelocityControlIsPatient, MergerWaits
  <2> QED BY <2>1, <2>2, <2>3
<1>5. SteadyTyped /\ Keep => OthersDoNotInterfere
  <2>1. \A c \in Controllers : SteadyTyped /\ steady[c] > SteadyBound => steady[c] > 0
    BY ChainAssumptions DEF SteadyTyped, SteadyBound
  <2> QED BY <2>1 DEF Slow, KeepsItsAxes, DrivenAsAsked, OthersDoNotInterfere
<1> HIDE DEF Keep, Typed
<1> QED BY <1>1, <1>2, <1>3, <1>4, <1>5, PTL DEF Spec
=============================================================================
