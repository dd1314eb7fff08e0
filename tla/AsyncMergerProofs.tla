-------------------------- MODULE AsyncMergerProofs --------------------------
(***************************************************************************)
(* What the merger of references guarantees, proved for every set of       *)
(* requesters and axes and every sampling time.                            *)
(***************************************************************************)
EXTENDS AsyncMerger, TLAPS

LEMMA MergerAssumptions ==
  Ts \in Nat /\ Ts > 0 /\ Timeout \in Nat /\ RefDelay \in Nat
BY TsAssumption, TimeoutAssumption, RefDelayAssumption

LEMMA OlderIsVelocity == ASSUME NEW x \in Velocities PROVE OlderVelocity(x) \in Velocities
BY MergerAssumptions DEF Velocities, OlderVelocity, Aged, Ages, AgeCap

LEMMA FillerIsVelocity == Filler \in Velocities
BY MergerAssumptions DEF Filler, Velocities, Ages, AgeCap

\* A message renews the axes it drives and leaves the others.
LEMMA CollectedVelocities ==
  ASSUME NEW m \in Messages, outval \in [Axes -> Velocities]
  PROVE  [a \in Axes |-> IF a \in DOMAIN m.nu THEN m.nu[a] ELSE outval[a]]
           \in [Axes -> Velocities]
<1>1. PICK driven \in SUBSET Axes : m.nu \in [driven -> Velocities]
  BY DEF Messages
<1>2. \A a \in DOMAIN m.nu : m.nu[a] \in Velocities
  BY <1>1
<1> QED BY <1>2

(***************************************************************************)
(* The state of the merger keeps its type; in particular only requesters   *)
(* that are known can be marked as arrived.                                *)
(***************************************************************************)
LEMMA MergerTypeStep == MergerTypeOK /\ [MergerNext]_mergerVars => MergerTypeOK'
<1> SUFFICES ASSUME MergerTypeOK, [MergerNext]_mergerVars PROVE MergerTypeOK'
  OBVIOUS
<1> USE DEF MergerTypeOK
<1>f. [a \in Axes |-> Filler] \in [Axes -> Velocities]
  BY FillerIsVelocity
<1>1. ASSUME NEW m \in Messages, onTopic(m) PROVE MergerTypeOK'
  <2> DEFINE collected == [a \in Axes |-> IF a \in DOMAIN m.nu THEN m.nu[a] ELSE outval[a]]
  <2>1. m.requester \in Requesters
    BY DEF Messages
  <2>2. collected \in [Axes -> Velocities]
    BY CollectedVelocities
  <2>3. heard' \in [Requesters -> 0..Ts]
    BY <1>1, <2>1, MergerAssumptions DEF onTopic
  <2>4. timer' \in 0..Ts
    BY <1>1 DEF onTopic
  <2>5. CASE arrived \cup {m.requester} = Known(m)
    <3>1. /\ out' = collected /\ arrived' = {} /\ sinceAll' = 0
          /\ controllers' = arrived \cup {m.requester}
          /\ outval' = [a \in Axes |-> Filler]
      BY <1>1, <2>5 DEF onTopic, AllArrived, EndRound
    <3>2. sinceAll' \in 0..AfterLongSilence
      BY <3>1, MergerAssumptions DEF AfterLongSilence
    <3>3. controllers' \subseteq Requesters
      BY <3>1, <2>1
    <3>4. out' \in [Axes -> Velocities]
      BY <3>1, <2>2
    <3>5. outval' \in [Axes -> Velocities] /\ arrived' \subseteq controllers'
      BY <3>1, <1>f
    <3> QED BY <3>2, <3>3, <3>4, <3>5, <2>3, <2>4
  <2>6. CASE arrived \cup {m.requester} # Known(m)
    <3>1. /\ outval' = collected /\ controllers' = controllers \cup {m.requester}
          /\ arrived' = arrived \cup {m.requester}
          /\ out' = out /\ sinceAll' = sinceAll
      BY <1>1, <2>6 DEF onTopic, Known
    <3>2. outval' \in [Axes -> Velocities]
      BY <3>1, <2>2
    <3>3. controllers' \subseteq Requesters /\ arrived' \subseteq controllers'
      BY <3>1, <2>1
    <3>4. out' = NoMessage \/ out' \in [Axes -> Velocities]
      BY <3>1
    <3> QED BY <3>1, <3>2, <3>3, <3>4, <2>3, <2>4
  <2> QED BY <2>5, <2>6
<1>2. CASE checkArrived
  <2>1. timer' \in 0..Ts
    BY <1>2, MergerAssumptions DEF checkArrived
  <2>2. CASE EndRound(outval, arrived)
    BY <1>2, <2>1, <2>2, <1>f DEF checkArrived, EndRound
  <2>3. CASE UNCHANGED <<controllers, arrived, outval, out>>
    BY <1>2, <2>1, <2>3 DEF checkArrived
  <2> QED BY <1>2, <2>2, <2>3 DEF checkArrived
<1>3. CASE Taken
  BY <1>3 DEF Taken
<1>4. CASE MergerTick
  <2>1. outval' \in [Axes -> Velocities]
    BY <1>4, OlderIsVelocity DEF MergerTick
  <2>2. timer' \in 0..Ts /\ sinceAll' \in 0..AfterLongSilence
    BY <1>4, MergerAssumptions DEF MergerTick, AfterLongSilence
  <2>3. heard' \in [Requesters -> 0..Ts]
    BY <1>4, MergerAssumptions DEF MergerTick, Longer
  <2>4. out' = NoMessage \/ out' \in [Axes -> Velocities]
    <3>1. CASE out = NoMessage
      BY <1>4, <3>1 DEF MergerTick, NoMessage
    <3>2. CASE out \in [Axes -> Velocities]
      BY <1>4, <3>2, OlderIsVelocity DEF MergerTick
    <3> QED BY <3>1, <3>2
  <2> QED BY <1>4, <2>1, <2>2, <2>3, <2>4 DEF MergerTick
<1>5. CASE UNCHANGED mergerVars
  BY <1>5 DEF mergerVars
<1> QED BY <1>1, <1>2, <1>3, <1>4, <1>5 DEF MergerNext

LEMMA MergerTypeInit == MergerInit => MergerTypeOK
BY MergerAssumptions, FillerIsVelocity DEF MergerInit, MergerTypeOK, AfterLongSilence

THEOREM MergerTyping == MergerSpec => []MergerTypeOK
BY MergerTypeInit, MergerTypeStep, PTL DEF MergerSpec

(***************************************************************************)
(* Who is missing in a round has been silent since the round began.        *)
(***************************************************************************)
LEMMA MissingStep ==
  MergerTypeOK /\ MissingIsSilent /\ [MergerNext]_mergerVars => MissingIsSilent'
<1> SUFFICES ASSUME MergerTypeOK, MissingIsSilent, [MergerNext]_mergerVars,
                    NEW q \in controllers' \ arrived'
             PROVE  heard'[q] >= sinceAll' \/ heard'[q] + timer' >= Ts
  BY DEF MissingIsSilent
<1>t. /\ \A r \in Requesters : heard[r] \in 0..Ts
      /\ sinceAll \in 0..(Ts + 1) /\ timer \in 0..Ts /\ Ts \in Nat /\ Ts > 0
      /\ controllers \subseteq Requesters /\ arrived \subseteq controllers
  BY MergerAssumptions DEF MergerTypeOK, AfterLongSilence
<1>1. ASSUME NEW m \in Messages, onTopic(m)
      PROVE  heard'[q] >= sinceAll' \/ heard'[q] + timer' >= Ts
  <2>1. m.requester \in Requesters
    BY DEF Messages
  <2>2. heard' = [heard EXCEPT ![m.requester] = 0] /\ timer' = timer
    BY <1>1 DEF onTopic
  <2>3. CASE arrived \cup {m.requester} = Known(m)
    <3>1. sinceAll' = 0 /\ controllers' \subseteq Requesters
      BY <1>1, <2>1, <2>3, <1>t DEF onTopic, AllArrived, EndRound
    <3>2. heard'[q] \in 0..Ts
      BY <3>1, <2>1, <2>2, <1>t DEF MergerTypeOK
    <3> QED BY <3>1, <3>2, <1>t
  <2>4. CASE arrived \cup {m.requester} # Known(m)
    <3>1. /\ controllers' = controllers \cup {m.requester}
          /\ arrived' = arrived \cup {m.requester} /\ sinceAll' = sinceAll
      BY <1>1, <2>4 DEF onTopic, Known
    <3>2. q \in controllers \ arrived /\ q # m.requester
      BY <3>1
    <3>3. heard'[q] = heard[q]
      BY <3>2, <2>2, <1>t DEF MergerTypeOK
    <3> QED BY <3>1, <3>2, <3>3, <2>2 DEF MissingIsSilent
  <2> QED BY <2>3, <2>4
<1>2. CASE checkArrived
  <2>1. heard' = heard /\ sinceAll' = sinceAll /\ timer' = Ts
    BY <1>2 DEF checkArrived
  <2>2. controllers' \subseteq Requesters
    BY <1>2, <1>t DEF checkArrived, EndRound
  <2>3. heard[q] \in 0..Ts
    BY <2>2, <1>t
  <2> QED BY <2>1, <2>3, <1>t
<1>3. CASE MergerTick
  <2>1. /\ timer > 0 /\ timer' = timer - 1
        /\ sinceAll' = (IF sinceAll < Ts + 1 THEN sinceAll + 1 ELSE sinceAll)
        /\ heard'[q] = (IF heard[q] < Ts THEN heard[q] + 1 ELSE heard[q])
        /\ q \in controllers \ arrived
    BY <1>3, <1>t DEF MergerTick, Longer, AfterLongSilence
  <2>2. heard[q] >= sinceAll \/ heard[q] + timer >= Ts
    BY <2>1 DEF MissingIsSilent
  <2>3. heard[q] \in 0..Ts
    BY <2>1, <1>t
  <2> QED BY <2>1, <2>2, <2>3, <1>t
<1>4. CASE UNCHANGED <<controllers, arrived, heard, sinceAll, timer>>
  BY <1>4 DEF MissingIsSilent
<1> QED BY <1>1, <1>2, <1>3, <1>4 DEF MergerNext, mergerVars, Taken

LEMMA MissingInit == MergerInit => MissingIsSilent
BY DEF MergerInit, MissingIsSilent

LEMMA MergerMissing == MergerSpec => []MissingIsSilent
BY MergerTyping, MissingInit, MissingStep, PTL DEF MergerSpec

\* A step removes only requesters silent for a whole sampling time.
LEMMA RemovalStep ==
  MergerTypeOK /\ MissingIsSilent /\ [MergerNext]_mergerVars
    => \A q \in controllers : q \notin controllers' => heard[q] >= Ts
<1> SUFFICES ASSUME MergerTypeOK, MissingIsSilent, [MergerNext]_mergerVars,
                    NEW q \in controllers, q \notin controllers'
             PROVE  heard[q] >= Ts
  OBVIOUS
<1>t. /\ heard[q] \in 0..Ts /\ sinceAll \in 0..(Ts + 1) /\ timer \in 0..Ts
      /\ Ts \in Nat /\ arrived \subseteq controllers
  BY MergerAssumptions DEF MergerTypeOK, AfterLongSilence
<1>1. ASSUME NEW m \in Messages, onTopic(m) PROVE FALSE
  <2>1. CASE arrived \cup {m.requester} = Known(m)
    BY <1>1, <2>1 DEF onTopic, AllArrived, EndRound, Known
  <2>2. CASE arrived \cup {m.requester} # Known(m)
    BY <1>1, <2>2 DEF onTopic, Known
  <2> QED BY <2>1, <2>2
<1>2. CASE checkArrived
  <2>1. timer = 0 /\ sinceAll >= Ts /\ controllers' = arrived
    BY <1>2 DEF checkArrived, EndRound
  <2>2. heard[q] >= sinceAll \/ heard[q] + timer >= Ts
    BY <2>1 DEF MissingIsSilent
  <2> QED BY <2>1, <2>2, <1>t
<1>3. CASE UNCHANGED controllers
  BY <1>3
<1> QED BY <1>1, <1>2, <1>3 DEF MergerNext, mergerVars, Taken, MergerTick

(***************************************************************************)
(* The merger forgets a requester only after a silence of a whole sampling *)
(* time, whoever else publishes, joins or leaves meanwhile.                *)
(***************************************************************************)
THEOREM MergerOnlySilentRemoved == MergerSpec => OnlySilentRemoved
<1>1. MergerInit => MergerTypeOK /\ MissingIsSilent
  BY MergerTypeInit, MissingInit
<1>2. MergerTypeOK /\ MissingIsSilent /\ [MergerNext]_mergerVars
        => (MergerTypeOK /\ MissingIsSilent)'
  BY MergerTypeStep, MissingStep
<1>3. MergerTypeOK /\ MissingIsSilent /\ [MergerNext]_mergerVars
        => [\A q \in controllers : q \notin controllers' => heard[q] >= Ts]_mergerVars
  BY RemovalStep
<1> QED BY <1>1, <1>2, <1>3, PTL DEF MergerSpec, OnlySilentRemoved
==============================================================================
