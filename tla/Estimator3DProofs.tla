-------------------------- MODULE Estimator3DProofs --------------------------
(***************************************************************************)
(* The safety properties of the estimator, proved for every set of topics, *)
(* all timeouts, sample counts and bounds, and every order of messages.    *)
(* Each is proved from the types and an invariant of its own, because the  *)
(* position, the status, the velocity and the altitude keep separate state *)
(* and meet only in the step of the loop.                                  *)
(***************************************************************************)
EXTENDS Estimator3D, TLAPS

LEMMA Bounds ==
  /\ DiagTimeout \in Nat /\ DvlTimeout \in Nat /\ AltTimeout \in Nat
  /\ Cap \in Nat /\ MaxOps \in Nat
  /\ SampleCounts \subseteq Nat \ {0}
  /\ \A n \in SampleCounts : n <= Cap + 1
BY TimesAssumption, BoundsAssumption

\* Ages and histories stay within their bounds.
LEMMA OlderIsAge ==
  ASSUME NEW b \in Nat, NEW n \in 0..(b + 1)
  PROVE  Older(n, b) \in 0..(b + 1) /\ Older(0, b) \in 0..(b + 1)
BY DEF Older

LEMMA LongerIsCount == ASSUME NEW n \in 0..Cap PROVE Longer(n) \in 0..Cap
BY Bounds DEF Longer

(***************************************************************************)
(* Types, action by action.                                                *)
(***************************************************************************)
LEMMA ArrivesType ==
  ASSUME NEW topic, TypeOK, Arrives(topic)
  PROVE  last' \in 0..Len(Order)
<1>1. PICK i \in (last + 1)..Len(Order) : last' = i
  BY DEF Arrives
<1>2. last \in Nat /\ Len(Order) \in Nat
  BY DEF TypeOK, Order
<1> QED BY <1>1, <1>2

LEMMA OperatorSendsType ==
  ASSUME NEW topic, TypeOK, OperatorSends(topic)
  PROVE  last' \in 0..Len(Order) /\ ops' \in 0..MaxOps
<1>1. last' \in 0..Len(Order)
  BY ArrivesType DEF OperatorSends
<1> QED BY <1>1, Bounds DEF OperatorSends, TypeOK

LEMMA CameType ==
  ASSUME NEW s \in Positions, TypeOK, Came(s)
  PROVE  hist' \in Histories
<1>1. hist \in Histories /\ hist' = [hist EXCEPT !.age[s] = 0]
  BY DEF TypeOK, Came
<1>2. [hist.age EXCEPT ![s] = 0] \in [Positions -> 0..Cap]
  BY <1>1, Bounds DEF Histories
<1> QED BY <1>1, <1>2 DEF Histories

LEMMA SensorTypes ==
  ASSUME TypeOK, onGps \/ onLocalPos \/ onImu \/ deltaPosCallback
                   \/ \E converted \in BOOLEAN : onDvl(converted)
  PROVE  TypeOK'
<1>1. CASE onGps
  <2>1. last' \in 0..Len(Order) /\ hist' \in Histories
    BY <1>1, ArrivesType, CameType DEF onGps, Positions
  <2> QED BY <1>1, <2>1 DEF onGps, TypeOK, Handlers, diagVars, altVars
<1>2. CASE onLocalPos
  <2>1. last' \in 0..Len(Order) /\ hist' \in Histories
    BY <1>2, ArrivesType, CameType DEF onLocalPos, Positions
  <2> QED BY <1>2, <2>1 DEF onLocalPos, TypeOK, Handlers, diagVars, altVars
<1>3. CASE onImu
  <2>1. last' \in 0..Len(Order)
    BY <1>3, ArrivesType DEF onImu
  <2> QED BY <1>3, <2>1 DEF onImu, TypeOK, Handlers, diagVars, altVars
<1>4. CASE deltaPosCallback
  <2>1. last' \in 0..Len(Order) /\ hist' \in Histories
    BY <1>4, ArrivesType, CameType DEF deltaPosCallback, Positions
  <2> QED BY <1>4, <2>1 DEF deltaPosCallback, TypeOK, diagVars, altVars
<1>5. ASSUME NEW converted \in BOOLEAN, onDvl(converted) PROVE TypeOK'
  <2>1. last' \in 0..Len(Order)
    BY <1>5, ArrivesType DEF onDvl
  <2> QED BY <1>5, <2>1 DEF onDvl, TypeOK, Handlers, diagVars, altVars
<1> QED BY <1>1, <1>2, <1>3, <1>4, <1>5

LEMMA HalfTypes ==
  ASSUME TypeOK, onUSBL \/ onSurfacePos
  PROVE  TypeOK'
<1>1. last' \in 0..Len(Order)
  BY ArrivesType DEF onUSBL, onSurfacePos
<1>2. PICK half \in {"fix", "remote"} : onHalf(half)
  BY DEF onUSBL, onSurfacePos
<1>3. CASE paired \cup {half} = {"fix", "remote"}
  <2>1. hist' \in Histories
    BY <1>2, <1>3, CameType DEF onHalf, Positions
  <2> QED BY ZenonT(60), <1>1, <1>2, <1>3, <2>1 DEF onHalf, TypeOK, Handlers, diagVars, altVars
<1>4. CASE paired \cup {half} # {"fix", "remote"}
  <2>1. paired' \in {{}, {"fix"}, {"remote"}}
    BY <1>2, <1>4 DEF onHalf, TypeOK
  <2> QED BY <1>1, <1>2, <1>4, <2>1 DEF onHalf, TypeOK, diagVars, altVars
<1> QED BY <1>3, <1>4

LEMMA OperatorTypes ==
  ASSUME TypeOK,
         \/ onReset
         \/ \E relative \in BOOLEAN : KFmodeCallback(relative)
         \/ \E flag \in BOOLEAN : onAltSampling(flag)
         \/ \E n \in SampleCounts : onAltNSamples(n)
  PROVE  TypeOK'
<1>1. CASE onReset
  <2>1. last' \in 0..Len(Order) /\ ops' \in 0..MaxOps
    BY <1>1, OperatorSendsType DEF onReset
  <2>2. hist' \in Histories
    BY <1>1 DEF onReset, TypeOK, Histories
  <2> QED BY <1>1, <2>1, <2>2 DEF onReset, TypeOK, diagVars
<1>2. ASSUME NEW relative \in BOOLEAN, KFmodeCallback(relative) PROVE TypeOK'
  <2>1. last' \in 0..Len(Order) /\ ops' \in 0..MaxOps
    BY <1>2, OperatorSendsType DEF KFmodeCallback
  <2>2. hist' \in Histories
    BY <1>2 DEF KFmodeCallback, TypeOK, Histories
  <2>3. posReset' \in BOOLEAN
    BY <1>2 DEF KFmodeCallback
  <2> QED BY ZenonT(60), <1>2, <2>1, <2>2, <2>3 DEF KFmodeCallback, TypeOK, diagVars, altVars
<1>3. ASSUME NEW flag \in BOOLEAN, onAltSampling(flag) PROVE TypeOK'
  <2>1. last' \in 0..Len(Order) /\ ops' \in 0..MaxOps
    BY <1>3, OperatorSendsType DEF onAltSampling
  <2>2. hist' \in Histories
    BY <1>3 DEF onAltSampling, TypeOK, Histories
  <2> QED BY <1>3, <2>1, <2>2 DEF onAltSampling, TypeOK, posVars, diagVars
<1>4. ASSUME NEW n \in SampleCounts, onAltNSamples(n) PROVE TypeOK'
  <2>1. last' \in 0..Len(Order) /\ ops' \in 0..MaxOps
    BY <1>4, OperatorSendsType DEF onAltNSamples
  <2> QED BY <1>4, <2>1 DEF onAltNSamples, TypeOK, posVars, diagVars
<1> QED BY <1>1, <1>2, <1>3, <1>4

\* The buffer grows by at most one sample and never beyond them.
LEMMA BufferedSamples ==
  ASSUME TypeOK, NEW z \in {"near", "far"}
  PROVE  /\ Buffered(z) \in Seq({"near", "far"})
         /\ Len(Buffered(z)) <= Len(altBuf) + 1
<1>1. Append(altBuf, z) \in Seq({"near", "far"}) /\ Len(Append(altBuf, z)) = Len(altBuf) + 1
  BY DEF TypeOK
<1>2. CASE Len(Append(altBuf, z)) > nsamples
  <2>1. Append(altBuf, z) # <<>>
    BY <1>1 DEF TypeOK
  <2>2. /\ Tail(Append(altBuf, z)) \in Seq({"near", "far"})
        /\ Len(Tail(Append(altBuf, z))) = Len(Append(altBuf, z)) - 1
    BY <1>1, <2>1
  <2> QED BY <1>1, <1>2, <2>2 DEF Buffered, TypeOK
<1>3. CASE ~(Len(Append(altBuf, z)) > nsamples)
  BY <1>1, <1>3 DEF Buffered, TypeOK
<1> QED BY <1>2, <1>3

\* What the altitude's callback does to the samples.
LEMMA AltitudeCases ==
  ASSUME TypeOK, NEW z \in Altitudes, NEW expected \in BOOLEAN, onAltitude(z, expected)
  PROVE  \/ UNCHANGED <<newAlt, altAge, altBuf>>
         \/ /\ z \in {"near", "far"} /\ expected
            /\ altAge > AltTimeout /\ altSample
            /\ \/ /\ Len(Buffered(z)) >= nsamples
                  /\ newAlt' = TRUE /\ altAge' = 0 /\ altBuf' = <<>>
               \/ /\ altBuf' = Buffered(z) /\ UNCHANGED <<newAlt, altAge>>
         \/ /\ z \in {"near", "far"} /\ expected
            /\ ~(altAge > AltTimeout /\ altSample)
            /\ newAlt' = TRUE /\ altAge' = 0 /\ UNCHANGED altBuf
BY DEF onAltitude, Sample, AcceptAltitude, Altitudes

LEMMA AltitudeTypes ==
  ASSUME TypeOK, NEW z \in Altitudes, NEW expected \in BOOLEAN, onAltitude(z, expected)
  PROVE  TypeOK'
<1>1. last' \in 0..Len(Order)
  BY ArrivesType DEF onAltitude
<1>2. newAlt' \in BOOLEAN /\ altAge' \in 0..(AltTimeout + 1) /\ altBuf' \in Seq({"near", "far"})
  <2>1. \/ UNCHANGED <<newAlt, altAge, altBuf>>
        \/ /\ newAlt' = TRUE /\ altAge' = 0
           /\ altBuf' = <<>> \/ UNCHANGED altBuf
        \/ /\ z \in {"near", "far"} /\ altBuf' = Buffered(z)
           /\ UNCHANGED <<newAlt, altAge>>
    BY AltitudeCases
  <2>2. z \in {"near", "far"} => Buffered(z) \in Seq({"near", "far"})
    BY BufferedSamples
  <2>3. <<>> \in Seq({"near", "far"}) /\ 0 \in 0..(AltTimeout + 1)
    BY Bounds
  <2> QED BY <2>1, <2>2, <2>3 DEF TypeOK
<1>3. hist' \in Histories
  <2>1. hist.samples \in 0..Cap /\ Longer(hist.samples) \in 0..Cap /\ 0 \in 0..Cap
    BY LongerIsCount, Bounds DEF TypeOK, Histories
  <2> DEFINE new == IF z = "low" \/ ~expected THEN hist.samples
                    ELSE IF altAge' = 0 THEN 0 ELSE Longer(hist.samples)
  <2>2. new \in 0..Cap
    BY <2>1
  <2> DEFINE left == hist.leftOver /\ altBuf' # <<>>
  <2>3. hist' = [hist EXCEPT !.heardAlt = z, !.leftOver = left, !.samples = new]
    BY DEF onAltitude, TypeOK, Histories
  <2>4. left \in BOOLEAN
    OBVIOUS
  <2> HIDE DEF new, left
  <2> QED BY <2>2, <2>3, <2>4 DEF TypeOK, Histories
<1> QED BY <1>1, <1>2, <1>3 DEF onAltitude, TypeOK, posVars, diagVars

LEMMA RememberedType ==
  ASSUME TypeOK, NEW accepted \in BOOLEAN
  PROVE  Remembered(accepted) \in Histories
<1>1. hist \in Histories
  BY DEF TypeOK
<1>2. [s \in Positions |-> Longer(hist.age[s])] \in [Positions -> 0..Cap]
  BY <1>1, LongerIsCount DEF Histories
<1>3. [s \in Positions |-> IF NotUsed(s) THEN Longer(hist.passed[s]) ELSE 0] \in [Positions -> 0..Cap]
  BY <1>1, LongerIsCount, Bounds DEF Histories
<1>4. Older(IF accepted THEN 0 ELSE hist.velocity, DvlTimeout + Cap) \in 0..(DvlTimeout + Cap + 1)
  <2>1. DvlTimeout + Cap \in Nat /\ hist.velocity \in 0..((DvlTimeout + Cap) + 1)
    BY <1>1, Bounds DEF Histories
  <2>2. /\ Older(hist.velocity, DvlTimeout + Cap) \in 0..((DvlTimeout + Cap) + 1)
        /\ Older(0, DvlTimeout + Cap) \in 0..((DvlTimeout + Cap) + 1)
    BY <2>1, OlderIsAge
  <2> QED BY <2>2
<1>5. (IF "dvl" \in isNew THEN Longer(hist.dvlBusy) ELSE 0) \in 0..Cap
  BY <1>1, LongerIsCount, Bounds DEF Histories
<1>6. /\ hist.frames \cup FrameOf(PositionBy) \in SUBSET {"relative", "absolute"}
      /\ (hist.heardAlt = "near") \in BOOLEAN
  BY <1>1 DEF FrameOf, Histories
<1> QED BY ZenonT(60), <1>1, <1>2, <1>3, <1>4, <1>5, <1>6 DEF Remembered, Histories, Altitudes

LEMMA StepTypes == ASSUME TypeOK, step PROVE TypeOK'
<1>1. hist' \in Histories
  BY RememberedType DEF step
<1>2. isNew' \subseteq Handlers /\ quad' \in BOOLEAN /\ posReset' \in BOOLEAN
  BY DEF step, takePosition, TypeOK
<1>3. /\ gpsAge' \in 0..(DiagTimeout + 2) /\ imuAge' \in 0..(DiagTimeout + 2)
      /\ errorFlag' \in BOOLEAN /\ status' \in {"OK", "WARN", "ERROR"}
  <2>1. /\ DiagTimeout + 1 \in Nat /\ DiagTimeout + 2 = (DiagTimeout + 1) + 1
        /\ gpsAge \in 0..((DiagTimeout + 1) + 1) /\ imuAge \in 0..((DiagTimeout + 1) + 1)
    BY Bounds DEF TypeOK
  <2>2. gpsAge' \in 0..((DiagTimeout + 1) + 1) /\ imuAge' \in 0..((DiagTimeout + 1) + 1)
    BY <2>1, OlderIsAge DEF step, diagnose
  <2>3. errorFlag' \in BOOLEAN
    BY DEF step, diagnose, FlagInTheEnd
  <2>4. status' \in {"OK", "WARN", "ERROR"}
    BY DEF step, diagnose, StatusOf
  <2> QED BY <2>1, <2>2, <2>3, <2>4
<1>4. /\ newAlt' = FALSE /\ altReset' \in BOOLEAN
      /\ altAge' \in 0..(AltTimeout + 1)
  BY OlderIsAge, Bounds DEF step, takeAltitude, TypeOK
<1>5. PICK accepted \in BOOLEAN : takeDvl(accepted)
  BY DEF step
<1>6. dvlAge' \in 0..(DvlTimeout + 1) /\ unsafeDvl' \in BOOLEAN
  <2>1. dvlAge' \in 0..(DvlTimeout + 1)
    BY <1>5, OlderIsAge, Bounds DEF takeDvl, TypeOK
  <2>2. unsafeDvl' \in BOOLEAN
    BY <1>5 DEF takeDvl, TypeOK
  <2> QED BY <2>1, <2>2
<1>7. 0 \in 0..Len(Order)
  BY DEF Order
<1> QED BY <1>1, <1>2, <1>3, <1>4, <1>6, <1>7 DEF step, takePosition, takeAltitude, TypeOK

LEMMA TypeStep == TypeOK /\ [Next]_vars => TypeOK'
<1> SUFFICES ASSUME TypeOK, [Next]_vars PROVE TypeOK'
  OBVIOUS
<1>1. CASE onGps \/ onLocalPos \/ onImu \/ deltaPosCallback
             \/ \E converted \in BOOLEAN : onDvl(converted)
  BY <1>1, SensorTypes
<1>2. CASE onUSBL \/ onSurfacePos
  BY <1>2, HalfTypes
<1>3. CASE \/ onReset
           \/ \E relative \in BOOLEAN : KFmodeCallback(relative)
           \/ \E flag \in BOOLEAN : onAltSampling(flag)
           \/ \E n \in SampleCounts : onAltNSamples(n)
  BY <1>3, OperatorTypes
<1>4. CASE \E z \in Altitudes, expected \in BOOLEAN : onAltitude(z, expected)
  BY <1>4, AltitudeTypes
<1>5. CASE step
  BY <1>5, StepTypes
<1>6. CASE UNCHANGED vars
  BY <1>6 DEF vars, posVars, diagVars, altVars, TypeOK
<1> QED BY <1>1, <1>2, <1>3, <1>4, <1>5, <1>6 DEF Next

LEMMA InitType == Init => TypeOK
<1> SUFFICES ASSUME Init PROVE TypeOK
  OBVIOUS
<1>1. hist \in Histories
  BY Bounds DEF Init, HistInit, Histories, Altitudes
<1>2. altBuf \in Seq({"near", "far"}) /\ 0 \in 0..Len(Order)
  BY DEF Init, Order
<1>3. /\ 0 \in 0..(DiagTimeout + 2) /\ 0 \in 0..(DvlTimeout + 1)
      /\ AltTimeout + 1 \in 0..(AltTimeout + 1) /\ 0 \in 0..MaxOps
  BY Bounds
<1> QED BY <1>1, <1>2, <1>3 DEF Init, TypeOK

(***************************************************************************)
(* The estimator's state keeps its type.                                   *)
(***************************************************************************)
THEOREM Typing == Spec => []TypeOK
BY InitType, TypeStep, PTL DEF Spec

(***************************************************************************)
(* Positions: one that waits is no older than the time for which there was *)
(* no use for it.                                                          *)
(***************************************************************************)
Waits(s) == IF s = "quad" THEN quad ELSE s \in isNew

WaitingKnown == \A s \in Positions : Waits(s) => hist.age[s] <= hist.passed[s]

\* A callback that brings one position.
LEMMA CameKeepsWaiting ==
  ASSUME TypeOK, WaitingKnown, NEW t \in Positions, Came(t),
         \A s \in Positions \ {t} : Waits(s)' => Waits(s)
  PROVE  WaitingKnown'
<1>1. /\ hist'.passed = hist.passed
      /\ hist'.age = [hist.age EXCEPT ![t] = 0]
      /\ hist.passed \in [Positions -> 0..Cap] /\ hist.age \in [Positions -> 0..Cap]
  BY DEF Came, TypeOK, Histories
<1>2. hist.passed[t] \in 0..Cap /\ hist'.age[t] = 0
  BY <1>1
<1>3. 0 <= hist.passed[t]
  BY <1>2, Bounds
<1> QED BY <1>1, <1>2, <1>3 DEF WaitingKnown

\* Any other callback.
LEMMA OthersKeepWaiting ==
  ASSUME WaitingKnown, hist'.age = hist.age, hist'.passed = hist.passed,
         \A s \in Positions : Waits(s)' => Waits(s)
  PROVE  WaitingKnown'
BY DEF WaitingKnown

\* What still waits after a step had no use in it.
LEMMA StillWaiting ==
  ASSUME step, NEW s \in Positions, Waits(s)'
  PROVE  Waits(s) /\ NotUsed(s)
<1>1. isNew' = isNew \ AskedFor /\ quad' = (quad /\ ~Relative)
  BY DEF step, takePosition
<1>2. CASE s = "quad"
  BY <1>1, <1>2 DEF Waits, NotUsed
<1>3. CASE s \in {"gps", "lpos"}
  BY <1>1, <1>3 DEF Waits, NotUsed, AskedFor
<1>4. CASE s = "iusbl"
  <2>1. "iusbl" \in isNew /\ PositionBy # "iusbl"
    BY <1>1, <1>4 DEF Waits, AskedFor
  <2>2. PositionBy \in {"gps", "lpos", "quad"}
    BY <2>1 DEF PositionBy
  <2> QED BY <1>4, <2>1, <2>2 DEF Waits, NotUsed
<1> QED BY <1>2, <1>3, <1>4 DEF Positions

LEMMA StepKeepsWaiting == ASSUME TypeOK, WaitingKnown, step PROVE WaitingKnown'
<1> SUFFICES ASSUME NEW s \in Positions, Waits(s)' PROVE hist'.age[s] <= hist'.passed[s]
  BY DEF WaitingKnown
<1>1. Waits(s) /\ NotUsed(s)
  BY StillWaiting
<1>2. hist.age[s] <= hist.passed[s]
  BY <1>1 DEF WaitingKnown
<1>3. hist.age[s] \in 0..Cap /\ hist.passed[s] \in 0..Cap
  BY DEF TypeOK, Histories
<1>4. PICK accepted \in BOOLEAN : hist' = Remembered(accepted)
  BY DEF step
<1>5. hist'.age[s] = Longer(hist.age[s]) /\ hist'.passed[s] = Longer(hist.passed[s])
  BY <1>1, <1>4 DEF Remembered, TypeOK, Histories
<1> QED BY <1>2, <1>3, <1>5, Bounds DEF Longer

LEMMA WaitingStep == TypeOK /\ WaitingKnown /\ [Next]_vars => WaitingKnown'
<1> SUFFICES ASSUME TypeOK, WaitingKnown, [Next]_vars PROVE WaitingKnown'
  OBVIOUS
<1>1. CASE onGps
  BY <1>1, CameKeepsWaiting DEF onGps, Waits, Positions
<1>2. CASE onLocalPos
  BY <1>2, CameKeepsWaiting DEF onLocalPos, Waits, Positions
<1>3. CASE deltaPosCallback
  BY <1>3, CameKeepsWaiting DEF deltaPosCallback, Waits, Positions
<1>4. CASE onUSBL \/ onSurfacePos
  <2>1. PICK half \in {"fix", "remote"} : onHalf(half)
    BY <1>4 DEF onUSBL, onSurfacePos
  <2>2. CASE Came("iusbl") /\ isNew' = isNew \cup {"iusbl"}
    BY <2>1, <2>2, CameKeepsWaiting DEF onHalf, Waits, Positions
  <2>3. CASE UNCHANGED <<isNew, hist>>
    BY <2>1, <2>3, OthersKeepWaiting DEF onHalf, Waits
  <2> QED BY <2>1, <2>2, <2>3 DEF onHalf
<1>5. CASE onImu
  BY <1>5, OthersKeepWaiting DEF onImu, Waits, Positions
<1>6. ASSUME NEW converted \in BOOLEAN, onDvl(converted) PROVE WaitingKnown'
  BY <1>6, OthersKeepWaiting DEF onDvl, Waits, Positions
<1>7. ASSUME NEW relative \in BOOLEAN, KFmodeCallback(relative) PROVE WaitingKnown'
  BY <1>7, OthersKeepWaiting DEF KFmodeCallback, Waits, TypeOK, Histories
<1>8. CASE onReset
  BY <1>8, OthersKeepWaiting DEF onReset, Waits
<1>9. ASSUME NEW flag \in BOOLEAN, onAltSampling(flag) PROVE WaitingKnown'
  BY <1>9, OthersKeepWaiting DEF onAltSampling, Waits, posVars, TypeOK, Histories
<1>10. ASSUME NEW n \in SampleCounts, onAltNSamples(n) PROVE WaitingKnown'
  BY <1>10, OthersKeepWaiting DEF onAltNSamples, Waits, posVars
<1>11. ASSUME NEW z \in Altitudes, NEW expected \in BOOLEAN, onAltitude(z, expected)
       PROVE  WaitingKnown'
  <2>1. hist'.age = hist.age /\ hist'.passed = hist.passed /\ UNCHANGED posVars
    BY <1>11 DEF onAltitude, TypeOK, Histories
  <2> QED BY <2>1, OthersKeepWaiting DEF Waits, posVars
<1>12. CASE step
  BY <1>12, StepKeepsWaiting
<1>13. CASE UNCHANGED vars
  BY <1>13, OthersKeepWaiting DEF vars, posVars, Waits
<1> QED
  BY <1>1, <1>2, <1>3, <1>4, <1>5, <1>6, <1>7, <1>8, <1>9, <1>10, <1>11, <1>12, <1>13 DEF Next

LEMMA UsedIsWaiting == ASSUME PositionBy # "none" PROVE PositionBy \in Positions /\ Waits(PositionBy)
BY DEF PositionBy, Positions, Waits

(***************************************************************************)
(* No position is used twice or late, for every set of position sources    *)
(* and every sequence of mode changes.                                     *)
(***************************************************************************)
THEOREM PositionsAreFresh == Spec => []NoStalePosition
<1>1. Init => WaitingKnown
  BY DEF Init, WaitingKnown, Waits
<1>2. WaitingKnown => NoStalePosition
  BY UsedIsWaiting DEF WaitingKnown, NoStalePosition
<1> QED BY <1>1, <1>2, WaitingStep, Typing, PTL DEF Spec

(***************************************************************************)
(* The mode.  From the first message on KFmodePast is the mode, so that    *)
(* every change is noticed, and what has been used since the covariance    *)
(* was reset is of the mode there is now.                                  *)
(***************************************************************************)
ModeNoted ==
  /\ hist.modeKnown => modePast = mode
  /\ "relative" \in hist.frames => Relative
  /\ "absolute" \in hist.frames => ~Relative

\* Who leaves the mode alone, and uses no position.
LEMMA OthersKeepMode ==
  ASSUME TypeOK, [Next]_vars, ~step,
         ~\E relative \in BOOLEAN : KFmodeCallback(relative)
  PROVE  /\ UNCHANGED <<mode, modePast>>
         /\ hist'.modeKnown = hist.modeKnown
         /\ hist'.frames \subseteq hist.frames
<1> USE DEF TypeOK, Histories
<1>1. CASE onGps \/ onLocalPos \/ deltaPosCallback \/ onUSBL \/ onSurfacePos
  BY <1>1 DEF onGps, onLocalPos, deltaPosCallback, onUSBL, onSurfacePos, onHalf, Came
<1>2. CASE onImu \/ onReset \/ UNCHANGED vars
           \/ \E converted \in BOOLEAN : onDvl(converted)
  BY <1>2 DEF onImu, onReset, onDvl, vars, posVars
<1>3. CASE \/ \E flag \in BOOLEAN : onAltSampling(flag)
           \/ \E n \in SampleCounts : onAltNSamples(n)
           \/ \E z \in Altitudes, expected \in BOOLEAN : onAltitude(z, expected)
  BY <1>3 DEF onAltSampling, onAltNSamples, onAltitude, posVars
<1> QED BY <1>1, <1>2, <1>3 DEF Next

LEMMA SwitchStep ==
  TypeOK /\ ModeNoted /\ [Next]_vars => ModeNoted'
<1> SUFFICES ASSUME TypeOK, ModeNoted, [Next]_vars PROVE ModeNoted'
  OBVIOUS
<1>1. ASSUME NEW relative \in BOOLEAN, KFmodeCallback(relative) PROVE ModeNoted'
  <2>1. /\ mode' = relative /\ modePast' = relative
        /\ posReset' = (posReset \/ modePast # relative)
        /\ hist'.frames = IF posReset' \/ ~hist.modeKnown THEN {} ELSE hist.frames
    BY <1>1 DEF KFmodeCallback, TypeOK, Histories
  <2>2. CASE hist'.frames = {}
    BY <2>1, <2>2 DEF ModeNoted
  <2>3. CASE hist'.frames = hist.frames /\ hist.modeKnown /\ modePast = relative
    BY <2>1, <2>3 DEF ModeNoted, Relative
  <2> QED BY <2>1, <2>2, <2>3
<1>2. CASE step
  <2>1. PICK accepted \in BOOLEAN : hist' = Remembered(accepted)
    BY <1>2 DEF step
  <2>2. /\ hist'.modeKnown = hist.modeKnown
        /\ hist'.frames = hist.frames \cup FrameOf(PositionBy)
    BY <2>1 DEF Remembered, TypeOK, Histories
  <2>3. UNCHANGED <<mode, modePast>>
    BY <1>2 DEF step, takePosition
  <2>4. /\ "relative" \in FrameOf(PositionBy) => Relative
        /\ "absolute" \in FrameOf(PositionBy) => ~Relative
    BY DEF FrameOf, PositionBy
  <2> QED BY <2>2, <2>3, <2>4 DEF ModeNoted, Relative
<1>3. CASE ~step /\ ~\E relative \in BOOLEAN : KFmodeCallback(relative)
  BY <1>3, OthersKeepMode DEF ModeNoted, Relative
<1> QED BY <1>1, <1>2, <1>3

(***************************************************************************)
(* Between two resets of the position's covariance relative positions and  *)
(* those of GPS and local ones do not mix, for every sequence of mode      *)
(* changes, resets and positions after the first mode message.  The        *)
(* acoustic fix is left out: it is absolute and used in both modes.        *)
(***************************************************************************)
THEOREM FramesKeptApart == Spec => []FramesNotMixed
<1>1. Init => ModeNoted
  BY DEF Init, HistInit, ModeNoted
<1>2. ModeNoted => FramesNotMixed
  BY DEF ModeNoted, FramesNotMixed
<1> QED BY <1>1, <1>2, SwitchStep, Typing, PTL DEF Spec

(***************************************************************************)
(* The status and the velocity change in the step only.                    *)
(***************************************************************************)
LEMMA OthersKeepStatus ==
  ASSUME TypeOK, [Next]_vars, ~step
  PROVE  /\ UNCHANGED diagVars
         /\ hist'.velocity = hist.velocity /\ hist'.dvlBusy = hist.dvlBusy
<1> USE DEF TypeOK, Histories
<1>1. CASE onGps \/ onLocalPos \/ deltaPosCallback \/ onUSBL \/ onSurfacePos
  BY <1>1 DEF onGps, onLocalPos, deltaPosCallback, onUSBL, onSurfacePos, onHalf, Came
<1>2. CASE onImu \/ onReset \/ UNCHANGED vars
           \/ \E converted \in BOOLEAN : onDvl(converted)
  BY <1>2 DEF onImu, onReset, onDvl, vars
<1>3. CASE \/ \E flag \in BOOLEAN : onAltSampling(flag)
           \/ \E n \in SampleCounts : onAltNSamples(n)
           \/ \E relative \in BOOLEAN : KFmodeCallback(relative)
  BY <1>3 DEF onAltSampling, onAltNSamples, KFmodeCallback
<1>4. CASE \E z \in Altitudes, expected \in BOOLEAN : onAltitude(z, expected)
  BY <1>4 DEF onAltitude
<1> QED BY <1>1, <1>2, <1>3, <1>4 DEF Next

LEMMA StatusStep == TypeOK /\ StatusIsTrue /\ [Next]_vars => StatusIsTrue'
<1> SUFFICES ASSUME TypeOK, StatusIsTrue, [Next]_vars PROVE StatusIsTrue'
  OBVIOUS
<1>1. CASE step
  <2> DEFINE T == DiagTimeout + 1
  <2>1. /\ T \in Nat /\ DiagTimeout \in Nat /\ gpsAge \in Nat /\ imuAge \in Nat
    BY Bounds DEF TypeOK
  <2>2. /\ gpsAge' = Older(IF PositionBy \in {"gps", "lpos"} THEN 0 ELSE gpsAge, T)
        /\ imuAge' = Older(IF "imu" \in isNew THEN 0 ELSE imuAge, T)
        /\ errorFlag' = FlagInTheEnd
        /\ status' = "OK" => ~GpsMissing /\ ~ImuMissing
    BY <1>1 DEF step, diagnose, StatusOf
  <2>3. ASSUME status' = "OK" PROVE gpsAge' <= T /\ imuAge' <= T
    BY <2>1, <2>2, <2>3 DEF GpsMissing, ImuMissing, Older
  <2>4. ASSUME errorFlag' PROVE gpsAge' > T \/ imuAge' > T
    <3>1. "imu" \notin isNew /\ FlagInertial
      BY <2>2, <2>4 DEF FlagInTheEnd
    <3>2. CASE ImuMissing
      BY <2>1, <2>2, <3>1, <3>2 DEF ImuMissing, Older
    <3>3. CASE FlagRaised /\ PositionBy \notin {"gps", "lpos"}
      <4>1. GpsMissing \/ gpsAge > T \/ imuAge > T
        BY <3>3 DEF FlagRaised, StatusIsTrue
      <4> QED BY <2>1, <2>2, <3>1, <3>3, <4>1 DEF GpsMissing, Older
    <3> QED BY <3>1, <3>2, <3>3 DEF FlagInertial, FlagPosition
  <2> QED BY <2>3, <2>4 DEF StatusIsTrue
<1>2. CASE ~step
  BY <1>2, OthersKeepStatus DEF StatusIsTrue, diagVars
<1> QED BY <1>1, <1>2

(***************************************************************************)
(* The status reported is true, for every timeout.                         *)
(***************************************************************************)
THEOREM StatusTrue == Spec => []StatusIsTrue
<1>1. Init => StatusIsTrue
  BY Bounds DEF Init, StatusIsTrue
<1> QED BY <1>1, StatusStep, Typing, PTL DEF Spec

(***************************************************************************)
(* The velocity: dvl_time tells how long ago a velocity was used, as long  *)
(* as it matters.                                                          *)
(***************************************************************************)
VelocityNoted ==
  dvlAge = IF hist.velocity > DvlTimeout THEN DvlTimeout + 1 ELSE hist.velocity

LEMMA VelocityStep ==
  TypeOK /\ VelocityNoted /\ UnsafeTold /\ [Next]_vars => VelocityNoted' /\ UnsafeTold'
<1> SUFFICES ASSUME TypeOK, VelocityNoted, UnsafeTold, [Next]_vars
             PROVE  VelocityNoted' /\ UnsafeTold'
  OBVIOUS
<1>1. CASE step
  <2> DEFINE T == DvlTimeout
             v == hist.velocity
             b == hist.dvlBusy
             came == "dvl" \in isNew
  <2>1. /\ T \in Nat /\ Cap \in Nat
        /\ v \in 0..(T + Cap + 1) /\ b \in 0..Cap /\ dvlAge \in 0..(T + 1)
        /\ hist \in Histories
    BY Bounds DEF TypeOK, Histories
  <2>2. PICK accepted \in BOOLEAN : takeDvl(accepted) /\ hist' = Remembered(accepted)
    BY <1>1 DEF step
  <2>3. /\ hist'.velocity = Older(IF accepted THEN 0 ELSE v, T + Cap)
        /\ hist'.dvlBusy = IF came THEN Longer(b) ELSE 0
    BY <2>1, <2>2 DEF Remembered, Histories
  <2>4. /\ accepted => came
        /\ dvlAge' = Older(IF accepted THEN 0 ELSE dvlAge, T)
        /\ unsafeDvl' = IF came THEN unsafeDvl /\ ~accepted ELSE unsafeDvl \/ dvlAge > T
    BY <2>2 DEF takeDvl
  <2>5. dvlAge = IF v > T THEN T + 1 ELSE v
    BY DEF VelocityNoted
  <2>6. v > T + 1 /\ ~unsafeDvl => b >= v - (T + 1)
    BY DEF UnsafeTold
  <2>7. CASE accepted
    <3>1. hist'.velocity = 1 /\ dvlAge' = 1
      BY <2>1, <2>3, <2>4, <2>7 DEF Older
    <3> QED BY <2>1, <3>1 DEF VelocityNoted, UnsafeTold
  <2>8. CASE ~accepted
    <3>1. /\ hist'.velocity = IF v > T + Cap THEN v ELSE v + 1
          /\ dvlAge' = IF dvlAge > T THEN dvlAge ELSE dvlAge + 1
      BY <2>3, <2>4, <2>8 DEF Older
    <3>2. VelocityNoted'
      BY <2>1, <2>5, <3>1 DEF VelocityNoted
    <3>3. ASSUME hist'.velocity > T + 1, ~unsafeDvl'
          PROVE  hist'.dvlBusy >= hist'.velocity - (T + 1)
      <4>1. dvlAge > T /\ v > T
        BY <2>1, <2>5, <3>1, <3>3
      <4>2. came /\ ~unsafeDvl
        BY <2>4, <2>8, <3>3, <4>1
      <4>3. hist'.dvlBusy = IF b < Cap THEN b + 1 ELSE b
        BY <2>3, <4>2 DEF Longer
      <4>4. v = T + 1 \/ b >= v - (T + 1)
        BY <2>1, <2>6, <4>1, <4>2
      <4> QED BY <2>1, <3>1, <3>3, <4>3, <4>4
    <3> QED BY <3>2, <3>3 DEF UnsafeTold
  <2> QED BY <2>7, <2>8
<1>2. CASE ~step
  BY <1>2, OthersKeepStatus DEF VelocityNoted, UnsafeTold, diagVars
<1> QED BY <1>1, <1>2

(***************************************************************************)
(* A DVL that fails is reported, unless its messages are rejected in every *)
(* step, for every timeout.                                                *)
(***************************************************************************)
THEOREM UnsafeIsTold == Spec => []UnsafeTold
<1>1. Init => VelocityNoted /\ UnsafeTold
  BY Bounds DEF Init, HistInit, VelocityNoted, UnsafeTold
<1> QED BY <1>1, VelocityStep, Typing, PTL DEF Spec

(***************************************************************************)
(* The altitude: if none were left there when the sampling was switched    *)
(* off, the buffer holds samples of this silence only.                     *)
(***************************************************************************)
BufferOfThisSilence ==
  ~hist.leftOver =>
    /\ altBuf # <<>> => altAge > AltTimeout /\ altSample
    /\ Len(altBuf) <= hist.samples \/ hist.samples = Cap

LEMMA OthersKeepBuffer ==
  ASSUME TypeOK, [Next]_vars, ~step,
         ~\E flag \in BOOLEAN : onAltSampling(flag),
         ~\E z \in Altitudes, expected \in BOOLEAN : onAltitude(z, expected)
  PROVE  /\ UNCHANGED <<newAlt, altBuf, altAge, altSample>>
         /\ hist'.leftOver = hist.leftOver /\ hist'.samples = hist.samples
<1> USE DEF TypeOK, Histories
<1>1. CASE onGps \/ onLocalPos \/ deltaPosCallback \/ onUSBL \/ onSurfacePos
  BY <1>1 DEF onGps, onLocalPos, deltaPosCallback, onUSBL, onSurfacePos, onHalf, Came, altVars
<1>2. CASE onImu \/ onReset \/ UNCHANGED vars
           \/ \E converted \in BOOLEAN : onDvl(converted)
  BY <1>2 DEF onImu, onReset, onDvl, vars, altVars
<1>3. CASE \/ \E n \in SampleCounts : onAltNSamples(n)
           \/ \E relative \in BOOLEAN : KFmodeCallback(relative)
  BY <1>3 DEF onAltNSamples, KFmodeCallback, altVars
<1> QED BY <1>1, <1>2, <1>3 DEF Next

LEMMA AltitudeKeepsBuffer ==
  ASSUME TypeOK, BufferOfThisSilence,
         NEW z \in Altitudes, NEW expected \in BOOLEAN, onAltitude(z, expected)
  PROVE  BufferOfThisSilence'
<1> SUFFICES ASSUME ~hist'.leftOver PROVE BufferOfThisSilence'
  BY DEF BufferOfThisSilence
<1>1. /\ hist'.leftOver = (hist.leftOver /\ altBuf' # <<>>)
      /\ hist'.samples = IF z = "low" \/ ~expected THEN hist.samples
                         ELSE IF altAge' = 0 THEN 0 ELSE Longer(hist.samples)
      /\ altSample' = altSample
  BY DEF onAltitude, TypeOK, Histories
<1>0. CASE altBuf' = <<>>
  <2>1. hist'.samples \in 0..Cap /\ Len(<<>>) = 0
    BY <1>1, Bounds DEF TypeOK, Histories, Longer
  <2> QED BY <1>0, <2>1 DEF BufferOfThisSilence
<1> SUFFICES ASSUME altBuf' # <<>> PROVE BufferOfThisSilence'
  BY <1>0
<1>2. /\ altBuf # <<>> => altAge > AltTimeout /\ altSample
      /\ Len(altBuf) <= hist.samples \/ hist.samples = Cap
  BY <1>1 DEF BufferOfThisSilence
<1>3. /\ hist.samples \in 0..Cap /\ Len(altBuf) \in Nat /\ Len(<<>>) = 0
      /\ altAge \in Nat /\ AltTimeout \in Nat /\ Cap \in Nat
  BY Bounds DEF TypeOK, Histories
<1>4. CASE UNCHANGED <<newAlt, altAge, altBuf>>
  <2>1. hist'.samples \in {0, hist.samples, Longer(hist.samples)}
        /\ (hist'.samples = 0 => hist.samples = 0 \/ altAge = 0)
    BY <1>1, <1>3, <1>4 DEF Longer
  <2>2. altAge = 0 => altBuf = <<>>
    BY <1>2, <1>3
  <2> QED BY <1>1, <1>2, <1>3, <1>4, <2>1, <2>2 DEF Longer, BufferOfThisSilence
<1>5. CASE /\ z \in {"near", "far"} /\ expected
           /\ newAlt' = TRUE /\ altAge' = 0 /\ altBuf' = <<>>
  BY <1>1, <1>2, <1>3, <1>5 DEF BufferOfThisSilence
<1>6. CASE /\ z \in {"near", "far"} /\ expected
           /\ altAge > AltTimeout /\ altSample
           /\ altBuf' = Buffered(z) /\ UNCHANGED <<newAlt, altAge>>
  <2>1. Len(Buffered(z)) <= Len(altBuf) + 1 /\ Len(Buffered(z)) \in Nat
    BY <1>6, BufferedSamples
  <2>2. hist'.samples = Longer(hist.samples)
    BY <1>1, <1>3, <1>6
  <2> QED BY <1>1, <1>2, <1>3, <1>6, <2>1, <2>2 DEF Longer, BufferOfThisSilence
<1>7. CASE /\ z \in {"near", "far"} /\ expected
           /\ ~(altAge > AltTimeout /\ altSample)
           /\ newAlt' = TRUE /\ altAge' = 0 /\ UNCHANGED altBuf
  <2>1. altBuf = <<>> /\ altBuf' = <<>>
    BY <1>2, <1>7
  <2> QED BY <1>1, <1>2, <1>3, <1>7, <2>1 DEF BufferOfThisSilence
<1> QED BY <1>4, <1>5, <1>6, <1>7, AltitudeCases

LEMMA BufferStep == TypeOK /\ BufferOfThisSilence /\ [Next]_vars => BufferOfThisSilence'
<1> SUFFICES ASSUME TypeOK, BufferOfThisSilence, [Next]_vars PROVE BufferOfThisSilence'
  OBVIOUS
<1>1. CASE step
  <2>1. PICK accepted \in BOOLEAN : hist' = Remembered(accepted)
    BY <1>1 DEF step
  <2>2. hist'.leftOver = hist.leftOver /\ hist'.samples = hist.samples
    BY <2>1 DEF Remembered, TypeOK, Histories
  <2>3. /\ UNCHANGED <<altBuf, altSample>>
        /\ altAge > AltTimeout => altAge' > AltTimeout
    BY <1>1, Bounds DEF step, takeAltitude, Older, TypeOK
  <2> QED BY <2>2, <2>3 DEF BufferOfThisSilence
<1>2. ASSUME NEW flag \in BOOLEAN, onAltSampling(flag) PROVE BufferOfThisSilence'
  <2>1. /\ altSample' = flag /\ UNCHANGED <<altBuf, altAge>>
        /\ hist'.leftOver = (hist.leftOver \/ (~flag /\ altBuf # <<>>))
        /\ hist'.samples = hist.samples
    BY <1>2 DEF onAltSampling, TypeOK, Histories
  <2> QED BY <2>1 DEF BufferOfThisSilence
<1>3. ASSUME NEW z \in Altitudes, NEW expected \in BOOLEAN, onAltitude(z, expected)
      PROVE  BufferOfThisSilence'
  BY <1>3, AltitudeKeepsBuffer
<1>4. CASE /\ ~step /\ ~\E flag \in BOOLEAN : onAltSampling(flag)
           /\ ~\E z \in Altitudes, expected \in BOOLEAN : onAltitude(z, expected)
  BY <1>4, OthersKeepBuffer DEF BufferOfThisSilence
<1> QED BY <1>1, <1>2, <1>3, <1>4

LEMMA AcceptedWithSamples ==
  ASSUME TypeOK, BufferOfThisSilence, [Next]_vars,
         altAge > AltTimeout, newAlt', ~newAlt, altSample, ~hist.leftOver
  PROVE  hist.samples + 1 >= nsamples
<1>1. CASE step
  BY <1>1 DEF step, takeAltitude
<1>2. ASSUME NEW flag \in BOOLEAN, onAltSampling(flag) PROVE FALSE
  BY <1>2 DEF onAltSampling
<1>3. ASSUME NEW z \in Altitudes, NEW expected \in BOOLEAN, onAltitude(z, expected)
      PROVE  hist.samples + 1 >= nsamples
  <2>1. Len(altBuf) <= hist.samples \/ hist.samples = Cap
    BY DEF BufferOfThisSilence
  <2>2. z \in {"near", "far"} /\ Len(Buffered(z)) >= nsamples
    BY <1>3, <2>1, AltitudeCases
  <2>3. Len(Buffered(z)) <= Len(altBuf) + 1 /\ Len(Buffered(z)) \in Nat
    BY <2>2, BufferedSamples
  <2>4. /\ hist.samples \in 0..Cap /\ Len(altBuf) \in Nat /\ Cap \in Nat
        /\ nsamples \in Nat /\ nsamples <= Cap + 1
    BY Bounds DEF TypeOK, Histories
  <2> QED BY <2>1, <2>2, <2>3, <2>4
<1> QED BY <1>1, <1>2, <1>3, OthersKeepBuffer

(***************************************************************************)
(* After a silence an altitude is accepted only with enough samples of     *)
(* this silence, for every timeout and all numbers of samples.             *)
(***************************************************************************)
THEOREM AltitudesAreTrusted == Spec => AltitudeTrusted
<1>1. Init => BufferOfThisSilence
  BY Bounds DEF Init, HistInit, BufferOfThisSilence
<1>2. TypeOK /\ BufferOfThisSilence /\ [Next]_vars
        => [altAge > AltTimeout /\ newAlt' /\ ~newAlt /\ altSample /\ ~hist.leftOver
              => hist.samples + 1 >= nsamples]_vars
  BY AcceptedWithSamples
<1> QED BY <1>1, <1>2, BufferStep, Typing, PTL DEF Spec, AltitudeTrusted
==============================================================================
