----------------------------- MODULE Estimator3D -----------------------------
(***************************************************************************)
(* The navigation estimator of ROVs and AUVs: EKF3D.cpp with the sensor    *)
(* handlers of SensorHandlers.cpp.  One thread: the loop predicts, takes   *)
(* what the handlers have collected, corrects the estimate, publishes,     *)
(* sleeps and then runs the callbacks of the messages that wait            *)
(* (spinOnce).                                                             *)
(*                                                                         *)
(* The numbers of the Kalman filter are abstracted.  What is kept is the   *)
(* control: which measurement corrects the estimate in which step, how old *)
(* it is, what is dismissed, what times out and what is reported.  Ages    *)
(* are counted in steps.  The outcome of a test on numbers is any, except  *)
(* that a covariance of 10000 lets every altitude pass.                    *)
(*                                                                         *)
(* A topic brings at most one message between two steps (queues of one).   *)
(* The callbacks between two steps run in the order of Topic numbers: they *)
(* change different variables, save those of the altitude's topics, where  *)
(* a change of the sampling after an altitude is as good as one before the *)
(* altitude of the next step.                                              *)
(***************************************************************************)
EXTENDS Naturals, Sequences

CONSTANTS
  Topics,         \* topics that somebody publishes on
  AbsoluteEKF,    \* absoluteEKF: no relative mode
  DiagTimeout,    \* a missing measurement is reported after 5 s
  DvlTimeout,     \* dvl_timeout
  AltTimeout,     \* altitude_cov_timeout
  SampleCounts,   \* values of nsamples_alt, the first one and those of the topic
  Cap,            \* (bound) histories count up to here
  MaxOps          \* (bound) messages on the topics of the operator

Order == <<"KFmode", "reset_nav_covariance", "gps", "local_position_in", "quad_delta_pos", "usbl_fix",
           "remote_position", "imu", "dvl", "use_alt_sampling", "alt_n_samples",
           "altitude">>

ASSUME TopicsAssumption ==
         Topics \subseteq {Order[i] : i \in 1..Len(Order)}
ASSUME TimesAssumption ==
         /\ AbsoluteEKF \in BOOLEAN
         /\ DiagTimeout \in Nat /\ DvlTimeout \in Nat /\ AltTimeout \in Nat
         /\ SampleCounts \subseteq Nat \ {0} /\ SampleCounts # {}
ASSUME BoundsAssumption ==
         /\ Cap \in Nat /\ MaxOps \in Nat
         /\ \A n \in SampleCounts : n <= Cap + 1

VARIABLES
  isNew,         \* sensor handlers with a measurement not yet taken
  paired,        \* iUSBLHandler: halves of a fix that have arrived
  quad,          \* quadMeasAvailable
  mode,          \* KFmode: positions relative to the other vehicle
  modePast,      \* KFmodePast
  posReset,      \* covariance of the position reset and not corrected since
  gpsAge,        \* steps since diagnostic_time_gps_
  imuAge,        \* steps since diagnostic_time_imu_
  errorFlag,     \* diagnostic_error_flag
  status,        \* status published with the last state
  dvlAge,        \* steps since dvl_time
  unsafeDvl,     \* last value published on unsafe_dvl
  newAlt,        \* newMeas(altitude)
  altAge,        \* steps since last_alt
  altReset,      \* covariance of the altitude reset and not corrected since
  altBuf,        \* altbuf
  altSample,     \* alt_sample
  nsamples,      \* nsamples_alt
  last,          \* number of the last topic handled since the step
  ops,           \* messages of the operator
  hist           \* (history) see below

posVars  == <<isNew, paired, quad, mode, modePast, posReset>>
diagVars == <<gpsAge, imuAge, errorFlag, status, dvlAge, unsafeDvl>>
altVars  == <<newAlt, altAge, altReset, altBuf, altSample, nsamples>>
vars     == <<posVars, diagVars, altVars, last, ops, hist>>

Handlers  == {"gps", "lpos", "imu", "dvl", "iusbl"}
Positions == {"gps", "lpos", "quad", "iusbl"}

\* Altitudes: too low to be accepted, and two that are too far apart for
\* the accepted variance.
Altitudes == {"low", "near", "far"}

Older(n, bound) == IF n > bound THEN n ELSE n + 1
Longer(n) == IF n < Cap THEN n + 1 ELSE n

(***************************************************************************)
(* History: how long ago each position came, for how many steps now the    *)
(* estimator had no use for it, how long ago a velocity corrected the      *)
(* estimate, for how many steps now DVL messages have come without a       *)
(* break, whether a message has set the mode, in which frames positions    *)
(* have corrected the estimate since the covariance was reset (or the mode *)
(* became known), altitude samples since the last altitude accepted,       *)
(* whether samples were left in the buffer when the sampling was switched  *)
(* off, the altitude handled since the step, and whether the step before   *)
(* had a good one.                                                         *)
(***************************************************************************)
Histories ==
  [age : [Positions -> 0..Cap], passed : [Positions -> 0..Cap],
   velocity : 0..(DvlTimeout + Cap + 1), dvlBusy : 0..Cap,
   modeKnown : BOOLEAN, frames : SUBSET {"relative", "absolute"},
   samples : 0..Cap, leftOver : BOOLEAN, heardAlt : Altitudes, fed : BOOLEAN]

HistInit ==
  [age |-> [s \in Positions |-> 0], passed |-> [s \in Positions |-> 0],
   velocity |-> 0, dvlBusy |-> 0, modeKnown |-> FALSE, frames |-> {},
   samples |-> 0, leftOver |-> FALSE, heardAlt |-> "low", fed |-> FALSE]

\* KFmodePast is not initialised.
Init ==
  /\ isNew = {} /\ paired = {} /\ quad = FALSE
  /\ mode = FALSE /\ modePast \in BOOLEAN /\ posReset = FALSE
  /\ gpsAge = 0 /\ imuAge = 0 /\ errorFlag = FALSE /\ status = "OK"
  /\ dvlAge = 0 /\ unsafeDvl = FALSE
  /\ newAlt = FALSE /\ altAge = AltTimeout + 1 /\ altReset = FALSE
  /\ altBuf = <<>> /\ altSample \in BOOLEAN /\ nsamples \in SampleCounts
  /\ last = 0 /\ ops = 0
  /\ hist = HistInit

------------------------------------------------------------------------------
(* Callbacks.                                                              *)

Arrives(topic) ==
  /\ topic \in Topics
  /\ \E i \in (last + 1)..Len(Order) : Order[i] = topic /\ last' = i

OperatorSends(topic) == Arrives(topic) /\ ops < MaxOps /\ ops' = ops + 1

Came(s) == hist' = [hist EXCEPT !.age[s] = 0]

\* A message that cannot be transformed is as good as none.
onGps ==
  /\ Arrives("gps")
  /\ isNew' = isNew \cup {"gps"}
  /\ Came("gps")
  /\ UNCHANGED <<paired, quad, mode, modePast, posReset, diagVars, altVars, ops>>

onLocalPos ==
  /\ Arrives("local_position_in")
  /\ isNew' = isNew \cup {"lpos"}
  /\ Came("lpos")
  /\ UNCHANGED <<paired, quad, mode, modePast, posReset, diagVars, altVars, ops>>

onImu ==
  /\ Arrives("imu")
  /\ isNew' = isNew \cup {"imu"}
  /\ UNCHANGED <<paired, quad, mode, modePast, posReset, diagVars, altVars, ops, hist>>

\* A message that cannot be converted takes the one before with it.
onDvl(converted) ==
  /\ Arrives("dvl")
  /\ isNew' = IF converted THEN isNew \cup {"dvl"} ELSE isNew \ {"dvl"}
  /\ UNCHANGED <<paired, quad, mode, modePast, posReset, diagVars, altVars, ops, hist>>

(* Seeded fault: the halves count as arrived from then on.                 *)
onHalfKeeping(half) ==
  /\ paired' = paired \cup {half}
  /\ IF paired' = {"fix", "remote"}
       THEN isNew' = isNew \cup {"iusbl"} /\ Came("iusbl")
       ELSE UNCHANGED <<isNew, hist>>
  /\ UNCHANGED <<quad, mode, modePast, posReset, diagVars, altVars, ops>>

\* The acoustic fix and the position of the surface vehicle make a position
\* when both have arrived, in either order.  Its age is that of the second
\* half: for how long the first has waited nobody looks at.
onHalf(half) ==
  /\ IF paired \cup {half} = {"fix", "remote"}
       THEN paired' = {} /\ isNew' = isNew \cup {"iusbl"} /\ Came("iusbl")
       ELSE paired' = paired \cup {half} /\ UNCHANGED <<isNew, hist>>
  /\ UNCHANGED <<quad, mode, modePast, posReset, diagVars, altVars, ops>>

onUSBL       == Arrives("usbl_fix") /\ onHalf("fix")
onSurfacePos == Arrives("remote_position") /\ onHalf("remote")

deltaPosCallback ==
  /\ Arrives("quad_delta_pos")
  /\ quad' = TRUE
  /\ Came("quad")
  /\ UNCHANGED <<isNew, paired, mode, modePast, posReset, diagVars, altVars, ops>>

(* Seeded fault: the way back does not note the mode.                      *)
KFmodeCallbackOneWay(relative) ==
  /\ OperatorSends("KFmode")
  /\ ~AbsoluteEKF
  /\ mode' = relative
  /\ modePast' = (modePast \/ relative)
  /\ posReset' = (posReset \/ modePast # modePast')
  /\ hist' = [hist EXCEPT !.modeKnown = TRUE,
                          !.frames = IF posReset' \/ ~hist.modeKnown THEN {} ELSE @]
  /\ UNCHANGED <<isNew, paired, quad, diagVars, altVars>>

\* The mode's change resets the covariance of the position.
KFmodeCallback(relative) ==
  /\ OperatorSends("KFmode")
  /\ ~AbsoluteEKF
  /\ mode' = relative
  /\ modePast' = relative
  /\ posReset' = (posReset \/ modePast # relative)
  /\ hist' = [hist EXCEPT !.modeKnown = TRUE,
                          !.frames = IF posReset' \/ ~hist.modeKnown THEN {} ELSE @]
  /\ UNCHANGED <<isNew, paired, quad, diagVars, altVars>>

onReset ==
  /\ OperatorSends("reset_nav_covariance")
  /\ posReset' = TRUE /\ altReset' = TRUE
  /\ hist' = [hist EXCEPT !.frames = {}]
  /\ UNCHANGED <<isNew, paired, quad, mode, modePast, diagVars,
                 newAlt, altAge, altBuf, altSample, nsamples>>

onAltSampling(flag) ==
  /\ OperatorSends("use_alt_sampling")
  /\ altSample' = flag
  /\ hist' = [hist EXCEPT !.leftOver = @ \/ (~flag /\ altBuf # <<>>)]
  /\ UNCHANGED <<posVars, diagVars, newAlt, altAge, altReset, altBuf, nsamples>>

onAltNSamples(n) ==
  /\ OperatorSends("alt_n_samples")
  /\ nsamples' = n
  /\ UNCHANGED <<posVars, diagVars, newAlt, altAge, altReset, altBuf, altSample, hist>>

\* The samples agree if their variance is no larger than altok_var.
Agree(buffer) == \A i, j \in 1..Len(buffer) : buffer[i] = buffer[j]

AcceptAltitude ==
  /\ newAlt' = TRUE
  /\ altAge' = 0

(* Seeded fault: the samples stay in the buffer.                           *)
SampleKeeping(buffer) ==
  \/ /\ Len(buffer) >= nsamples /\ Agree(buffer)
     /\ AcceptAltitude /\ altBuf' = buffer
  \/ /\ Len(buffer) < nsamples \/ ~Agree(buffer)
     /\ altBuf' = buffer /\ UNCHANGED <<newAlt, altAge>>

\* After a long silence an altitude is accepted when the buffer is full of
\* samples that agree; then the buffer is cleared.
Sample(buffer) ==
  \/ /\ Len(buffer) >= nsamples /\ Agree(buffer)
     /\ AcceptAltitude /\ altBuf' = <<>>
  \/ /\ Len(buffer) < nsamples \/ ~Agree(buffer)
     /\ altBuf' = buffer /\ UNCHANGED <<newAlt, altAge>>

Buffered(z) ==
  LET longer == Append(altBuf, z)
  IN  IF Len(longer) > nsamples THEN Tail(longer) ELSE longer

\* expected: the altitude is as near to the estimate as their covariance
\* lets it be.
onAltitude(z, expected) ==
  /\ Arrives("altitude")
  /\ altReset => expected
  /\ IF z = "low" \/ ~expected
       THEN UNCHANGED <<newAlt, altAge, altBuf>>
       ELSE IF altAge > AltTimeout /\ altSample
         THEN Sample(Buffered(z))
         ELSE AcceptAltitude /\ UNCHANGED altBuf
  /\ hist' = [hist EXCEPT !.heardAlt = z, !.leftOver = @ /\ altBuf' # <<>>,
                 !.samples = IF z = "low" \/ ~expected THEN @
                             ELSE IF altAge' = 0 THEN 0 ELSE Longer(@)]
  /\ UNCHANGED <<posVars, diagVars, altReset, altSample, nsamples, ops>>

------------------------------------------------------------------------------
(* A step of the loop: predict, processMeasurements, update, publishState. *)

Relative == mode /\ ~AbsoluteEKF

\* Where the position of this step comes from.
PositionBy ==
  CASE Relative /\ quad            -> "quad"
    [] ~Relative /\ "gps" \in isNew  -> "gps"
    [] ~Relative /\ "gps" \notin isNew /\ "lpos" \in isNew -> "lpos"
    [] OTHER -> IF "iusbl" \in isNew THEN "iusbl" ELSE "none"

(* Seeded fault: the local position is asked for only without GPS.         *)
AskedInTurn ==
  {"imu", "dvl"} \cup (IF Relative THEN {} ELSE {"gps"})
    \cup (IF PositionBy \in {"lpos", "iusbl"} THEN {PositionBy} ELSE {})

\* The handlers that are asked, and have nothing new from then on.  GPS and
\* local position are asked both, whichever is used; the iUSBL only if
\* there is no other position.
AskedFor ==
  {"imu", "dvl"} \cup (IF Relative THEN {} ELSE {"gps", "lpos"})
    \cup (IF PositionBy = "iusbl" THEN {"iusbl"} ELSE {})

takePosition ==
  /\ isNew' = isNew \ AskedFor
  /\ quad' = (quad /\ ~Relative)
  /\ posReset' = (posReset /\ PositionBy = "none")
  /\ UNCHANGED <<paired, mode, modePast>>

GpsMissing == gpsAge > DiagTimeout
ImuMissing == imuAge > DiagTimeout

\* The error flag after each of the places that set or clear it, in the
\* order of the code.
FlagRaised == errorFlag \/ GpsMissing
FlagPositionKept == FlagRaised        (* Seeded fault: not cleared.       *)
FlagPosition == FlagRaised /\ PositionBy \notin {"gps", "lpos"}
FlagInertial == FlagPosition \/ ImuMissing
FlagInTheEnd == FlagInertial /\ "imu" \notin isNew

\* uncertain: the covariance of the position is large.
StatusOf(uncertain) ==
  IF FlagInTheEnd THEN "ERROR"
  ELSE IF uncertain \/ GpsMissing \/ ImuMissing THEN "WARN" ELSE "OK"

diagnose ==
  /\ gpsAge' = Older(IF PositionBy \in {"gps", "lpos"} THEN 0 ELSE gpsAge, DiagTimeout + 1)
  /\ imuAge' = Older(IF "imu" \in isNew THEN 0 ELSE imuAge, DiagTimeout + 1)
  /\ errorFlag' = FlagInTheEnd
  /\ \E uncertain \in BOOLEAN :
       /\ posReset' => uncertain
       /\ status' = StatusOf(uncertain)

(* Seeded fault: a rejected measurement counts as well.                    *)
takeDvlAlways(accepted) ==
  LET came == "dvl" \in isNew IN
  /\ accepted => came
  /\ dvlAge' = Older(IF came THEN 0 ELSE dvlAge, DvlTimeout)
  /\ unsafeDvl' = IF came THEN FALSE ELSE unsafeDvl \/ dvlAge > DvlTimeout

\* accepted: the velocity passes the tests for outliers and for the
\* maximum speed.
takeDvl(accepted) ==
  LET came == "dvl" \in isNew IN
  /\ accepted => came
  /\ dvlAge' = Older(IF accepted THEN 0 ELSE dvlAge, DvlTimeout)
  /\ unsafeDvl' = IF came THEN unsafeDvl /\ ~accepted
                         ELSE unsafeDvl \/ dvlAge > DvlTimeout

(* Seeded fault: the covariance of the altitude is left alone.             *)
takeAltitudeOnly ==
  /\ newAlt' = FALSE
  /\ altAge' = Older(altAge, AltTimeout)
  /\ altReset' = (altReset /\ ~newAlt)
  /\ UNCHANGED <<altBuf, altSample, nsamples>>

takeAltitude ==
  /\ newAlt' = FALSE
  /\ altAge' = Older(altAge, AltTimeout)
  /\ altReset' = ((altReset \/ altAge > AltTimeout) /\ ~newAlt)
  /\ UNCHANGED <<altBuf, altSample, nsamples>>

NotUsed(s) ==
  CASE s \in {"gps", "lpos"} -> Relative
    [] s = "quad" -> ~Relative
    [] s = "iusbl" -> PositionBy \in {"gps", "lpos", "quad"}

\* The acoustic fix, which is used in both modes, is not counted.
FrameOf(s) ==
  CASE s = "quad" -> {"relative"}
    [] s \in {"gps", "lpos"} -> {"absolute"}
    [] OTHER -> {}

Remembered(accepted) ==
  [hist EXCEPT
     !.age = [s \in Positions |-> Longer(@[s])],
     !.passed = [s \in Positions |-> IF NotUsed(s) THEN Longer(@[s]) ELSE 0],
     !.velocity = Older(IF accepted THEN 0 ELSE @, DvlTimeout + Cap),
     !.dvlBusy = IF "dvl" \in isNew THEN Longer(@) ELSE 0,
     !.frames = @ \cup FrameOf(PositionBy),
     !.fed = hist.heardAlt = "near", !.heardAlt = "low"]

step ==
  /\ takePosition
  /\ diagnose
  /\ takeAltitude
  /\ last' = 0
  /\ \E accepted \in BOOLEAN : takeDvl(accepted) /\ hist' = Remembered(accepted)
  /\ UNCHANGED ops

Next ==
  \/ onGps \/ onLocalPos \/ onImu \/ onUSBL \/ onSurfacePos
  \/ deltaPosCallback \/ onReset
  \/ \E converted \in BOOLEAN : onDvl(converted)
  \/ \E relative \in BOOLEAN : KFmodeCallback(relative)
  \/ \E flag \in BOOLEAN : onAltSampling(flag)
  \/ \E n \in SampleCounts : onAltNSamples(n)
  \/ \E z \in Altitudes, expected \in BOOLEAN : onAltitude(z, expected)
  \/ step

\* The loop runs for ever, at rate Ts.
Spec == Init /\ [][Next]_vars /\ WF_vars(step)

------------------------------------------------------------------------------
(* Properties.                                                             *)

\* The estimator's state is well formed.
TypeOK ==
  /\ isNew \subseteq Handlers
  /\ paired \in {{}, {"fix"}, {"remote"}}
  /\ quad \in BOOLEAN /\ mode \in BOOLEAN /\ modePast \in BOOLEAN
  /\ posReset \in BOOLEAN
  /\ gpsAge \in 0..(DiagTimeout + 2) /\ imuAge \in 0..(DiagTimeout + 2)
  /\ errorFlag \in BOOLEAN /\ status \in {"OK", "WARN", "ERROR"}
  /\ dvlAge \in 0..(DvlTimeout + 1) /\ unsafeDvl \in BOOLEAN
  /\ newAlt \in BOOLEAN /\ altReset \in BOOLEAN
  /\ altAge \in 0..(AltTimeout + 1)
  /\ altBuf \in Seq({"near", "far"})
  /\ altSample \in BOOLEAN /\ nsamples \in SampleCounts
  /\ last \in 0..Len(Order) /\ ops \in 0..MaxOps
  /\ hist \in Histories

(***************************************************************************)
(* No position corrects the estimate twice, and none that waits is used    *)
(* late: a position is used in the step after it came, unless in every     *)
(* step since it came the mode or a better source left it no use.  (After  *)
(* a change of the mode the first position may be that old; and an         *)
(* acoustic fix comes with the second of its halves, however old the first *)
(* is by then.)                                                            *)
(***************************************************************************)
NoStalePosition ==
  PositionBy # "none" => hist.age[PositionBy] <= hist.passed[PositionBy]

(***************************************************************************)
(* Positions relative to the other vehicle and absolute ones correct the   *)
(* same state.  Between two resets of its covariance the estimate is       *)
(* corrected either with relative positions or with those of GPS and local *)
(* ones, whatever switches of the mode, resets and positions come in       *)
(* whatever order.  Two cases are left out, in which the code does mix     *)
(* them: the acoustic fix, which is absolute, is used in both modes when   *)
(* nothing else came, and the first mode message may find KFmodePast,      *)
(* which is not initialised, as if it had been sent before.                *)
(***************************************************************************)
FramesNotMixed == hist.frames # {"relative", "absolute"}

(***************************************************************************)
(* The status is true: OK is reported only if GPS or local positions, and  *)
(* inertial measurements, came within the last seconds, and the error      *)
(* state, which a flag keeps from step to step, never outlives its reason. *)
(* (It may end before: an inertial measurement clears the flag of a        *)
(* missing GPS.)                                                           *)
(***************************************************************************)
StatusIsTrue ==
  /\ status = "OK" => gpsAge <= DiagTimeout + 1 /\ imuAge <= DiagTimeout + 1
  /\ errorFlag => gpsAge > DiagTimeout + 1 \/ imuAge > DiagTimeout + 1

(***************************************************************************)
(* Once no velocity has corrected the estimate for longer than the timeout *)
(* of the DVL, unsafe_dvl says so -- unless DVL messages came in every     *)
(* step since, all of them rejected: then nothing is published.            *)
(***************************************************************************)
UnsafeTold ==
  hist.velocity > DvlTimeout + 1 /\ ~unsafeDvl
    => hist.dvlBusy >= hist.velocity - (DvlTimeout + 1)

(***************************************************************************)
(* After a long silence of the altimeter an altitude is accepted only with *)
(* as many samples since the last one accepted as nsamples_alt says: no    *)
(* sample of an earlier silence counts -- if altitudes are sampled at all, *)
(* and no samples were left in the buffer by switching this off.           *)
(***************************************************************************)
AltitudeTrusted ==
  [][altAge > AltTimeout /\ newAlt' /\ ~newAlt /\ altSample /\ ~hist.leftOver
       => hist.samples + 1 >= nsamples]_vars

(***************************************************************************)
(* The altitude is not lost for good: when the altimeter works again, and  *)
(* brings an altitude before every step, it is accepted, because the       *)
(* silence resets its covariance and the samples that do not agree leave   *)
(* the buffer.                                                             *)
(***************************************************************************)
AltitudeRegained == <>[]hist.fed => []<>(altAge <= AltTimeout)
==============================================================================
