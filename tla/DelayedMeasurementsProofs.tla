----------------------- MODULE DelayedMeasurementsProofs -----------------------
(***************************************************************************)
(* Proofs about DelayedMeasurements, for any elements, delays, size of the *)
(* container and number of steps.                                          *)
(*                                                                         *)
(* The argument: the container is a window of consecutive steps that ends  *)
(* with the present one (GoodContainer), so a delay of d steps addresses   *)
(* the entry of the step the measurement was taken at; every entry keeps   *)
(* the punctual measurements of its step, whatever is placed in it, and    *)
(* every stored estimate those of the steps before.                        *)
(***************************************************************************)
EXTENDS DelayedMeasurements, SequenceTheorems, TLAPS

-----------------------------------------------------------------------------
(* The inductive invariant.                                                *)

(* What step k was corrected with: nothing of another step, and all that   *)
(* came without delay.                                                     *)
GoodStep(ms, k, given) ==
  /\ \A m \in ms : Taken(m) = k
  /\ \A m \in given : m.element \in Punctual /\ m.arrived = k => m \in ms

GoodEstimate(e, given) == \A k \in 1 .. Len(e) : GoodStep(e[k], k, given)

(* A container that ends with step last.                                   *)
GoodContainer(past, last, given) ==
  /\ Len(past) <= last
  /\ \A i \in 1 .. Len(past) :
       /\ Len(past[i].state) = last - Len(past) + i - 1
       /\ GoodEstimate(past[i].state, given)
       /\ GoodStep(past[i].meas, last - Len(past) + i, given)

(* The measurements that wait for the next step: punctual ones without     *)
(* delay and flagged, those of a fix with one delay.                       *)
GoodMeasurements ==
  /\ \A m \in measurements : m.arrived = step + 1
  /\ \A m \in measurements :
       m.element \in Punctual => m.delay = 0 /\ m.element \in newMeas
  /\ \A m1, m2 \in Delayed : m1.delay = m2.delay

IInv ==
  /\ TypeOK
  /\ GoodMeasurements
  /\ \A m \in log : m.arrived <= step
  /\ Len(nav) = step
  /\ GoodEstimate(nav, log)
  /\ GoodContainer(pastStates, step, log)

-----------------------------------------------------------------------------
(* The operators of a step.                                                *)

(* The fields of a measurement.                                            *)
LEMMA MeasurementFields ==
  ASSUME NEW m \in Measurement
  PROVE  /\ m.element \in Punctual \cup Fix
         /\ m.arrived \in Nat
         /\ m.delay \in Nat
         /\ Taken(m) = m.arrived - m.delay
<1>1. /\ m.element \in Punctual \cup Fix
      /\ m.arrived \in 1 .. MaxStep
      /\ m.delay \in Delays \cup {0}
  BY DEF Measurement
<1>2. m.arrived \in Nat
  BY <1>1, MaxStepAssumption
<1>3. m.delay \in Nat
  <2>1. CASE m.delay \in Delays
    BY <2>1, DelaysAssumption
  <2>2. CASE m.delay = 0
    BY <2>2
  <2> QED
    BY <1>1, <2>1, <2>2
<1> QED
  BY <1>1, <1>2, <1>3 DEF Taken

(* The repetition starts at an entry of the container.                     *)
LEMMA FirstInContainer ==
  ASSUME TypeOK, GoodMeasurements, Delayed # {}, NEW n \in Nat \ {0}
  PROVE  First(n) \in 1 .. n
<1>1. PICK m \in Delayed : TRUE
  OBVIOUS
<1>2. m.delay \in Nat /\ m.delay > 0
  BY MeasurementFields DEF TypeOK, Delayed
<1>3. {d.delay : d \in Delayed} = {m.delay}
  BY DEF GoodMeasurements
<1>4. Max({m.delay}) = m.delay
  BY <1>2 DEF Max
<1>5. First(n) = IF m.delay >= n THEN 1 ELSE n - m.delay
  BY <1>3, <1>4 DEF First
<1> QED
  BY <1>2, <1>5

(* Shifting a sequence that is too long.                                   *)
LEMMA WithoutOldest ==
  ASSUME NEW S, NEW s \in Seq(S), NEW max \in Nat, NEW kept,
         kept = IF Len(s) > max THEN Tail(s) ELSE s
  PROVE  /\ kept \in Seq(S)
         /\ \E gone \in {0, 1} :
              /\ Len(kept) = Len(s) - gone
              /\ \A i \in 1 .. Len(kept) : kept[i] = s[i + gone]
<1>1. CASE Len(s) > max
  <2>1. s # <<>>
    BY <1>1
  <2>2. /\ Tail(s) \in Seq(S) /\ Len(Tail(s)) = Len(s) - 1
        /\ \A i \in 1 .. Len(Tail(s)) : Tail(s)[i] = s[i + 1]
    BY <2>1, HeadTailProperties
  <2> QED
    BY <1>1, <2>2
<1>2. CASE ~(Len(s) > max)
  <2>1. Len(s) = Len(s) - 0 /\ \A i \in 1 .. Len(s) : s[i] = s[i + 0]
    OBVIOUS
  <2> QED
    BY <1>2, <2>1
<1> QED
  BY <1>1, <1>2

(* Shifting the container and adding the present step keeps it good.       *)
LEMMA RememberedGood ==
  ASSUME IInv, NEW given, log \subseteq given, given \subseteq log \cup measurements
  PROVE  /\ Remembered \in Seq(Entry)
         /\ Len(Remembered) >= 1
         /\ GoodContainer(Remembered, step + 1, given)
         /\ GoodEstimate(Append(nav, Current), given)
<1>1. /\ step \in Nat /\ pastStates \in Seq(Entry)
      /\ Len(pastStates) \in Nat /\ Len(pastStates) <= step
      /\ nav \in Seq(SUBSET Measurement) /\ Len(nav) = step
  BY MaxStepAssumption DEF IInv, TypeOK, GoodContainer
<1>2. PICK kept : kept = IF Len(pastStates) > MaxPast THEN Tail(pastStates) ELSE pastStates
  OBVIOUS
<1>3. /\ kept \in Seq(Entry)
       /\ \E gone \in {0, 1} :
            /\ Len(kept) = Len(pastStates) - gone
            /\ \A i \in 1 .. Len(kept) : kept[i] = pastStates[i + gone]
  BY <1>1, <1>2, MaxPastAssumption, WithoutOldest
<1>4. PICK gone \in {0, 1} :
         /\ Len(kept) = Len(pastStates) - gone
         /\ \A i \in 1 .. Len(kept) : kept[i] = pastStates[i + gone]
  BY <1>3
<1>5. PICK now \in Entry : now = [state |-> nav, meas |-> Current]
  BY DEF IInv, TypeOK, Entry, Current
<1>6. PICK n \in Nat : n = Len(kept)
  <2>1. Len(kept) \in Nat
    BY <1>3, LenProperties
  <2> QED
    BY <2>1
<1>7. /\ n <= step /\ n = Len(pastStates) - gone
      /\ Remembered \in Seq(Entry)
      /\ Len(Remembered) = n + 1
      /\ \A i \in 1 .. n : Remembered[i] = pastStates[i + gone]
      /\ Remembered[n + 1] = now
  <2>1. Remembered = Append(kept, now)
    BY <1>2, <1>5 DEF Remembered
  <2> QED
    BY <2>1, <1>1, <1>3, <1>4, <1>5, <1>6
<1>8. \A m \in given \ log : m.arrived = step + 1
  BY DEF IInv, GoodMeasurements
<1>9. ASSUME NEW ms, NEW k \in 1 .. step, GoodStep(ms, k, log)
      PROVE  GoodStep(ms, k, given)
  BY <1>1, <1>8, <1>9 DEF GoodStep
<1>10. ASSUME NEW e \in Seq(SUBSET Measurement), Len(e) <= step, GoodEstimate(e, log)
      PROVE  GoodEstimate(e, given)
  BY <1>1, <1>9, <1>10 DEF GoodEstimate
<1>11. GoodStep(Current, step + 1, given)
  <2>1. \A m \in Current : Taken(m) = step + 1
    BY <1>1, MeasurementFields DEF IInv, TypeOK, GoodMeasurements, Current
  <2>2. ASSUME NEW m \in given, m.element \in Punctual, m.arrived = step + 1
        PROVE  m \in Current
    BY <1>1, <2>2 DEF IInv, TypeOK, GoodMeasurements, Current
  <2> QED
    BY <2>1, <2>2 DEF GoodStep
<1>12. ASSUME NEW i \in 1 .. n + 1
       PROVE  /\ Len(Remembered[i].state) = step + 1 - (n + 1) + i - 1
              /\ GoodEstimate(Remembered[i].state, given)
              /\ GoodStep(Remembered[i].meas, step + 1 - (n + 1) + i, given)
  <2>1. CASE i = n + 1
    <3>1. /\ step + 1 - (n + 1) + i - 1 = step /\ step + 1 - (n + 1) + i = step + 1
          /\ Remembered[i].state = nav /\ Remembered[i].meas = Current
      BY <1>1, <1>5, <1>7, <2>1
    <3>2. GoodEstimate(nav, given)
      BY <1>1, <1>10 DEF IInv
    <3> QED
      BY <1>1, <1>11, <3>1, <3>2
  <2>2. CASE i \in 1 .. n
    <3>1. PICK j \in 1 .. Len(pastStates) : j = i + gone
      BY <1>1, <1>7, <2>2
    <3>2. /\ Remembered[i] = pastStates[j]
          /\ pastStates[j] \in Entry
      BY <1>1, <1>7, <2>2, <3>1
    <3>3. /\ Len(pastStates[j].state) = step - Len(pastStates) + j - 1
          /\ GoodEstimate(pastStates[j].state, log)
          /\ GoodStep(pastStates[j].meas, step - Len(pastStates) + j, log)
      BY DEF IInv, GoodContainer
    <3>4. pastStates[j].state \in Seq(SUBSET Measurement)
      BY <3>2 DEF Entry
    <3>5. PICK k \in 1 .. step : k = step - Len(pastStates) + j
      <4>1. step - Len(pastStates) + j \in 1 .. step
        BY <1>1, <3>1
      <4> QED
        BY <4>1
    <3>6. step + 1 - (n + 1) + i = k
      BY <1>1, <1>7, <2>2, <3>1, <3>5
    <3>7. Len(pastStates[j].state) = k - 1
      BY <1>1, <3>3, <3>5
    <3>8. /\ GoodStep(pastStates[j].meas, k, given)
          /\ GoodEstimate(pastStates[j].state, given)
      BY <1>1, <1>9, <1>10, <3>3, <3>4, <3>5, <3>7
    <3>9. step + 1 - (n + 1) + i - 1 = k - 1
      BY <1>1, <1>7, <2>2, <3>1, <3>5
    <3> QED
      BY <3>2, <3>6, <3>7, <3>8, <3>9
  <2> QED
    BY <1>6, <1>12, <2>1, <2>2
<1>13. GoodEstimate(Append(nav, Current), given)
  <2>1. GoodEstimate(nav, given)
    BY <1>1, <1>10 DEF IInv
  <2>2. Current \in SUBSET Measurement
    BY DEF IInv, TypeOK, Current
  <2>3. /\ Len(Append(nav, Current)) = step + 1
        /\ \A k \in 1 .. step : Append(nav, Current)[k] = nav[k]
        /\ Append(nav, Current)[step + 1] = Current
    BY <1>1, <2>2, AppendProperties
  <2>4. ASSUME NEW k \in 1 .. step + 1 PROVE GoodStep(Append(nav, Current)[k], k, given)
    <3>1. CASE k \in 1 .. step
      BY <1>1, <2>1, <2>3, <3>1 DEF GoodEstimate
    <3>2. CASE k = step + 1
      BY <1>11, <2>3, <3>2
    <3> QED
      BY <1>1, <3>1, <3>2
  <2> QED
    BY <2>3, <2>4 DEF GoodEstimate
<1> QED
  BY <1>1, <1>7, <1>12, <1>13 DEF GoodContainer

(* Placing the delayed measurements keeps the entry of their step good.    *)
LEMMA PlacedGood ==
  ASSUME IInv, NEW past \in Seq(Entry), NEW given, GoodContainer(past, step + 1, given),
         NEW i \in 1 .. Len(past), NEW rejected \in Outliers
  PROVE  /\ Placed(past, i, rejected) \in Entry
         /\ Placed(past, i, rejected).state = past[i].state
         /\ GoodStep(Placed(past, i, rejected).meas, step + 1 - Len(past) + i, given)
<1>1. /\ step \in Nat /\ Len(past) \in Nat /\ i \in Nat
      /\ past[i] \in Entry
  BY MaxStepAssumption DEF IInv, TypeOK
<1>2. PICK here : here = {m \in Delayed : m.delay = Len(past) - i}
  OBVIOUS
<1>3. PICK ms : ms = {m \in past[i].meas : m.element \notin Elements(here)}
                       \cup {m \in here : m.element \notin rejected}
  OBVIOUS
<1>4. Placed(past, i, rejected) = [past[i] EXCEPT !.meas = ms]
  BY <1>2, <1>3 DEF Placed
<1>5. here \subseteq measurements /\ measurements \subseteq Measurement
  BY <1>2 DEF Delayed, IInv, TypeOK
<1>6. ms \subseteq Measurement
  BY <1>1, <1>3, <1>5 DEF Entry
<1>7. /\ Placed(past, i, rejected) \in Entry
      /\ Placed(past, i, rejected).state = past[i].state
      /\ Placed(past, i, rejected).meas = ms
  BY <1>1, <1>4, <1>6 DEF Entry
<1>8. GoodStep(past[i].meas, step + 1 - Len(past) + i, given)
  <2>1. PICK last \in Nat : last = step + 1
    BY <1>1
  <2>2. GoodContainer(past, last, given)
    BY <2>1
  <2>3. GoodStep(past[i].meas, last - Len(past) + i, given)
    BY <2>2 DEF GoodContainer
  <2> QED
    BY <1>1, <2>1, <2>3
<1>9. ASSUME NEW m \in ms PROVE Taken(m) = step + 1 - Len(past) + i
  <2>1. CASE m \in past[i].meas
    BY <1>8, <2>1 DEF GoodStep
  <2>2. CASE m \in here
    <3>1. m.arrived = step + 1 /\ m.delay = Len(past) - i
      BY <1>2, <1>5, <2>2 DEF IInv, GoodMeasurements
    <3> QED
      BY <1>1, <3>1 DEF Taken
  <2> QED
    BY <1>3, <2>1, <2>2
<1>10. ASSUME NEW m \in given, m.element \in Punctual,
              m.arrived = step + 1 - Len(past) + i
       PROVE  m \in ms
  <2>1. m \in past[i].meas
    BY <1>8, <1>10 DEF GoodStep
  <2>2. m.element \notin Elements(here)
    <3>1. ASSUME NEW d \in here PROVE d.element \notin Punctual
      <4>1. d \in measurements /\ d.delay > 0
        BY <1>2 DEF Delayed
      <4> QED
        BY <4>1 DEF IInv, GoodMeasurements
    <3> QED
      BY <1>10, <3>1 DEF Elements
  <2> QED
    BY <1>3, <2>1, <2>2
<1> QED
  BY <1>7, <1>9, <1>10 DEF GoodStep

(* What is repeated, behind the estimate the first state started from, is  *)
(* a good estimate of all steps of the container.                          *)
LEMMA ReplayedGood ==
  ASSUME NEW past \in Seq(Entry), NEW last \in Nat, NEW given,
         GoodContainer(past, last, given), NEW first \in 1 .. Len(past)
  PROVE  /\ Replayed(past, first) \in Seq(SUBSET Measurement)
         /\ Len(Replayed(past, first)) = last
         /\ GoodEstimate(Replayed(past, first), given)
<1>1. PICK n \in Nat : n = Len(past)
  OBVIOUS
<1>2. PICK e : e = past[first].state
  OBVIOUS
<1>3. past[first] \in Entry
  BY <1>1
<1>4. /\ e \in Seq(SUBSET Measurement)
      /\ Len(e) = last - n + first - 1
      /\ GoodEstimate(e, given)
  BY <1>1, <1>2, <1>3 DEF GoodContainer, Entry
<1>5. PICK k \in Nat : k = Len(e)
  BY <1>4
<1>6. PICK rest \in Nat : rest = n - first + 1
  BY <1>1
<1>7. PICK r : r = [i \in 1 .. rest |-> past[first + i - 1].meas]
  OBVIOUS
<1>8. first \in Nat /\ first <= n
  BY <1>1
<1>9. ASSUME NEW i \in 1 .. rest
      PROVE  /\ r[i] = past[first + i - 1].meas
             /\ r[i] \in SUBSET Measurement
             /\ GoodStep(r[i], k + i, given)
  <2>1. PICK j \in 1 .. n : j = first + i - 1
    <3>1. first + i - 1 \in 1 .. n
      BY <1>6, <1>8
    <3> QED
      BY <3>1
  <2>2. r[i] = past[j].meas /\ past[j] \in Entry
    BY <1>1, <1>6, <1>7, <1>8, <2>1
  <2>3. GoodStep(past[j].meas, last - n + j, given)
    BY <1>1 DEF GoodContainer
  <2>4. last - n + j = k + i
    BY <1>4, <1>5, <1>6, <1>8, <2>1
  <2>5. past[j].meas \in SUBSET Measurement
    BY <2>2 DEF Entry
  <2> QED
    BY <2>1, <2>2, <2>3, <2>4, <2>5
<1>10. r \in Seq(SUBSET Measurement) /\ Len(r) = rest
  <2>1. r \in [1 .. rest -> SUBSET Measurement]
    BY <1>7, <1>9
  <2> QED
    BY <2>1
<1>11. Replayed(past, first) = e \o r
  BY <1>1, <1>2, <1>6, <1>7 DEF Replayed
<1>12. /\ e \o r \in Seq(SUBSET Measurement)
       /\ Len(e \o r) = k + rest
       /\ \A i \in 1 .. k + rest : (e \o r)[i] = IF i <= k THEN e[i] ELSE r[i - k]
  BY <1>4, <1>5, <1>10, ConcatProperties
<1>13. k + rest = last
  BY <1>4, <1>5, <1>6, <1>8
<1>14. ASSUME NEW i \in 1 .. last PROVE GoodStep((e \o r)[i], i, given)
  <2>1. CASE i <= k
    <3>1. GoodStep(e[i], i, given)
      BY <1>4, <1>5, <2>1 DEF GoodEstimate
    <3>2. (e \o r)[i] = e[i]
      BY <1>12, <1>13, <2>1
    <3> QED
      BY <3>1, <3>2
  <2>2. CASE ~(i <= k)
    <3>1. PICK j \in 1 .. rest : j = i - k
      <4>1. i - k \in 1 .. rest
        BY <1>6, <1>8, <1>13, <2>2
      <4> QED
        BY <4>1
    <3>2. (e \o r)[i] = r[j] /\ k + j = i
      BY <1>12, <1>13, <2>2, <3>1
    <3> QED
      BY <1>9, <3>2
  <2> QED
    BY <2>1, <2>2
<1> QED
  BY <1>11, <1>12, <1>13, <1>14 DEF GoodEstimate

(* The container after a repetition: what is placed in it keeps it good.   *)
Repeated(rejected, first) ==
  [i \in DOMAIN Remembered |-> IF i < first THEN Remembered[i]
                               ELSE Placed(Remembered, i, rejected)]

LEMMA RepeatedGood ==
  ASSUME IInv, Delayed # {}, NEW rejected \in Outliers,
         NEW given, log \subseteq given, given \subseteq log \cup measurements,
         NEW next \in Nat, next = step + 1,
         NEW first, first = First(Len(Remembered)),
         NEW past, past = Repeated(rejected, first)
  PROVE  /\ past \in Seq(Entry)
         /\ Len(past) = Len(Remembered) /\ first \in 1 .. Len(Remembered)
         /\ \A i \in 1 .. Len(Remembered) :
              /\ past[i].state = Remembered[i].state
              /\ past[i] = IF i < first THEN Remembered[i]
                           ELSE Placed(Remembered, i, rejected)
         /\ GoodContainer(past, next, given)
<1> USE DEF Repeated
<1>1. step \in Nat
  BY MaxStepAssumption DEF IInv, TypeOK
<1>2. /\ Remembered \in Seq(Entry)
      /\ Len(Remembered) >= 1
      /\ GoodContainer(Remembered, step + 1, given)
  BY RememberedGood
<1>3. PICK n \in Nat \ {0} : n = Len(Remembered)
  BY <1>2, LenProperties
<1>4. first \in 1 .. n
  BY <1>3, FirstInContainer DEF IInv
<1>5. ASSUME NEW i \in 1 .. n
      PROVE  /\ past[i] \in Entry
             /\ past[i].state = Remembered[i].state
             /\ GoodStep(past[i].meas, next - n + i, given)
  <2>1. /\ Placed(Remembered, i, rejected) \in Entry
        /\ Placed(Remembered, i, rejected).state = Remembered[i].state
        /\ GoodStep(Placed(Remembered, i, rejected).meas, next - n + i, given)
    <3>1. /\ Placed(Remembered, i, rejected) \in Entry
          /\ Placed(Remembered, i, rejected).state = Remembered[i].state
          /\ GoodStep(Placed(Remembered, i, rejected).meas,
                      step + 1 - Len(Remembered) + i, given)
      BY <1>2, <1>3, PlacedGood
    <3> QED
      BY <1>1, <1>3, <3>1
  <2>2. GoodContainer(Remembered, next, given)
    BY <1>2
  <2>3. Remembered[i] \in Entry /\ GoodStep(Remembered[i].meas, next - n + i, given)
    BY <1>2, <1>3, <2>2 DEF GoodContainer
  <2>4. past[i] = IF i < first THEN Remembered[i] ELSE Placed(Remembered, i, rejected)
    BY <1>2, <1>3
  <2> QED
    BY <2>1, <2>3, <2>4
<1>6. past \in Seq(Entry) /\ Len(past) = n
  <2>1. DOMAIN Remembered = 1 .. n
    BY <1>2, <1>3
  <2>2. past \in [1 .. n -> Entry]
    BY <1>5, <2>1
  <2> QED
    BY <2>2
<1>7. GoodContainer(past, next, given)
  <2>1. /\ n <= next
        /\ \A i \in 1 .. n : /\ Len(Remembered[i].state) = next - n + i - 1
                              /\ GoodEstimate(Remembered[i].state, given)
    BY <1>2, <1>3 DEF GoodContainer
  <2> QED
    BY <1>5, <1>6, <2>1 DEF GoodContainer
<1>8. \A i \in 1 .. n : past[i] = IF i < first THEN Remembered[i]
                                  ELSE Placed(Remembered, i, rejected)
  BY <1>2, <1>3
<1> QED
  BY <1>3, <1>4, <1>5, <1>6, <1>7, <1>8

-----------------------------------------------------------------------------
(* The theorems.                                                           *)

(* The invariant holds of all behaviours of the node.                      *)
THEOREM InductiveInvariant == Spec => []IInv
<1>1. Init => IInv
  <2> SUFFICES ASSUME Init PROVE IInv
    OBVIOUS
  <2>1. TypeOK
    BY MaxStepAssumption DEF Init, TypeOK, Elements
  <2>2. Len(nav) = 0 /\ Len(pastStates) = 0 /\ step = 0
    BY DEF Init
  <2>3. GoodMeasurements
    BY DEF Init, GoodMeasurements, Delayed
  <2>4. GoodEstimate(nav, log) /\ GoodContainer(pastStates, step, log)
    BY <2>2 DEF GoodEstimate, GoodContainer
  <2> QED
    BY <2>1, <2>2, <2>3, <2>4 DEF Init, IInv
<1>2. IInv /\ [Next]_vars => IInv'
  <2> SUFFICES ASSUME IInv, [Next]_vars PROVE IInv'
    OBVIOUS
  <2>1. step \in Nat /\ step \in 0 .. MaxStep
    BY MaxStepAssumption DEF IInv, TypeOK
  <2>2. ASSUME NEW e \in Punctual, OnPunctual(e) PROVE IInv'
    <3>1. UNCHANGED <<step, nav, pastStates, log>>
      BY <2>2 DEF OnPunctual
    <3>2. PICK m : m = [element |-> e, arrived |-> step + 1, delay |-> 0]
      OBVIOUS
    <3>3. /\ measurements' = measurements \cup {m}
          /\ newMeas' = newMeas \cup {e}
          /\ step + 1 \in 1 .. MaxStep
      BY <2>1, <2>2, <3>2, MaxStepAssumption DEF OnPunctual
    <3>4. m \in Measurement /\ m.element = e /\ m.arrived = step + 1 /\ m.delay = 0
      BY <3>2, <3>3 DEF Measurement
    <3>5. TypeOK'
      BY <3>1, <3>3, <3>4 DEF IInv, TypeOK, Elements
    <3>6. Delayed' = Delayed
      BY <3>3, <3>4 DEF Delayed
    <3>7. GoodMeasurements'
      BY <3>1, <3>3, <3>4, <3>6 DEF IInv, GoodMeasurements
    <3> QED
      BY <3>1, <3>5, <3>7 DEF IInv, GoodEstimate, GoodContainer, GoodStep, Taken
  <2>3. ASSUME NEW delay \in Delays, OnUSBLfix(delay) PROVE IInv'
    <3>1. UNCHANGED <<step, nav, pastStates, log>>
      BY <2>3 DEF OnUSBLfix
    <3>2. PICK ms : ms = {[element |-> e, arrived |-> step + 1, delay |-> delay] : e \in Fix}
      OBVIOUS
    <3>3. /\ measurements' = measurements \cup ms
          /\ newMeas' = newMeas \cup Enabled
          /\ Elements(measurements) \cap Fix = {}
          /\ step + 1 \in 1 .. MaxStep
      BY <2>1, <2>3, <3>2, MaxStepAssumption DEF OnUSBLfix
    <3>4. \A m \in ms : /\ m \in Measurement /\ m.element \in Fix
                         /\ m.arrived = step + 1 /\ m.delay = delay
      BY <3>2, <3>3 DEF Measurement
    <3>5. Elements(ms) = Fix
      <4>1. ASSUME NEW e \in Fix PROVE \E m \in ms : m.element = e
        <5>1. [element |-> e, arrived |-> step + 1, delay |-> delay] \in ms
          BY <3>2
        <5> QED
          BY <5>1
      <4> QED
        BY <3>4, <4>1 DEF Elements
    <3>6. TypeOK'
      BY <3>1, <3>3, <3>4, <3>5, EnabledAssumption DEF IInv, TypeOK, Elements
    <3>7. \A m \in Delayed' : m \in ms
      <4>1. \A m \in measurements : m.element \in Punctual
        BY <3>3, MeasurementFields DEF IInv, TypeOK, Elements
      <4> QED
        BY <3>3, <4>1 DEF Delayed, IInv, GoodMeasurements
    <3>8. GoodMeasurements'
      BY <3>1, <3>3, <3>4, <3>7, PunctualAssumption DEF IInv, GoodMeasurements
    <3> QED
      BY <3>1, <3>6, <3>8 DEF IInv, GoodEstimate, GoodContainer, GoodStep, Taken
  <2>4. CASE Step
    <3>1. PICK next \in Nat : next = step + 1
      BY <2>1
    <3>2. /\ step' = next /\ next \in 1 .. MaxStep /\ next \in 0 .. MaxStep
          /\ measurements' = {} /\ newMeas' = {}
      BY <2>1, <2>4, <3>1, MaxStepAssumption DEF Step
    <3>3. GoodMeasurements'
      BY <3>2 DEF GoodMeasurements, Delayed
    <3>4. ASSUME nav' \in Seq(SUBSET Measurement), pastStates' \in Seq(Entry),
                 Len(nav') = next, GoodEstimate(nav', log'),
                 GoodContainer(pastStates', next, log'),
                 log' \subseteq log \cup measurements
          PROVE  IInv'
      <4>1. TypeOK'
        BY <3>2, <3>4 DEF IInv, TypeOK
      <4>2. \A m \in log' : m.arrived <= next
        <5>1. \A m \in log : m.arrived \in Nat /\ m.arrived <= step
          BY MeasurementFields DEF IInv, TypeOK
        <5>2. \A m \in measurements : m.arrived = step + 1
          BY DEF IInv, GoodMeasurements
        <5> QED
          BY <2>1, <3>1, <3>4, <5>1, <5>2
      <4>3. GoodEstimate(nav, log)' /\ GoodContainer(pastStates, step, log)'
        BY <3>2, <3>4
      <4> QED
        BY <3>2, <3>3, <3>4, <4>1, <4>2, <4>3 DEF IInv
    <3>5. CASE StepOnTime
      <4>1. /\ nav' = Append(nav, Current)
            /\ pastStates' = Remembered
            /\ log' = log \cup Current
        BY <3>5 DEF StepOnTime
      <4>2. log' \subseteq log \cup measurements /\ log \subseteq log'
        BY <4>1 DEF Current
      <4>3. /\ Remembered \in Seq(Entry)
            /\ GoodContainer(Remembered, next, log')
            /\ GoodEstimate(Append(nav, Current), log')
        BY <3>1, <4>2, RememberedGood
      <4>4. Current \in SUBSET Measurement /\ nav \in Seq(SUBSET Measurement) /\ Len(nav) = step
        BY DEF IInv, TypeOK, Current
      <4>5. nav' \in Seq(SUBSET Measurement) /\ Len(nav') = next
        BY <3>1, <4>1, <4>4, AppendProperties
      <4> QED
        BY <3>4, <4>1, <4>2, <4>3, <4>5
    <3>6. ASSUME NEW rejected \in Outliers, StepBack(rejected) PROVE IInv'
      <4>1. PICK first : first = First(Len(Remembered))
        OBVIOUS
      <4>2. PICK past : past = [i \in DOMAIN Remembered |->
                                  IF i < first THEN Remembered[i]
                                  ELSE Placed(Remembered, i, rejected)]
        OBVIOUS
      <4>3. /\ Delayed # {}
            /\ nav' = Replayed(past, first)
            /\ pastStates' = past
            /\ log' = log \cup {m \in measurements : m.element \notin rejected}
        BY <3>6, <4>1, <4>2 DEF StepBack
      <4>4. log' \subseteq log \cup measurements /\ log \subseteq log'
        BY <4>3
      <4>5. /\ past \in Seq(Entry)
            /\ Len(past) = Len(Remembered) /\ first \in 1 .. Len(Remembered)
            /\ GoodContainer(past, next, log')
        <5>1. PICK given : /\ given = log'
                           /\ log \subseteq given /\ given \subseteq log \cup measurements
          BY <4>4
        <5>2. /\ past \in Seq(Entry)
              /\ Len(past) = Len(Remembered) /\ first \in 1 .. Len(Remembered)
              /\ GoodContainer(past, next, given)
          <6>1. past = Repeated(rejected, first)
            BY <4>2 DEF Repeated
          <6> QED
            BY <3>1, <4>1, <4>3, <5>1, <6>1, RepeatedGood
        <5> QED
          BY <5>1, <5>2
      <4>6. /\ nav' \in Seq(SUBSET Measurement)
            /\ Len(nav') = next
            /\ GoodEstimate(nav', log')
        BY <4>3, <4>5, ReplayedGood
      <4> QED
        BY <3>4, <4>3, <4>4, <4>5, <4>6
    <3> QED
      BY <2>4, <3>5, <3>6 DEF Step
  <2>5. CASE Shutdown
    BY <2>5 DEF Shutdown, vars, IInv, TypeOK, GoodMeasurements, Delayed
  <2>6. CASE UNCHANGED vars
    BY <2>6 DEF vars, IInv, TypeOK, GoodMeasurements, Delayed
  <2> QED
    BY <2>2, <2>3, <2>4, <2>5, <2>6 DEF Next
<1> QED
  BY <1>1, <1>2, PTL DEF Spec

(* The variables keep their types.                                         *)
THEOREM TypeCorrect == Spec => []TypeOK
<1>1. IInv => TypeOK
  BY DEF IInv
<1> QED
  BY <1>1, InductiveInvariant, PTL

(* However the filter goes back and repeats its steps, for any delays and  *)
(* any size of the container, a measurement corrects the step it was taken *)
(* at and no other (calculateDelaySteps and the main loop agree).          *)
THEOREM OnTime == Spec => []AppliedOnTime
<1>1. IInv => AppliedOnTime
  BY DEF IInv, TypeOK, GoodEstimate, GoodStep, AppliedOnTime
<1> QED
  BY <1>1, InductiveInvariant, PTL

(* A measurement that came without delay stays in the estimate for ever:   *)
(* repeating the steps with delayed measurements never drops it.           *)
THEOREM NothingPunctualLost == Spec => []PunctualKept
<1>1. IInv => PunctualKept
  <2> SUFFICES ASSUME IInv, NEW m \in log, m.element \in Punctual
               PROVE  m \in nav[m.arrived]
    BY DEF PunctualKept
  <2>1. m.arrived \in 1 .. step
    BY MaxStepAssumption DEF IInv, TypeOK, Measurement
  <2>2. GoodStep(nav[m.arrived], m.arrived, log)
    BY <2>1 DEF IInv, GoodEstimate
  <2> QED
    BY <2>2 DEF GoodStep
<1> QED
  BY <1>1, InductiveInvariant, PTL

-----------------------------------------------------------------------------
(* The delayed measurements.  One that is not too old is placed in the     *)
(* entry of its step and stays there; the estimates stored with the        *)
(* entries between its step and its arrival miss it for ever, those stored *)
(* later have it.  It is lost when the filter goes back to one of the      *)
(* former, or when it is replaced in its own entry (Overtaken).            *)
Overtaken(m, given) ==
  \E late \in given :
    /\ late.delay > 0 /\ late.arrived > m.arrived
    /\ \/ RepeatedFrom(late) \in Taken(m) + 1 .. m.arrived
       \/ Taken(late) = Taken(m)

KeptIn(m, e, past, last) ==
  /\ m \in e[Taken(m)]
  /\ \A i \in 1 .. Len(past) :
       /\ last - Len(past) + i = Taken(m) => m \in past[i].meas
       /\ last - Len(past) + i > m.arrived => m \in past[i].state[Taken(m)]

(* The beacon of a fix is never rejected, so a fix that makes the filter   *)
(* go back leaves a trace in the log.                                      *)
KeptInv ==
  /\ Len(pastStates) = Size(step)
  /\ Delayed # {} => \E b \in Delayed : b.element = "beacon"
  /\ \A m \in log : InTime(m) => Overtaken(m, log) \/ KeptIn(m, nav, pastStates, step)

(* The larger of two integers.                                             *)
LEMMA MaxOfTwo ==
  ASSUME NEW a \in Int, NEW b \in Int
  PROVE  Max({a, b}) = IF a >= b THEN a ELSE b
  BY DEF Max

(* The longer the measurements are known, the more are overtaken.          *)
LEMMA OvertakenGrows ==
  ASSUME NEW m, NEW old, NEW given, old \subseteq given, Overtaken(m, old)
  PROVE  Overtaken(m, given)
  BY DEF Overtaken

(* A measurement that is not too old belongs to a step of the container.   *)
LEMMA InTimeFields ==
  ASSUME IInv, NEW m \in log \cup measurements, InTime(m)
  PROVE  /\ m.arrived \in Nat /\ m.delay \in Nat \ {0}
         /\ m.delay <= Size(m.arrived) - 1 /\ Size(m.arrived) <= m.arrived
         /\ Taken(m) = m.arrived - m.delay /\ Taken(m) \in Nat \ {0}
<1>1. m.arrived \in Nat /\ m.delay \in Nat /\ Taken(m) = m.arrived - m.delay
  BY MeasurementFields DEF IInv, TypeOK
<1>2. m.arrived \in 1 .. MaxStep
  BY DEF IInv, TypeOK, Measurement
<1>3. Size(m.arrived) \in Nat /\ Size(m.arrived) <= m.arrived
  BY <1>1, MaxPastAssumption DEF Size
<1>4. m.delay \in 1 .. Size(m.arrived) - 1
  BY DEF InTime
<1> QED
  BY <1>1, <1>3, <1>4

(* The container after the shift: its entries one place earlier or where   *)
(* they were, and the present step.                                        *)
LEMMA RememberedEntries ==
  ASSUME IInv, KeptInv
  PROVE  /\ Len(Remembered) = Size(step + 1) /\ Size(step + 1) \in Nat \ {0}
         /\ \E gone \in {0, 1} :
              /\ Size(step + 1) = Size(step) - gone + 1
              /\ \A i \in 1 .. Size(step + 1) - 1 : Remembered[i] = pastStates[i + gone]
         /\ Remembered[Size(step + 1)] = [state |-> nav, meas |-> Current]
<1>1. /\ step \in Nat /\ pastStates \in Seq(Entry) /\ Len(pastStates) = Size(step)
      /\ Size(step) \in Nat /\ Size(step) <= step
  BY MaxStepAssumption, MaxPastAssumption DEF IInv, KeptInv, TypeOK, Size
<1>2. PICK kept : kept = IF Len(pastStates) > MaxPast THEN Tail(pastStates) ELSE pastStates
  OBVIOUS
<1>3. PICK now \in Entry : now = [state |-> nav, meas |-> Current]
  BY DEF IInv, TypeOK, Entry, Current
<1>4. PICK gone \in {0, 1} :
        /\ gone = IF Size(step) > MaxPast THEN 1 ELSE 0
        /\ kept \in Seq(Entry) /\ Len(kept) = Size(step) - gone
        /\ \A i \in 1 .. Len(kept) : kept[i] = pastStates[i + gone]
  <2>1. CASE Size(step) > MaxPast
    <3>1. pastStates # <<>>
      BY <1>1, <2>1, MaxPastAssumption
    <3>2. /\ kept \in Seq(Entry) /\ Len(kept) = Size(step) - 1
          /\ \A i \in 1 .. Len(kept) : kept[i] = pastStates[i + 1]
      BY <1>1, <1>2, <2>1, <3>1, HeadTailProperties
    <3> QED
      BY <2>1, <3>2
  <2>2. CASE ~(Size(step) > MaxPast)
    <3>1. kept = pastStates /\ Len(kept) = Size(step) - 0
      BY <1>1, <1>2, <2>2
    <3>2. \A i \in 1 .. Len(kept) : kept[i] = pastStates[i + 0]
      BY <1>1, <3>1
    <3> QED
      BY <1>1, <2>2, <3>1, <3>2
  <2> QED
    BY <2>1, <2>2
<1>5. Size(step + 1) = Size(step) - gone + 1
  BY <1>1, <1>4, MaxPastAssumption DEF Size
<1>6. /\ Len(Remembered) = Len(kept) + 1
      /\ \A i \in 1 .. Len(kept) : Remembered[i] = kept[i]
      /\ Remembered[Len(kept) + 1] = now
  <2>1. Remembered = Append(kept, now)
    BY <1>2, <1>3 DEF Remembered
  <2> QED
    BY <1>4, <2>1, AppendProperties
<1>7. Size(step + 1) \in Nat \ {0}
  BY <1>1, MaxPastAssumption DEF Size
<1>8. Len(kept) = Size(step + 1) - 1
  BY <1>1, <1>4, <1>5
<1>9. \A i \in 1 .. Size(step + 1) - 1 : Remembered[i] = pastStates[i + gone]
  BY <1>4, <1>6, <1>8
<1> QED
  BY <1>3, <1>5, <1>6, <1>7, <1>8, <1>9

(* Shifting the container loses no measurement.                            *)
LEMMA RememberedKeeps ==
  ASSUME IInv, KeptInv, NEW m \in log, InTime(m), KeptIn(m, nav, pastStates, step)
  PROVE  KeptIn(m, Append(nav, Current), Remembered, step + 1)
<1>1. /\ step \in Nat /\ m.arrived \in Nat /\ m.arrived <= step
      /\ Taken(m) \in 1 .. step /\ Taken(m) < m.arrived
      /\ Len(nav) = step /\ Len(pastStates) = Size(step) /\ Size(step) \in Nat
  BY InTimeFields, MaxStepAssumption, MaxPastAssumption DEF IInv, KeptInv, TypeOK, Size
<1>2. PICK n \in Nat \ {0} : n = Size(step + 1) /\ n = Len(Remembered)
  BY RememberedEntries
<1>3. PICK gone \in {0, 1} :
        /\ n = Size(step) - gone + 1
        /\ \A i \in 1 .. n - 1 : Remembered[i] = pastStates[i + gone]
  BY <1>2, RememberedEntries
<1>4. Remembered[n].state = nav
  BY <1>2, RememberedEntries
<1>5. Append(nav, Current)[Taken(m)] = nav[Taken(m)]
  BY <1>1, AppendProperties DEF IInv, TypeOK, Current
<1>6. m \in nav[Taken(m)]
  BY DEF KeptIn
<1>7. ASSUME NEW i \in 1 .. n
      PROVE  /\ step + 1 - n + i = Taken(m) => m \in Remembered[i].meas
             /\ step + 1 - n + i > m.arrived => m \in Remembered[i].state[Taken(m)]
  <2>1. CASE i = n
    BY <1>1, <1>4, <1>6, <2>1
  <2>2. CASE i \in 1 .. n - 1
    <3>1. PICK j \in 1 .. Len(pastStates) : j = i + gone
      <4>1. i + gone \in 1 .. Size(step)
        BY <1>1, <1>3, <2>2
      <4> QED
        BY <1>1, <4>1
    <3>2. Remembered[i] = pastStates[j]
      BY <1>3, <2>2, <3>1
    <3>3. step + 1 - n + i = step - Len(pastStates) + j
      <4>1. PICK len \in Nat : len = Len(pastStates) /\ n = len - gone + 1
        BY <1>1, <1>3
      <4>2. gone \in Int /\ i \in Int /\ j \in Int
        BY <4>1
      <4>3. PICK now \in Nat : now = step
        BY <1>1
      <4>4. 1 - n + i = j - len
        BY <3>1, <4>1, <4>2
      <4>5. now + 1 - n + i = now - len + j
        BY <4>2, <4>4
      <4> QED
        BY <4>1, <4>3, <4>5
    <3> QED
      BY <3>1, <3>2, <3>3 DEF KeptIn
  <2> QED
    BY <1>2, <1>7, <2>1, <2>2
<1>8. PICK e, past, t, next : /\ e = Append(nav, Current) /\ past = Remembered
                              /\ t = Taken(m) /\ next = step + 1
  OBVIOUS
<1>9. \A i \in 1 .. Len(past) : /\ next - Len(past) + i = t => m \in past[i].meas
                                /\ next - Len(past) + i > m.arrived => m \in past[i].state[t]
  <2>1. Len(past) = n
    BY <1>2, <1>8
  <2>2. \A i \in 1 .. n : /\ next - n + i = t => m \in past[i].meas
                          /\ next - n + i > m.arrived => m \in past[i].state[t]
    BY <1>1, <1>7, <1>8
  <2> QED
    BY <2>1, <2>2
<1>10. m \in e[t]
  BY <1>5, <1>6, <1>8
<1>11. KeptIn(m, e, past, next)
  BY <1>8, <1>9, <1>10 DEF KeptIn
<1> QED
  BY <1>8, <1>11

(* What a repetition makes of every step.                                  *)
LEMMA ReplayedEntries ==
  ASSUME NEW past \in Seq(Entry), NEW last \in Nat, NEW given,
         GoodContainer(past, last, given), NEW first \in 1 .. Len(past),
         NEW from, from = last - Len(past) + first, NEW k \in 1 .. last
  PROVE  Replayed(past, first)[k] = IF k < from THEN past[first].state[k]
                                    ELSE past[k - last + Len(past)].meas
<1>1. PICK n \in Nat : n = Len(past)
  OBVIOUS
<1>2. past[first] \in Entry /\ n <= last
  BY <1>1 DEF GoodContainer
<1>3. PICK e : e = past[first].state
  OBVIOUS
<1>4. e \in Seq(SUBSET Measurement) /\ Len(e) = from - 1
  <2>1. e \in Seq(SUBSET Measurement)
    BY <1>2, <1>3 DEF Entry
  <2>2. Len(e) = last - Len(past) + first - 1
    BY <1>3 DEF GoodContainer
  <2> QED
    BY <1>1, <2>1, <2>2
<1>5. PICK rest \in Nat : rest = n - first + 1
  <2>1. first \in Nat /\ first <= n
    BY <1>1
  <2>2. n - first + 1 \in Nat
    BY <2>1
  <2> QED
    BY <2>2
<1>6. PICK r : r = [i \in 1 .. rest |-> past[first + i - 1].meas]
  OBVIOUS
<1>7. r \in Seq(SUBSET Measurement) /\ Len(r) = rest
  <2>1. \A i \in 1 .. rest : past[first + i - 1] \in Entry
    BY <1>1, <1>5
  <2>2. r \in [1 .. rest -> SUBSET Measurement]
    BY <1>6, <2>1 DEF Entry
  <2> QED
    BY <2>2
<1>8. Replayed(past, first) = e \o r
  BY <1>1, <1>3, <1>5, <1>6 DEF Replayed
<1>9. /\ Len(e) \in Nat /\ first \in Nat /\ first <= n /\ from \in Int
      /\ Len(e) + rest = last
  BY <1>1, <1>4, <1>5
<1>10. \A i \in 1 .. last : (e \o r)[i] = IF i <= Len(e) THEN e[i] ELSE r[i - Len(e)]
  BY <1>4, <1>7, <1>9, ConcatProperties
<1>11. CASE k < from
  BY <1>3, <1>4, <1>8, <1>9, <1>10, <1>11
<1>12. CASE ~(k < from)
  <2>1. PICK i \in 1 .. rest : i = k - Len(e)
    <3>1. k - Len(e) \in 1 .. rest
      BY <1>4, <1>9, <1>12
    <3> QED
      BY <3>1
  <2>2. Replayed(past, first)[k] = r[i]
    <3>1. ~(k <= Len(e))
      BY <1>4, <1>9, <1>12
    <3> QED
      BY <1>8, <1>10, <2>1, <3>1
  <2>3. first + i - 1 = k - last + n
    BY <1>1, <1>4, <1>9, <2>1
  <2> QED
    BY <1>1, <1>6, <1>12, <2>2, <2>3
<1> QED
  BY <1>11, <1>12

(* A repetition starts at the step its measurements are from, or at the    *)
(* oldest step of the container.                                           *)
LEMMA RepetitionStart ==
  ASSUME IInv, KeptInv, NEW d \in Delayed,
         NEW n, n = Size(step + 1), NEW first, first = First(n)
  PROVE  /\ n \in Nat \ {0} /\ first \in 1 .. n
         /\ d.arrived = step + 1 /\ d.delay \in Nat \ {0} /\ Taken(d) = step + 1 - d.delay
         /\ RepeatedFrom(d) = step + 1 - n + first
         /\ d.delay < n => first = n - d.delay
<1>1. /\ d \in measurements /\ d \in Measurement /\ d.arrived = step + 1
      /\ d.delay > 0 /\ step \in Nat
  BY MaxStepAssumption DEF IInv, TypeOK, GoodMeasurements, Delayed
<1>2. d.delay \in Nat \ {0} /\ Taken(d) = step + 1 - d.delay
  BY <1>1, MeasurementFields
<1>3. n \in Nat \ {0}
  BY <1>1, MaxPastAssumption DEF Size
<1>4. {x.delay : x \in Delayed} = {d.delay}
  BY DEF IInv, GoodMeasurements
<1>5. Max({d.delay}) = d.delay
  BY <1>2 DEF Max
<1>6. first = IF d.delay >= n THEN 1 ELSE n - d.delay
  BY <1>4, <1>5 DEF First
<1>7. RepeatedFrom(d) = Max({Taken(d), step + 1 - n + 1})
  <2>1. Size(d.arrived) = n
    BY <1>1
  <2>2. Max({Taken(d), d.arrived - Size(d.arrived) + 1})
          = Max({Taken(d), d.arrived - n + 1})
    BY <2>1
  <2>3. d.arrived - n + 1 = step + 1 - n + 1
    BY <1>1, <1>3
  <2> QED
    BY <2>2, <2>3 DEF RepeatedFrom
<1>8. PICK a \in Int, b \in Int : a = Taken(d) /\ b = step + 1 - n + 1
  BY <1>1, <1>2, <1>3
<1>9. RepeatedFrom(d) = IF a >= b THEN a ELSE b
  BY <1>7, <1>8, MaxOfTwo
<1>10. first \in 1 .. n
  BY <1>2, <1>3, <1>6
<1>11. RepeatedFrom(d) = step + 1 - n + first
  <2>1. CASE d.delay >= n
    BY <1>1, <1>2, <1>3, <1>6, <1>8, <1>9, <2>1
  <2>2. CASE ~(d.delay >= n)
    BY <1>1, <1>2, <1>3, <1>6, <1>8, <1>9, <2>2
  <2> QED
    BY <2>1, <2>2
<1> QED
  BY <1>1, <1>2, <1>3, <1>6, <1>10, <1>11

(* A measurement of an earlier step stays in an entry, unless others are   *)
(* placed there.                                                           *)
LEMMA PlacedKeeps ==
  ASSUME NEW past \in Seq(Entry), NEW i \in 1 .. Len(past), NEW rejected,
         NEW m \in past[i].meas, \A d \in Delayed : d.delay # Len(past) - i
  PROVE  m \in Placed(past, i, rejected).meas
<1>1. {d \in Delayed : d.delay = Len(past) - i} = {}
  OBVIOUS
<1>2. past[i] \in Entry
  OBVIOUS
<1>3. Placed(past, i, rejected) = [past[i] EXCEPT !.meas = {x \in @ : x.element \notin {}} \cup {}]
  BY <1>1 DEF Placed, Elements
<1> QED
  BY <1>2, <1>3 DEF Entry

(* A delayed measurement is placed in the entry of its step.               *)
LEMMA PlacedNow ==
  ASSUME NEW past \in Seq(Entry), NEW i \in 1 .. Len(past), NEW rejected,
         NEW m \in Delayed, m.delay = Len(past) - i, m.element \notin rejected
  PROVE  m \in Placed(past, i, rejected).meas
<1>1. past[i] \in Entry
  OBVIOUS
<1>2. PICK here : here = {d \in Delayed : d.delay = Len(past) - i}
  OBVIOUS
<1>3. PICK ms : ms = {x \in past[i].meas : x.element \notin Elements(here)}
                       \cup {x \in here : x.element \notin rejected}
  OBVIOUS
<1>4. Placed(past, i, rejected) = [past[i] EXCEPT !.meas = ms]
  BY <1>2, <1>3 DEF Placed
<1> QED
  BY <1>1, <1>2, <1>3, <1>4 DEF Entry

(* After a repetition every measurement that was not too old is in the     *)
(* estimate and in the container, or overtaken.                            *)
LEMMA RepetitionKeeps ==
  ASSUME IInv, KeptInv, Delayed # {}, NEW rejected \in Outliers,
         NEW given, given = log \cup {d \in measurements : d.element \notin rejected},
         NEW next \in Nat, next = step + 1,
         NEW first, first = First(Len(Remembered)),
         NEW past, past = Repeated(rejected, first),
         NEW m \in given, InTime(m)
  PROVE  Overtaken(m, given) \/ KeptIn(m, Replayed(past, first), past, next)
<1> SUFFICES ASSUME ~Overtaken(m, given)
             PROVE  KeptIn(m, Replayed(past, first), past, next)
  OBVIOUS
<1>0. step \in Nat
  BY MaxStepAssumption DEF IInv, TypeOK
<1>1. PICK n \in Nat \ {0} : n = Len(Remembered) /\ n = Size(step + 1)
  BY RememberedEntries
<1>2. PICK b \in Delayed : b.element = "beacon"
  BY DEF KeptInv
<1>3. b \in given
  BY <1>2 DEF Delayed, Outliers
<1>4. PICK from \in Int :
        /\ from = next - n + first /\ RepeatedFrom(b) = from /\ first \in 1 .. n
        /\ b.arrived = next /\ b.delay \in Nat \ {0} /\ Taken(b) = next - b.delay
        /\ b.delay < n => first = n - b.delay
  <2>1. /\ first \in 1 .. n
        /\ b.arrived = step + 1 /\ b.delay \in Nat \ {0} /\ Taken(b) = step + 1 - b.delay
        /\ RepeatedFrom(b) = step + 1 - n + first
        /\ b.delay < n => first = n - b.delay
    BY <1>1, RepetitionStart
  <2>2. next - n + first \in Int
    BY <2>1
  <2>3. /\ b.arrived = next /\ Taken(b) = next - b.delay
        /\ RepeatedFrom(b) = next - n + first
    BY <1>0, <2>1
  <2> QED
    BY <2>1, <2>2, <2>3
<1>5. \A d \in Delayed : d.delay = b.delay
  BY <1>2 DEF IInv, GoodMeasurements
<1>6. /\ past \in Seq(Entry) /\ Len(past) = n
      /\ \A i \in 1 .. n :
           /\ past[i].state = Remembered[i].state
           /\ past[i] = IF i < first THEN Remembered[i] ELSE Placed(Remembered, i, rejected)
      /\ GoodContainer(past, next, given)
  <2>1. log \subseteq given /\ given \subseteq log \cup measurements
    OBVIOUS
  <2>2. /\ past \in Seq(Entry)
        /\ Len(past) = Len(Remembered) /\ first \in 1 .. Len(Remembered)
        /\ \A i \in 1 .. Len(Remembered) :
             /\ past[i].state = Remembered[i].state
             /\ past[i] = IF i < first THEN Remembered[i]
                          ELSE Placed(Remembered, i, rejected)
        /\ GoodContainer(past, next, given)
    BY <2>1, RepeatedGood
  <2> QED
    BY <1>1, <2>2
<1>7. Remembered \in Seq(Entry)
  BY RememberedGood
<1>8. \A k \in 1 .. next : Replayed(past, first)[k] = IF k < from THEN past[first].state[k]
                                                      ELSE past[k - next + n].meas
  <2>1. first \in 1 .. Len(past) /\ from = next - Len(past) + first
    BY <1>4, <1>6
  <2>2. past \in Seq(Entry) /\ GoodContainer(past, next, given) /\ Len(past) = n
    BY <1>6
  <2>3. ASSUME NEW k \in 1 .. next
        PROVE  Replayed(past, first)[k] = IF k < from THEN past[first].state[k]
                                          ELSE past[k - next + Len(past)].meas
    <3>1. PICK p, l, f, g : p = past /\ l = next /\ f = first /\ g = given
      OBVIOUS
    <3>2. /\ p \in Seq(Entry) /\ l \in Nat /\ GoodContainer(p, l, g)
          /\ f \in 1 .. Len(p) /\ from = l - Len(p) + f /\ k \in 1 .. l
      BY <2>1, <2>2, <3>1
    <3>3. Replayed(p, f)[k] = IF k < from THEN p[f].state[k] ELSE p[k - l + Len(p)].meas
      BY <3>2, ReplayedEntries
    <3> QED
      BY <3>1, <3>3
  <2> QED
    BY <2>2, <2>3
<1>9. m \in log \cup measurements
  OBVIOUS
<1>10. /\ m.arrived \in Nat /\ m.delay \in Nat \ {0}
       /\ m.delay <= Size(m.arrived) - 1 /\ Size(m.arrived) <= m.arrived
       /\ Taken(m) = m.arrived - m.delay /\ Taken(m) \in Nat \ {0}
  BY <1>9, InTimeFields
<1>11. PICK t \in Nat \ {0} : t = Taken(m) /\ t < m.arrived
  BY <1>10
(* One that came earlier.                                                  *)
<1>12. CASE m \in log
  <2>1. m.arrived <= step /\ t < next /\ t \in 1 .. next
    BY <1>10, <1>11, <1>12 DEF IInv
  <2>2. KeptIn(m, nav, pastStates, step)
    <3>1. log \subseteq given
      OBVIOUS
    <3>2. ~Overtaken(m, log)
      BY <3>1, OvertakenGrows
    <3> QED
      BY <1>12, <3>2 DEF KeptInv
  <2>3. KeptIn(m, Append(nav, Current), Remembered, step + 1)
    BY <1>12, <2>2, RememberedKeeps
  <2>4. \A i \in 1 .. n :
          /\ next - n + i = t => m \in Remembered[i].meas
          /\ next - n + i > m.arrived => m \in Remembered[i].state[t]
    BY <1>1, <1>11, <2>3 DEF KeptIn
  <2>5. b.arrived > m.arrived
    BY <1>0, <1>4, <1>10, <2>1
  <2>6. Taken(b) # t /\ from \notin t + 1 .. m.arrived
    BY <1>3, <1>4, <1>11, <2>5 DEF Overtaken
  <2>7. ASSUME NEW i \in 1 .. n, next - n + i = t
        PROVE  m \in past[i].meas
    <3>1. m \in Remembered[i].meas
      BY <2>4, <2>7
    <3>2. CASE i < first
      BY <1>6, <3>1, <3>2
    <3>3. CASE ~(i < first)
      <4>1. \A d \in Delayed : d.delay # Len(Remembered) - i
        <5>1. b.delay # n - i
          BY <1>4, <2>6, <2>7
        <5> QED
          BY <1>1, <1>5, <5>1
      <4>2. m \in Placed(Remembered, i, rejected).meas
        BY <1>1, <1>7, <3>1, <4>1, PlacedKeeps
      <4> QED
        BY <1>6, <3>3, <4>2
    <3> QED
      BY <3>2, <3>3
  <2>8. ASSUME NEW i \in 1 .. n, next - n + i > m.arrived
        PROVE  m \in past[i].state[t]
    BY <1>6, <2>4, <2>8
  <2>9. m \in Replayed(past, first)[t]
    <3>1. CASE t < from
      <4>1. from > m.arrived
        BY <1>10, <2>6, <3>1
      <4>2. m \in past[first].state[t]
        BY <1>4, <2>8, <4>1
      <4> QED
        BY <1>8, <2>1, <3>1, <4>2
    <3>2. CASE ~(t < from)
      <4>1. PICK i \in 1 .. n : i = t - next + n
        <5>1. t - next + n \in 1 .. n
          BY <1>4, <2>1, <3>2
        <5> QED
          BY <5>1
      <4>2. next - n + i = t
        BY <4>1
      <4> QED
        BY <1>8, <2>1, <2>7, <3>2, <4>1, <4>2
    <3> QED
      BY <3>1, <3>2
  <2> QED
    BY <1>6, <1>11, <2>7, <2>8, <2>9 DEF KeptIn
(* One that just came.                                                     *)
<1>13. CASE m \in measurements /\ m.element \notin rejected
  <2>1. m \in Delayed
    BY <1>10, <1>13 DEF Delayed
  <2>2. m.arrived = next /\ m.delay = b.delay
    BY <1>5, <1>13, <2>1 DEF IInv, GoodMeasurements
  <2>3. m.delay < n /\ first = n - m.delay /\ from = t
    <3>1. m.delay < n
      BY <1>0, <1>1, <1>10, <2>2
    <3>2. first = n - m.delay
      BY <1>4, <2>2, <3>1
    <3> QED
      BY <1>4, <1>10, <1>11, <2>2, <3>1, <3>2
  <2>4. m.delay = n - first /\ first \in 1 .. n
    BY <1>4, <1>10, <2>3
  <2>5. m \in Placed(Remembered, first, rejected).meas
    BY <1>1, <1>7, <1>13, <2>1, <2>4, PlacedNow
  <2>6. m \in past[first].meas
    BY <1>6, <2>4, <2>5
  <2>7. \A i \in 1 .. n : (next - n + i = t => i = first) /\ ~(next - n + i > m.arrived)
    BY <1>4, <2>2, <2>3
  <2>8. m \in Replayed(past, first)[t]
    <3>1. t \in 1 .. next /\ t - next + n = first
      BY <1>4, <1>10, <1>11, <2>2, <2>3
    <3> QED
      BY <1>8, <2>3, <2>6, <3>1
  <2> QED
    BY <1>6, <1>11, <2>6, <2>7, <2>8 DEF KeptIn
<1> QED
  BY <1>12, <1>13

(* The first steps of the argument: what a callback and the first state    *)
(* leave of it.                                                            *)
LEMMA KeptInvWaits ==
  ASSUME KeptInv, UNCHANGED <<step, nav, pastStates, log>>,
         Delayed' # {} => \E b \in Delayed' : b.element = "beacon"
  PROVE  KeptInv'
<1>1. PICK t : t = step
  OBVIOUS
<1>2. Len(pastStates') = Size(step')
  <2>1. Len(pastStates) = Size(t)
    BY <1>1 DEF KeptInv
  <2> QED
    BY <1>1, <2>1
<1>3. \A m \in log' : InTime(m) => Overtaken(m, log') \/ KeptIn(m, nav', pastStates', step')
  BY DEF KeptInv
<1> QED
  BY <1>2, <1>3 DEF KeptInv

(* A step without delayed measurements.                                    *)
LEMMA KeptOnTime ==
  ASSUME IInv, KeptInv, StepOnTime, step' = step + 1, measurements' = {}
  PROVE  KeptInv'
<1>1. /\ nav' = Append(nav, Current) /\ pastStates' = Remembered
      /\ log' = log \cup Current
  BY DEF StepOnTime
<1>2. Len(pastStates') = Size(step')
  BY <1>1, RememberedEntries
<1>3. Delayed' = {}
  BY DEF Delayed
<1>4. ASSUME NEW m \in log', InTime(m), ~Overtaken(m, log')
      PROVE  KeptIn(m, nav', pastStates', step')
  <2>1. m \in log
    <3>1. \A x \in Current : x.delay = 0
      BY DEF Current
    <3>2. m.delay \in Nat \ {0}
      <4>1. m \in log \cup measurements
        BY <1>1 DEF Current
      <4> QED
        BY <1>4, <4>1, InTimeFields
    <3> QED
      BY <1>1, <3>1, <3>2
  <2>2. ~Overtaken(m, log)
    <3>1. PICK given : given = log'
      OBVIOUS
    <3>2. log \subseteq given /\ ~Overtaken(m, given)
      BY <1>1, <1>4, <3>1
    <3> QED
      BY <3>2, OvertakenGrows
  <2>3. KeptIn(m, nav, pastStates, step)
    BY <1>4, <2>1, <2>2 DEF KeptInv
  <2> QED
    BY <1>1, <1>4, <2>1, <2>3, RememberedKeeps
<1> QED
  BY <1>2, <1>3, <1>4 DEF KeptInv

(* A step that goes back.                                                  *)
LEMMA KeptGoingBack ==
  ASSUME IInv, KeptInv, NEW rejected \in Outliers, StepBack(rejected),
         step' = step + 1, measurements' = {}
  PROVE  KeptInv'
<1>1. PICK first : first = First(Len(Remembered))
  OBVIOUS
<1>2. PICK past : past = Repeated(rejected, first)
  OBVIOUS
<1>3. PICK given : given = log \cup {d \in measurements : d.element \notin rejected}
  OBVIOUS
<1>4. /\ Delayed # {}
      /\ nav' = Replayed(past, first) /\ pastStates' = past /\ log' = given
  BY <1>1, <1>2, <1>3 DEF StepBack, Repeated
<1>5. PICK next \in Nat : next = step + 1
  BY MaxStepAssumption DEF IInv, TypeOK
<1>6. Len(pastStates') = Size(step')
  <2>1. DOMAIN Remembered = 1 .. Len(Remembered) /\ Len(Remembered) \in Nat
    BY RememberedGood, LenProperties
  <2>2. past \in Seq(Entry) /\ Len(past) = Len(Remembered)
    <3>1. /\ log \subseteq given /\ given \subseteq log \cup measurements
          /\ first = First(Len(Remembered)) /\ Delayed # {}
      BY <1>1, <1>3, <1>4
    <3>2. /\ Repeated(rejected, first) \in Seq(Entry)
          /\ Len(Repeated(rejected, first)) = Len(Remembered)
      BY <1>5, <3>1, RepeatedGood
    <3> QED
      BY <1>2, <3>2
  <2> QED
    BY <1>4, <2>2, RememberedEntries
<1>7. Delayed' = {}
  BY DEF Delayed
<1>8. ASSUME NEW m \in log', InTime(m)
      PROVE  Overtaken(m, log') \/ KeptIn(m, nav', pastStates', step')
  <2>1. m \in given
    BY <1>4
  <2>2. Overtaken(m, given) \/ KeptIn(m, Replayed(past, first), past, next)
    BY <1>1, <1>2, <1>3, <1>4, <1>5, <1>8, <2>1, RepetitionKeeps
  <2> QED
    BY <1>4, <1>5, <2>2
<1> QED
  BY <1>6, <1>7, <1>8 DEF KeptInv

LEMMA KeptInvariant == Spec => []KeptInv
<1>1. Init => KeptInv
  <2> SUFFICES ASSUME Init PROVE KeptInv
    OBVIOUS
  <2>1. Size(0) = 0
    BY MaxPastAssumption DEF Size
  <2> QED
    BY <2>1 DEF Init, KeptInv, Delayed
<1>2. IInv /\ KeptInv /\ [Next]_vars => KeptInv'
  <2> SUFFICES ASSUME IInv, KeptInv, [Next]_vars PROVE KeptInv'
    OBVIOUS
  <2>1. ASSUME NEW e \in Punctual, OnPunctual(e) PROVE KeptInv'
    <3>1. UNCHANGED <<step, nav, pastStates, log>>
      BY <2>1 DEF OnPunctual
    <3>2. Delayed' = Delayed
      BY <2>1 DEF OnPunctual, Delayed
    <3> QED
      BY <3>1, <3>2, KeptInvWaits DEF KeptInv
  <2>2. ASSUME NEW delay \in Delays, OnUSBLfix(delay) PROVE KeptInv'
    <3>1. UNCHANGED <<step, nav, pastStates, log>>
      BY <2>2 DEF OnUSBLfix
    <3>2. PICK fix : fix = {[element |-> e, arrived |-> step + 1, delay |-> delay] : e \in Fix}
      OBVIOUS
    <3>3. measurements' = measurements \cup fix
      BY <2>2, <3>2 DEF OnUSBLfix
    <3>4. ASSUME NEW d \in Delayed' PROVE \E b \in Delayed' : b.element = "beacon"
      <4>1. CASE d \in measurements
        <5>1. d \in Delayed
          BY <4>1 DEF Delayed
        <5>2. PICK b \in Delayed : b.element = "beacon"
          BY <5>1 DEF KeptInv
        <5> QED
          BY <3>3, <5>2 DEF Delayed
      <4>2. CASE d \in fix
        <5>1. delay > 0
          BY <3>2, <4>2 DEF Delayed
        <5>2. PICK b : b = [element |-> "beacon", arrived |-> step + 1, delay |-> delay]
          OBVIOUS
        <5>3. b \in fix /\ b.element = "beacon" /\ b.delay = delay
          BY <3>2, <5>2 DEF Fix
        <5> QED
          BY <3>3, <5>1, <5>3 DEF Delayed
      <4> QED
        BY <3>3, <4>1, <4>2 DEF Delayed
    <3> QED
      BY <3>1, <3>4, KeptInvWaits
  <2>3. CASE Step
    <3>1. step' = step + 1 /\ measurements' = {}
      BY <2>3 DEF Step
    <3>2. ASSUME StepOnTime PROVE KeptInv'
      BY <3>1, <3>2, KeptOnTime
    <3>3. ASSUME NEW rejected \in Outliers, StepBack(rejected) PROVE KeptInv'
      BY <3>1, <3>3, KeptGoingBack
    <3> QED
      BY <2>3, <3>2, <3>3 DEF Step
  <2>4. CASE UNCHANGED vars
    <3>1. UNCHANGED <<step, nav, pastStates, log>> /\ Delayed' = Delayed
      BY <2>4 DEF vars, Delayed
    <3> QED
      BY <3>1, KeptInvWaits DEF KeptInv
  <2> QED
    BY <2>1, <2>2, <2>3, <2>4 DEF Next, Shutdown
<1> QED
  BY <1>1, <1>2, InductiveInvariant, PTL DEF Spec

(* A measurement of a fix that is not too old when it comes in is in the   *)
(* estimate of the step it was taken at for ever after, unless a later fix *)
(* makes the filter go back between its step and its arrival or is of the  *)
(* same step (the main loop of EKF_3D_USBL.cpp, which places a fix only in the *)
(* entries of the container and not in the states stored since).           *)
THEOREM DelayedKept == Spec => []KeptUnlessOvertaken
<1>1. IInv /\ KeptInv => KeptUnlessOvertaken
  <2> SUFFICES ASSUME KeptInv, NEW m \in log, InTime(m), m \notin nav[Taken(m)]
               PROVE  Overtaken(m, log)
    BY DEF KeptUnlessOvertaken, Overtaken
  <2>1. ~KeptIn(m, nav, pastStates, step)
    BY DEF KeptIn
  <2> QED
    BY <2>1 DEF KeptInv
<1> QED
  BY <1>1, InductiveInvariant, KeptInvariant, PTL
=============================================================================
