--------------------------- MODULE PNControllerProofs ---------------------------
(***************************************************************************)
(* Proofs about PNController, for any number of DOFs and any requests.     *)
(*                                                                         *)
(* The argument: a transition that passes the enabling test takes a token  *)
(* from every place it uses (EnabledTest), so firing it hands each DOF of  *)
(* these places to exactly one other place (FireKeepsGood).  Everything    *)
(* the callbacks do to a marking is such a firing, or the addition of an   *)
(* unmarked place.                                                         *)
(*                                                                         *)
(* The reachability graph is closed under firing because it is extended,   *)
(* with each controller, from all the markings it had (RGraphComplete).    *)
(*                                                                         *)
(* A path that the search returns and that is not ignored disables         *)
(* controllers first and enables controllers afterwards: an enabling       *)
(* transition leads to the place of its controller only, and disabling     *)
(* that controller again would make a T-invariant.  So disabling leads     *)
(* down in the net and enabling up (DownThenUp): what is disabled shares   *)
(* a DOF with the controller asked for, and what is enabled uses none but  *)
(* its DOFs (OnTheWay), in whatever order the firing loop takes them.      *)
(***************************************************************************)
EXTENDS PNController, FiniteSetTheorems, SequenceTheorems, TLAPS

-----------------------------------------------------------------------------
(* Numbering of places and transitions.                                    *)

(* Every transition enables or disables a registered controller.           *)
LEMMA TransitionKind ==
  ASSUME TypeOK, NEW t \in Transitions
  PROVE  /\ ControllerOf(t) \in Controllers
         /\ Place(ControllerOf(t)) \in Places
         /\ Place(ControllerOf(t)) \notin Dofs
         /\ IsEnable(t) \in BOOLEAN
  BY NDofAssumption
     DEF TypeOK, Transitions, ControllerOf, Controllers, Place, Places, Dofs, IsEnable

(* Controllers can be counted.                                             *)
LEMMA RegistryLength ==
  ASSUME TypeOK
  PROVE  Len(registry) \in Nat
  BY DEF TypeOK

(* The transition that enables controller k.                               *)
LEMMA EnableTransition ==
  ASSUME TypeOK, NEW k \in Controllers
  PROVE  /\ EnableT(k) \in Transitions
         /\ IsEnable(EnableT(k))
         /\ ControllerOf(EnableT(k)) = k
  BY DEF TypeOK, EnableT, Transitions, IsEnable, ControllerOf, Controllers

(* The places a transition takes from and gives to are places of the net.  *)
LEMMA InputsOutputs ==
  ASSUME TypeOK, NetOK, NEW t \in Transitions
  PROVE  /\ Inputs(t) \subseteq Places
         /\ Outputs(t) \subseteq Places
         /\ IsFiniteSet(Inputs(t))
<1> DEFINE k == ControllerOf(t)
<1>1. k \in Controllers /\ Place(k) \in Places
  BY TransitionKind
<1>2. Place(k) \in Int /\ Used(k) \subseteq 0 .. Place(k) - 1
  BY <1>1, NDofAssumption DEF NetOK, Place, Places, Controllers, TypeOK
<1>3. 0 .. Place(k) - 1 \subseteq Places
  BY <1>1, <1>2, NDofAssumption DEF Place, Places, Controllers, TypeOK
<1>4. IsFiniteSet(Used(k))
  <2>1. IsFiniteSet(0 .. Place(k) - 1)
    <3>1. 0 \in Int /\ Place(k) - 1 \in Int
      BY <1>2
    <3> QED
      BY <3>1, FS_Interval
  <2> QED
    BY <1>2, <2>1, FS_Subset
<1>5. IsFiniteSet({Place(k)})
  BY FS_Singleton
<1> QED
  BY <1>1, <1>2, <1>3, <1>4, <1>5 DEF Inputs, Outputs

-----------------------------------------------------------------------------
(* The enabling test.                                                      *)

(* Counting the tokens on a set of places that have at most one each tells *)
(* whether all of them have one.                                           *)
LEMMA EnabledTest ==
  ASSUME NEW S, IsFiniteSet(S), NEW mk, \A p \in S : mk[p] \in {0, 1}
  PROVE  Cardinality(TokensOn(S, mk)) = Cardinality(S) <=> \A p \in S : mk[p] > 0
<1> DEFINE T == {p \in S : mk[p] = 1}
           f == [p \in T |-> <<p, 1>>]
<1>1. TokensOn(S, mk) = {<<p, 1>> : p \in T}
  <2>1. ASSUME NEW p \in S
        PROVE  {p} \X (1 .. mk[p]) = {q \in {<<p, 1>>} : mk[p] = 1}
    <3>1. CASE mk[p] = 1
      <4>1. 1 .. mk[p] = {1}
        BY <3>1
      <4> QED
        BY <3>1, <4>1
    <3>2. CASE mk[p] = 0
      <4>1. 1 .. mk[p] = {}
        BY <3>2
      <4> QED
        BY <3>2, <4>1
    <3> QED
      BY <3>1, <3>2
  <2> QED
    BY <2>1 DEF TokensOn
<1>2. IsFiniteSet(T) /\ Cardinality(T) \in Nat
  BY FS_Subset, FS_CardinalityType
<1>3. Cardinality(TokensOn(S, mk)) = Cardinality(T)
  <2>1. f \in Bijection(T, TokensOn(S, mk))
    BY <1>1 DEF Bijection, Injection, Surjection, IsInjective
  <2> QED
    BY <1>2, <2>1, FS_Bijection DEF ExistsBijection
<1>4. Cardinality(T) = Cardinality(S) <=> T = S
  BY FS_Subset
<1> QED
  BY <1>3, <1>4

(* In a marking of a safe net, a transition passes the test of the code    *)
(* exactly when every input place has a token.                             *)
LEMMA EnabledIffMarked ==
  ASSUME TypeOK, NetOK, NEW mk \in [Places -> {0, 1}], NEW t \in Transitions
  PROVE  IsEnabled(t, mk) <=> \A p \in Inputs(t) : mk[p] = 1
<1>1. \A p \in Inputs(t) : mk[p] \in {0, 1}
  BY InputsOutputs
<1>2. IsEnabled(t, mk) <=> \A p \in Inputs(t) : mk[p] > 0
  BY <1>1, InputsOutputs, EnabledTest DEF IsEnabled
<1> QED
  BY <1>1, <1>2

-----------------------------------------------------------------------------
(* Firing.                                                                 *)

(* In a good marking two marked places share no DOF.                       *)
LEMMA MarkedPlacesDisjoint ==
  ASSUME NetOK, NEW mk, GoodMarking(mk),
         NEW p \in Places, NEW q \in Places, p # q, mk[p] = 1, mk[q] = 1
  PROVE  Holds(p) \cap Holds(q) = {}
<1> SUFFICES ASSUME NEW d \in Holds(p) \cap Holds(q) PROVE FALSE
  OBVIOUS
<1>1. d \in Dofs
  BY DEF NetOK
<1>2. p \in Holders(d, mk) /\ q \in Holders(d, mk)
  BY DEF Holders, GoodMarking
<1> QED
  BY <1>1, <1>2 DEF GoodMarking, IsExclusive

(* The controllers in a closed set, and the places they use, are clean.    *)
LEMMA CleanPlacesClosed ==
  /\ CleanPlaces \subseteq Places
  /\ \A k \in Controllers :
       Place(k) \in CleanPlaces => Used(k) \subseteq CleanPlaces /\ DisjointUse(k)
  BY DEF CleanPlaces, IsClosed

(* A controller that uses clean places without overlap is clean.           *)
LEMMA CleanPlacesMaximal ==
  ASSUME TypeOK, NEW k \in Controllers, Place(k) \in Places,
         Used(k) \subseteq CleanPlaces, DisjointUse(k)
  PROVE  Place(k) \in CleanPlaces
<1> DEFINE S == CleanPlaces \cup {Place(k)}
<1>1. S \in SUBSET Places
  BY CleanPlacesClosed
<1>2. ASSUME NEW j \in Controllers, Place(j) \in S
      PROVE  Used(j) \subseteq S /\ DisjointUse(j)
  <2>1. CASE Place(j) \in CleanPlaces
    BY <2>1, CleanPlacesClosed
  <2>2. CASE Place(j) = Place(k)
    <3>1. j = k
      BY <2>2, NDofAssumption DEF Place, Controllers, TypeOK
    <3> QED
      BY <3>1
  <2> QED
    BY <1>2, <2>1, <2>2
<1>3. IsClosed(S)
  BY <1>2 DEF IsClosed
<1> QED
  BY <1>1, <1>3 DEF CleanPlaces

(* What enabling a controller does to the marking.                         *)
LEMMA EnableMoves ==
  ASSUME TypeOK, NetOK, NEW mk, GoodMarking(mk), NEW t \in Transitions,
         IsEnable(t), IsEnabled(t, mk),
         NEW k, k = ControllerOf(t), NEW c, c = Place(k)
  PROVE  /\ k \in Controllers /\ c \in Places /\ c \notin Dofs
         /\ Used(k) \subseteq Places /\ Used(k) # {} /\ c \notin Used(k)
         /\ Holds(c) = UNION {Holds(q) : q \in Used(k)}
         /\ \A q \in Used(k) : mk[q] = 1
         /\ mk[c] = 0
         /\ Fire(t, mk) =
              [p \in Places |-> IF p = c THEN 1 ELSE IF p \in Used(k) THEN 0 ELSE mk[p]]
<1>1. /\ k \in Controllers /\ c \in Places /\ c \notin Dofs
      /\ Inputs(t) = Used(k) /\ Outputs(t) = {c}
      /\ Used(k) \subseteq Places /\ Used(k) # {} /\ c \notin Used(k)
      /\ Holds(c) = UNION {Holds(q) : q \in Used(k)}
  <2>1. k \in Controllers /\ c \in Places /\ c \notin Dofs
    BY TransitionKind
  <2>2. Inputs(t) = Used(k) /\ Outputs(t) = {c}
    BY DEF Inputs, Outputs
  <2>3. c \in Int /\ Used(k) \subseteq 0 .. c - 1
    <3>1. k \in Int
      BY <2>1, RegistryLength DEF Controllers
    <3>2. c \in Int
      BY <3>1, NDofAssumption DEF Place
    <3>3. Used(k) \subseteq 0 .. c - 1
      BY <2>1 DEF NetOK
    <3> QED
      BY <3>2, <3>3
  <2> QED
    BY <2>1, <2>2, <2>3, InputsOutputs DEF NetOK, Holds
<1>2. \A q \in Used(k) : mk[q] = 1
  BY <1>1, EnabledIffMarked DEF GoodMarking
<1>3. mk[c] = 0
  <2>1. PICK q \in Used(k) : TRUE
    BY <1>1
  <2>2. Holds(q) # {} /\ Holds(q) \subseteq Holds(c)
    BY <1>1 DEF NetOK
  <2>3. mk[c] # 1
    BY <1>1, <1>2, <2>2, MarkedPlacesDisjoint
  <2> QED
    BY <1>1, <2>3 DEF GoodMarking
<1>4. Fire(t, mk) =
       [p \in Places |-> IF p = c THEN 1 ELSE IF p \in Used(k) THEN 0 ELSE mk[p]]
  BY <1>1, <1>2, <1>3 DEF Fire, Weight, GoodMarking
<1> QED
  BY <1>1, <1>2, <1>3, <1>4

(* Enabling a controller hands it the DOFs of everything it uses.          *)
LEMMA EnableKeepsGood ==
  ASSUME TypeOK, NetOK, NEW mk, GoodMarking(mk), NEW t \in Transitions,
         IsEnable(t), IsEnabled(t, mk)
  PROVE  GoodMarking(Fire(t, mk))
<1>0. PICK k, c, new : k = ControllerOf(t) /\ c = Place(k) /\ new = Fire(t, mk)
  OBVIOUS
<1>1. /\ k \in Controllers /\ c \in Places
      /\ Used(k) \subseteq Places /\ Used(k) # {} /\ c \notin Used(k)
      /\ Holds(c) = UNION {Holds(q) : q \in Used(k)}
  BY <1>0, EnableMoves
<1>2. \A q \in Used(k) : mk[q] = 1
  BY <1>0, EnableMoves
<1>3. mk[c] = 0
  BY <1>0, EnableMoves
<1>4. new = [p \in Places |-> IF p = c THEN 1 ELSE IF p \in Used(k) THEN 0 ELSE mk[p]]
  BY <1>0, EnableMoves
<1>5. new \in [Places -> {0, 1}]
  BY <1>4 DEF GoodMarking
<1>6. ASSUME NEW d \in Dofs
      PROVE  \E p \in Places : Holders(d, new) = {p}
  <2>1. PICK p \in Places : Holders(d, mk) = {p}
    BY DEF GoodMarking, IsExclusive
  <2>2. mk[p] = 1 /\ d \in Holds(p)
    BY <2>1 DEF Holders, GoodMarking
  <2>3. \A q \in Places : mk[q] = 1 /\ d \in Holds(q) => q = p
    BY <2>1 DEF Holders, GoodMarking
  <2>4. CASE d \in Holds(c)
    <3>1. PICK q \in Used(k) : d \in Holds(q)
      BY <1>1, <2>4
    <3>2. p = q
      BY <1>1, <1>2, <2>3, <3>1
    <3>3. \A r \in Places : new[r] > 0 /\ d \in Holds(r) <=> r = c
      BY <1>1, <1>4, <1>5, <2>3, <2>4, <3>2 DEF GoodMarking
    <3>4. Holders(d, new) = {c}
      BY <1>1, <1>5, <3>3 DEF Holders
    <3> QED
      BY <1>1, <3>4
  <2>5. CASE d \notin Holds(c)
    <3>1. p \notin Used(k) /\ p # c
      BY <1>1, <2>2, <2>5
    <3>2. \A r \in Places : new[r] > 0 /\ d \in Holds(r) <=> r = p
      BY <1>1, <1>4, <1>5, <2>2, <2>3, <2>5, <3>1 DEF GoodMarking
    <3>3. Holders(d, new) = {p}
      BY <1>5, <3>2 DEF Holders
    <3> QED
      BY <3>3
  <2> QED
    BY <2>4, <2>5
<1>7. c \in CleanPlaces
  <2>1. DisjointUse(k)
    BY <1>1, <1>2, MarkedPlacesDisjoint DEF DisjointUse
  <2>2. Used(k) \subseteq CleanPlaces
    BY <1>1, <1>2 DEF GoodMarking
  <2> QED
    BY <1>0, <1>1, <2>1, <2>2, CleanPlacesMaximal
<1>8. \A p \in Places : new[p] = 1 => p \in CleanPlaces
  BY <1>4, <1>7 DEF GoodMarking
<1>9. IsExclusive(new)
  BY <1>5, <1>6 DEF IsExclusive
<1> QED
  BY <1>0, <1>5, <1>8, <1>9 DEF GoodMarking

(* What disabling a controller does to the marking.                         *)
LEMMA DisableMoves ==
  ASSUME TypeOK, NetOK, NEW mk, GoodMarking(mk), NEW t \in Transitions,
         ~IsEnable(t), IsEnabled(t, mk),
         NEW k, k = ControllerOf(t), NEW c, c = Place(k)
  PROVE  /\ k \in Controllers /\ c \in Places /\ c \notin Dofs
         /\ Used(k) \subseteq Places /\ c \notin Used(k)
         /\ Holds(c) = UNION {Holds(q) : q \in Used(k)}
         /\ \A q \in Used(k) : mk[q] = 0
         /\ mk[c] = 1
         /\ Fire(t, mk) =
              [p \in Places |-> IF p = c THEN 0 ELSE IF p \in Used(k) THEN 1 ELSE mk[p]]
<1>1. /\ k \in Controllers /\ c \in Places /\ c \notin Dofs
      /\ Inputs(t) = {c} /\ Outputs(t) = Used(k)
      /\ Used(k) \subseteq Places /\ c \notin Used(k)
      /\ Holds(c) = UNION {Holds(q) : q \in Used(k)}
  <2>1. k \in Controllers /\ c \in Places /\ c \notin Dofs
    BY TransitionKind
  <2>2. Inputs(t) = {c} /\ Outputs(t) = Used(k)
    BY DEF Inputs, Outputs
  <2>3. c \in Int /\ Used(k) \subseteq 0 .. c - 1
    <3>1. k \in Int
      BY <2>1, RegistryLength DEF Controllers
    <3>2. c \in Int
      BY <3>1, NDofAssumption DEF Place
    <3>3. Used(k) \subseteq 0 .. c - 1
      BY <2>1 DEF NetOK
    <3> QED
      BY <3>2, <3>3
  <2> QED
    BY <2>1, <2>2, <2>3, InputsOutputs DEF NetOK, Holds
<1>2. mk[c] = 1
  BY <1>1, EnabledIffMarked DEF GoodMarking
<1>3. \A q \in Used(k) : mk[q] = 0
  <2> SUFFICES ASSUME NEW q \in Used(k) PROVE mk[q] # 1
    BY <1>1 DEF GoodMarking
  <2>1. Holds(q) # {} /\ Holds(q) \subseteq Holds(c) /\ q \in Places /\ q # c
    BY <1>1 DEF NetOK
  <2> QED
    BY <1>1, <1>2, <2>1, MarkedPlacesDisjoint
<1>4. Fire(t, mk) =
       [p \in Places |-> IF p = c THEN 0 ELSE IF p \in Used(k) THEN 1 ELSE mk[p]]
  BY <1>1, <1>2, <1>3 DEF Fire, Weight, GoodMarking
<1> QED
  BY <1>1, <1>2, <1>3, <1>4

(* Disabling a controller hands each of its DOFs back to the one place     *)
(* that gave it.                                                           *)
LEMMA DisableKeepsGood ==
  ASSUME TypeOK, NetOK, NEW mk, GoodMarking(mk), NEW t \in Transitions,
         ~IsEnable(t), IsEnabled(t, mk)
  PROVE  GoodMarking(Fire(t, mk))
<1>0. PICK k, c, new : k = ControllerOf(t) /\ c = Place(k) /\ new = Fire(t, mk)
  OBVIOUS
<1>1. /\ k \in Controllers /\ c \in Places
      /\ Used(k) \subseteq Places /\ c \notin Used(k)
      /\ Holds(c) = UNION {Holds(q) : q \in Used(k)}
  BY <1>0, DisableMoves
<1>2. mk[c] = 1
  BY <1>0, DisableMoves
<1>3. \A q \in Used(k) : mk[q] = 0
  BY <1>0, DisableMoves
<1>4. new = [p \in Places |-> IF p = c THEN 0 ELSE IF p \in Used(k) THEN 1 ELSE mk[p]]
  BY <1>0, DisableMoves
<1>5. new \in [Places -> {0, 1}]
  BY <1>4 DEF GoodMarking
<1>6. Used(k) \subseteq CleanPlaces /\ DisjointUse(k)
  BY <1>0, <1>1, <1>2, CleanPlacesClosed DEF GoodMarking
<1>7. ASSUME NEW d \in Dofs
      PROVE  \E p \in Places : Holders(d, new) = {p}
  <2>1. PICK p \in Places : Holders(d, mk) = {p}
    BY DEF GoodMarking, IsExclusive
  <2>2. mk[p] = 1 /\ d \in Holds(p)
    BY <2>1 DEF Holders, GoodMarking
  <2>3. \A q \in Places : mk[q] = 1 /\ d \in Holds(q) => q = p
    BY <2>1 DEF Holders, GoodMarking
  <2>4. CASE d \in Holds(c)
    <3>1. PICK q \in Used(k) : d \in Holds(q)
      BY <1>1, <2>4
    <3>2. p = c
      BY <1>1, <1>2, <2>3, <2>4
    <3>3. \A r \in Used(k) : d \in Holds(r) => r = q
      BY <1>6, <3>1 DEF DisjointUse
    <3>4. \A r \in Places : new[r] > 0 /\ d \in Holds(r) <=> r = q
      BY <1>1, <1>4, <1>5, <2>3, <3>1, <3>2, <3>3 DEF GoodMarking
    <3>5. Holders(d, new) = {q}
      BY <1>1, <1>5, <3>1, <3>4 DEF Holders
    <3> QED
      BY <1>1, <3>1, <3>5
  <2>5. CASE d \notin Holds(c)
    <3>1. p \notin Used(k) /\ p # c
      BY <1>1, <2>2, <2>5
    <3>2. \A r \in Places : new[r] > 0 /\ d \in Holds(r) <=> r = p
      BY <1>1, <1>4, <1>5, <2>2, <2>3, <2>5, <3>1 DEF GoodMarking
    <3>3. Holders(d, new) = {p}
      BY <1>5, <3>2 DEF Holders
    <3> QED
      BY <3>3
  <2> QED
    BY <2>4, <2>5
<1>8. \A p \in Places : new[p] = 1 => p \in CleanPlaces
  BY <1>4, <1>6 DEF GoodMarking
<1>9. IsExclusive(new)
  BY <1>5, <1>7 DEF IsExclusive
<1> QED
  BY <1>0, <1>5, <1>8, <1>9 DEF GoodMarking

(* Firing an enabled transition leads from a good marking to a good one.   *)
LEMMA FireKeepsGood ==
  ASSUME TypeOK, NetOK, NEW mk, GoodMarking(mk), NEW t \in Transitions,
         IsEnabled(t, mk)
  PROVE  GoodMarking(Fire(t, mk))
  BY TransitionKind, EnableKeepsGood, DisableKeepsGood

-----------------------------------------------------------------------------
(* Registration.                                                           *)

(* What onRegisterController does to the net: a new place above the others,*)
(* using places of the old net; everything known so far stays as it is.    *)
LEMMA RegistrationExtendsNet ==
  ASSUME TypeOK, NetOK, NEW req \in Requests, RegisterController(req),
         NEW new, new = NDof + Len(registry), NEW last, last = Len(registry) + 1
  PROVE  /\ TypeOK'
         /\ new \notin Places /\ Places' = Places \cup {new}
         /\ Controllers' = Controllers \cup {last} /\ last \notin Controllers
         /\ Place(last) = new
         /\ \A k \in Controllers : Used(k)' = Used(k)
         /\ Used(last)' \subseteq Places /\ Used(last)' # {}
         /\ \A p \in Places : Holds(p)' = Holds(p)
         /\ Holds(new)' = UNION {Holds(q) : q \in Used(last)'}
         /\ dep_resource'[new] = Holds(new)'
         /\ \A p \in Places : dep_resource'[p] = dep_resource[p]
         /\ new \notin Dofs
<1> DEFINE used == [i \in DOMAIN req.cnts |-> PlaceNamed(req.cnts[i])]
           entry == [name |-> req.name, dofs |-> req.dofs, cnts |-> used]
           Entries == [name : {r.name : r \in Requests},
                       dofs : SUBSET Dofs, cnts : Seq(Places)]
<1>1. /\ Len(registry) \in Nat /\ NDof \in Nat \ {0}
      /\ registry \in Seq(Entries)
  BY NDofAssumption DEF TypeOK
<1>2. /\ registry' = Append(registry, entry)
      /\ dep_resource' = [p \in 0 .. new |->
                            IF p = new
                            THEN req.dofs \cup UNION {dep_resource[q] : q \in Range(used)}
                            ELSE dep_resource[p]]
      /\ marking' = [p \in 0 .. new |-> IF p = new THEN 0 ELSE marking[p]]
      /\ m' = marking'
      /\ pc' = "seed_rgraph"
      /\ UNCHANGED <<target, firing_seq, pass, rem, count, maxcount>>
  BY DEF RegisterController
<1>3. /\ new \notin Places /\ 0 .. new = Places \cup {new}
      /\ Dofs \subseteq Places /\ new \notin Dofs
      /\ Place(last) = new
      /\ \A k \in Controllers : Place(k) \in Places \ Dofs
  BY <1>1 DEF Places, Dofs, Place, Controllers
<1>4. \A i \in DOMAIN req.cnts : used[i] \in Places \ Dofs
  <2> SUFFICES ASSUME NEW i \in DOMAIN req.cnts
               PROVE  PlaceNamed(req.cnts[i]) \in Places \ Dofs
    OBVIOUS
  <2>1. \E k \in Controllers : registry[k].name = req.cnts[i]
    BY DEF RegisterController, IsRegistered
  <2> QED
    BY <1>3, <2>1 DEF PlaceNamed
<1>5. /\ DOMAIN req.cnts = 1 .. Len(req.cnts) /\ Len(req.cnts) \in Nat
      /\ req.dofs \subseteq Dofs
      /\ req.dofs # {} \/ DOMAIN req.cnts # {}
  <2>1. /\ req.cnts \in Seq({q.name : q \in Requests}) /\ req.dofs \subseteq Dofs
        /\ req.dofs # {} \/ req.cnts # <<>>
    BY RequestsAssumption
  <2>2. DOMAIN req.cnts = 1 .. Len(req.cnts) /\ Len(req.cnts) \in Nat
    BY <2>1, LenProperties
  <2>3. req.cnts # <<>> => 1 \in DOMAIN req.cnts
    BY <2>1, <2>2, EmptySeq
  <2> QED
    BY <2>1, <2>2, <2>3
<1>6. used \in Seq(Places)
  <2>1. used \in [1 .. Len(req.cnts) -> Places]
    BY <1>4, <1>5
  <2> QED
    BY <1>5, <2>1, SeqDef
<1>7. entry \in Entries
  BY <1>5, <1>6
<1>8. /\ registry' \in Seq(Entries) /\ Len(registry') = last
      /\ \A k \in 1 .. Len(registry) : registry'[k] = registry[k]
      /\ registry'[last] = entry
  BY <1>1, <1>2, <1>7
<1>9. /\ Places' = Places \cup {new}
      /\ Controllers' = Controllers \cup {last} /\ last \notin Controllers
  BY <1>1, <1>3, <1>8 DEF Places, Controllers
<1>10. \A k \in Controllers : Used(k)' = Used(k)
  BY <1>8 DEF Used, Controllers
<1>11. Used(last)' = req.dofs \cup Range(used)
  BY <1>8 DEF Used
<1>12. Range(used) \subseteq Places \ Dofs
  BY <1>4 DEF Range
<1>13. Used(last)' \subseteq Places /\ Used(last)' # {}
  <2>1. DOMAIN req.cnts # {} => Range(used) # {}
    BY DEF Range
  <2> QED
    BY <1>3, <1>5, <1>11, <1>12, <2>1
<1>14. \A p \in Places : Holds(p)' = Holds(p) /\ dep_resource'[p] = dep_resource[p]
  BY <1>2, <1>3 DEF Holds
<1>15. /\ Holds(new)' = dep_resource'[new]
       /\ dep_resource'[new] = req.dofs \cup UNION {dep_resource[q] : q \in Range(used)}
  BY <1>2, <1>3 DEF Holds
<1>16. req.dofs \cup UNION {dep_resource[q] : q \in Range(used)}
         = UNION {Holds(q) : q \in Used(last)'}
  BY <1>5, <1>11, <1>12 DEF Holds
<1>17. TypeOK'
  <2>1. registry' \in Seq([name : {r.name : r \in Requests},
                           dofs : SUBSET Dofs, cnts : Seq(Places')])
    <3> DEFINE NewEntries == [name : {r.name : r \in Requests},
                              dofs : SUBSET Dofs, cnts : Seq(Places')]
    <3>1. Seq(Places) \subseteq Seq(Places')
      BY <1>9, SeqMonotonic
    <3>2. Entries \subseteq NewEntries
      BY <3>1
    <3>3. registry' \in Seq(NewEntries)
      BY <1>8, <3>2, SeqMonotonic
    <3> QED
      BY <3>3
  <2>2. dep_resource' \in [Places' -> SUBSET Dofs]
    <3>1. \A p \in Places : dep_resource[p] \subseteq Dofs
      BY DEF TypeOK
    <3>2. dep_resource'[new] \subseteq Dofs
      BY <1>5, <1>12, <1>15, <3>1
    <3> QED
      BY <1>2, <1>3, <1>9, <3>1, <3>2
  <2>3. marking' \in [Places' -> Nat]
    BY <1>2, <1>3, <1>9 DEF TypeOK
  <2>4. Transitions \subseteq Transitions'
    BY <1>1, <1>8 DEF Transitions
  <2> QED
    BY <1>2, <1>9, <2>1, <2>2, <2>3, <2>4 DEF TypeOK
<1> QED
  BY <1>3, <1>9, <1>10, <1>13, <1>14, <1>15, <1>16, <1>17

(* The extended net is well formed.                                        *)
LEMMA RegistrationKeepsNet ==
  ASSUME TypeOK, NetOK, NEW req \in Requests, RegisterController(req)
  PROVE  NetOK'
<1>0. PICK new, last : new = NDof + Len(registry) /\ last = Len(registry) + 1
  OBVIOUS
<1>1. /\ TypeOK'
      /\ new \notin Places /\ Places' = Places \cup {new}
      /\ Controllers' = Controllers \cup {last} /\ last \notin Controllers
      /\ Place(last) = new
      /\ \A k \in Controllers : Used(k)' = Used(k)
      /\ Used(last)' \subseteq Places /\ Used(last)' # {}
      /\ \A p \in Places : Holds(p)' = Holds(p)
      /\ Holds(new)' = UNION {Holds(q) : q \in Used(last)'}
      /\ dep_resource'[new] = Holds(new)'
      /\ \A p \in Places : dep_resource'[p] = dep_resource[p]
      /\ new \notin Dofs
  BY <1>0, RegistrationExtendsNet
<1>2. DOMAIN dep_resource' = Places'
  BY <1>1 DEF TypeOK
<1>3. \A k \in Controllers' :
        /\ Used(k)' \subseteq 0 .. Place(k) - 1
        /\ Used(k)' # {}
        /\ dep_resource'[Place(k)] = UNION {Holds(q)' : q \in Used(k)'}
  <2>1. ASSUME NEW k \in Controllers
        PROVE  /\ Used(k)' \subseteq 0 .. Place(k) - 1
               /\ Used(k)' # {}
               /\ dep_resource'[Place(k)] = UNION {Holds(q)' : q \in Used(k)'}
    <3>1. /\ Used(k) \subseteq 0 .. Place(k) - 1 /\ Used(k) # {}
          /\ dep_resource[Place(k)] = UNION {Holds(q) : q \in Used(k)}
      BY DEF NetOK
    <3>2. Place(k) \in Places /\ 0 .. Place(k) - 1 \subseteq Places
      BY NDofAssumption DEF TypeOK, Controllers, Place, Places
    <3>3. \A q \in Used(k) : Holds(q)' = Holds(q)
      BY <1>1, <3>1, <3>2
    <3> QED
      BY <1>1, <3>1, <3>2, <3>3
  <2>2. /\ Used(last)' \subseteq 0 .. Place(last) - 1
        /\ Used(last)' # {}
        /\ dep_resource'[Place(last)] = UNION {Holds(q)' : q \in Used(last)'}
    <3>1. Places = 0 .. Place(last) - 1
      <4>1. Place(last) = NDof + Len(registry)
        BY <1>0, <1>1
      <4> QED
        BY <4>1, RegistryLength, NDofAssumption DEF Places
    <3>2. \A q \in Used(last)' : Holds(q)' = Holds(q)
      BY <1>1
    <3> QED
      BY <1>1, <3>1, <3>2
  <2> QED
    BY <1>1, <2>1, <2>2
<1>4. \A p \in Places' : Holds(p)' # {} /\ Holds(p)' \subseteq Dofs
  <2>1. \A p \in Places : Holds(p) # {} /\ Holds(p) \subseteq Dofs
    BY DEF NetOK
  <2>2. Holds(new)' # {} /\ Holds(new)' \subseteq Dofs
    <3>1. PICK q \in Used(last)' : q \in Places
      BY <1>1
    <3>2. Holds(q) # {} /\ Holds(q) \subseteq Holds(new)'
      BY <1>1, <2>1, <3>1
    <3>3. \A p \in Used(last)' : Holds(p) \subseteq Dofs
      BY <1>1, <2>1
    <3> QED
      BY <1>1, <3>2, <3>3
  <2> QED
    BY <1>1, <2>1, <2>2
<1> QED
  BY <1>2, <1>3, <1>4 DEF NetOK, Place, Dofs

(* A good marking, with the new place unmarked, is good in the new net.    *)
LEMMA RegistrationKeepsGood ==
  ASSUME TypeOK, NetOK, NEW req \in Requests, RegisterController(req),
         NEW new, new = NDof + Len(registry),
         NEW old, GoodMarking(old),
         NEW mk, mk = [p \in 0 .. new |-> IF p = new THEN 0 ELSE old[p]]
  PROVE  GoodMarking(mk)'
<1> PICK last : last = Len(registry) + 1
  OBVIOUS
<1>1. /\ new \notin Places /\ Places' = Places \cup {new}
      /\ Controllers' = Controllers \cup {last} /\ last \notin Controllers
      /\ Place(last) = new
      /\ \A k \in Controllers : Used(k)' = Used(k)
      /\ \A p \in Places : Holds(p)' = Holds(p)
  BY RegistrationExtendsNet
<1>2. 0 .. new = Places'
  <2>1. Len(registry) \in Nat /\ NDof \in Nat
    BY RegistryLength, NDofAssumption
  <2>2. 0 .. new = (0 .. NDof + Len(registry) - 1) \cup {new}
    BY <2>1
  <2> QED
    BY <1>1, <2>2 DEF Places
<1>3. /\ old \in [Places -> {0, 1}]
      /\ mk \in [Places' -> {0, 1}]
      /\ mk[new] = 0 /\ \A p \in Places : mk[p] = old[p]
  BY <1>1, <1>2 DEF GoodMarking
<1>4. ASSUME NEW d \in Dofs
      PROVE  \E p \in Places' : {q \in DOMAIN mk : mk[q] > 0 /\ d \in Holds(q)'} = {p}
  <2>1. PICK p \in Places : Holders(d, old) = {p}
    BY DEF GoodMarking, IsExclusive
  <2>2. {q \in DOMAIN mk : mk[q] > 0 /\ d \in Holds(q)'} = Holders(d, old)
    BY <1>1, <1>3 DEF Holders
  <2> QED
    BY <1>1, <2>1, <2>2
<1>5. \A p \in Places' : mk[p] = 1 => p \in CleanPlaces'
  <2>1. ASSUME NEW S \in SUBSET Places, IsClosed(S)
        PROVE  S \in SUBSET Places' /\ IsClosed(S)'
    <3>1. \A k \in Controllers' : Place(k) \in S => k \in Controllers
      BY <1>1
    <3>2. ASSUME NEW k \in Controllers, Place(k) \in S
          PROVE  Used(k)' \subseteq S /\ DisjointUse(k)'
      <4>1. Used(k) \subseteq S /\ DisjointUse(k) /\ Used(k)' = Used(k)
        BY <1>1, <2>1, <3>2 DEF IsClosed
      <4>2. \A q \in Used(k) : Holds(q)' = Holds(q)
        BY <1>1, <4>1
      <4> QED
        BY <4>1, <4>2 DEF DisjointUse
    <3> QED
      BY <1>1, <3>1, <3>2 DEF IsClosed, Place
  <2>2. CleanPlaces \subseteq CleanPlaces'
    BY <2>1 DEF CleanPlaces
  <2> QED
    BY <1>1, <1>3, <2>2 DEF GoodMarking
<1> QED
  BY <1>3, <1>4, <1>5 DEF GoodMarking, IsExclusive, Holders, Dofs

-----------------------------------------------------------------------------
(* The inductive invariant.                                                *)

LEMMA InitIInv == Init => IInv
<1> SUFFICES ASSUME Init PROVE IInv
  OBVIOUS
<1>1. /\ Len(registry) = 0 /\ registry = <<>> /\ Controllers = {} /\ Places = Dofs
      /\ \A d \in Dofs : Holds(d) = {d}
  BY NDofAssumption DEF Init, Controllers, Places, Dofs, Holds
<1>2. TypeOK
  BY <1>1, EmptySeq DEF Init, TypeOK
<1>3. NetOK
  BY <1>1 DEF Init, NetOK
<1>4. GoodMarking(marking)
  <2>1. marking = [p \in Dofs |-> 1]
    BY DEF Init
  <2>2. \A d \in Dofs : Holders(d, marking) = {d}
    BY <1>1, <2>1 DEF Holders
  <2>3. CleanPlaces = Places
    BY <1>1 DEF CleanPlaces, IsClosed
  <2> QED
    BY <1>1, <2>1, <2>2, <2>3 DEF GoodMarking, IsExclusive
<1> QED
  BY <1>1, <1>2, <1>3, <1>4 DEF Init, IInv

(* The net and the markings it calls good depend on the registry alone.    *)
LEMMA NetUnchanged ==
  ASSUME UNCHANGED net
  PROVE  /\ Places' = Places /\ Controllers' = Controllers
         /\ Transitions' = Transitions
         /\ NetOK' <=> NetOK
         /\ \A mk : GoodMarking(mk)' <=> GoodMarking(mk)
         /\ CleanPlaces' = CleanPlaces
  BY DEF net, Places, Controllers, Transitions, NetOK, Used, Holds, GoodMarking,
         IsExclusive, Holders, CleanPlaces, IsClosed, DisjointUse, Place, Dofs

(* Storing a good marking, with the net unchanged.                         *)
LEMMA StoreGood ==
  ASSUME UNCHANGED net, NEW mk, GoodMarking(mk)
  PROVE  /\ marking' = mk => GoodMarking(marking)'
         /\ m' = mk => GoodMarking(m)'
  BY NetUnchanged DEF GoodMarking, IsExclusive, Holders

(* A good marking has the type of a marking.                               *)
LEMMA GoodMarkingType ==
  ASSUME NEW mk, GoodMarking(mk)
  PROVE  mk \in [Places -> Nat]
  BY DEF GoodMarking

LEMMA RegisterStep ==
  ASSUME IInv, NEW req \in Requests, RegisterController(req)
  PROVE  IInv'
<1> USE DEF IInv
<1>1. PICK new, last : new = NDof + Len(registry) /\ last = Len(registry) + 1
  OBVIOUS
<1>2. TypeOK' /\ NetOK' /\ Places \subseteq Places'
  BY <1>1, RegistrationExtendsNet, RegistrationKeepsNet
<1>3. /\ marking' = [p \in 0 .. new |-> IF p = new THEN 0 ELSE marking[p]]
      /\ m' = marking' /\ pc' = "seed_rgraph" /\ pc = "idle"
      /\ target' = target
      /\ all_markings' = all_markings /\ new_markings' = new_markings
  BY <1>1 DEF RegisterController, rgraph
<1>4. /\ Len(registry') = Len(registry) + 1 /\ Len(registry) \in Nat
  <2>1. Len(registry) \in Nat
    BY RegistryLength
  <2> QED
    BY <2>1 DEF RegisterController, TypeOK
<1>5. \A old, mk : GoodMarking(old)
                   /\ mk = [p \in 0 .. new |-> IF p = new THEN 0 ELSE old[p]]
                   => GoodMarking(mk)'
  BY <1>1, RegistrationKeepsGood
<1>6. GoodMarking(marking)' /\ GoodMarking(m)'
  <2>1. PICK mk : mk = marking' /\ mk = m'
    BY <1>3
  <2>2. GoodMarking(mk)'
    BY <1>3, <1>5, <2>1
  <2> QED
    BY <2>1, <2>2 DEF GoodMarking, IsExclusive, Holders
<1>7. ASSUME NEW mk \in all_markings
      PROVE  GoodMarking(Extend(mk))'
  <2>1. GoodMarking(mk)
    BY <1>3
  <2>2. PICK ext : ext = [p \in 0 .. new |-> IF p = new THEN 0 ELSE mk[p]]
    OBVIOUS
  <2>3. GoodMarking(ext)'
    BY <1>5, <2>1, <2>2
  <2>4. Extend(mk)' = ext
    <3>1. NDof + Len(registry') - 1 = new
      BY <1>1, <1>4, NDofAssumption
    <3> QED
      BY <2>2, <3>1 DEF Extend, Places
  <2> QED
    BY <2>3, <2>4 DEF GoodMarking, IsExclusive, Holders
<1> QED
  BY <1>2, <1>3, <1>4, <1>6, <1>7

LEMMA SeedStep ==
  ASSUME IInv, SeedRGraph
  PROVE  IInv'
<1> DEFINE known == IF all_markings = {} THEN {[p \in Dofs |-> 1]} ELSE all_markings
           extended == {Extend(mk) : mk \in known}
           enable == EnableT(Len(registry))
           fired == {Fire(enable, mk) : mk \in {x \in extended : IsEnabled(enable, x)}}
<1>1. /\ TypeOK /\ NetOK /\ Len(registry) > 0 /\ pc = "seed_rgraph"
      /\ GoodMarking(marking) /\ GoodMarking(m) /\ m = marking
      /\ target \in Places \cup {NoPlace}
  BY DEF IInv, SeedRGraph, TypeOK
<1>2. /\ UNCHANGED net /\ UNCHANGED <<marking, target, firing>>
      /\ all_markings' = extended \cup fired
      /\ new_markings' = fired
      /\ pc' = "expand_rgraph"
  BY DEF SeedRGraph
<1>3. enable \in Transitions
  <2>1. Len(registry) \in Controllers
    BY <1>1, RegistryLength DEF Controllers
  <2> QED
    BY <1>1, <2>1, EnableTransition
<1>4. \A mk \in extended : GoodMarking(mk)
  <2>1. CASE all_markings # {}
    BY <1>1, <2>1 DEF IInv
  <2>2. CASE all_markings = {}
    <3>1. Len(registry) = 1
      BY <1>1, <2>2 DEF IInv
    <3>2. /\ Places = Dofs \cup {NDof} /\ NDof \notin Dofs
          /\ Controllers = {1} /\ Place(1) = NDof
      BY <3>1, NDofAssumption DEF Places, Dofs, Controllers, Place
    <3>3. PICK mk : mk = Extend([p \in Dofs |-> 1])
      OBVIOUS
    <3>4. mk = [p \in Places |-> IF p = NDof THEN 0 ELSE 1]
      <4>1. NDof + Len(registry) - 1 = NDof
        BY <3>1, NDofAssumption
      <4> QED
        BY <3>2, <3>3, <4>1 DEF Extend
    <3>5. \A d \in Dofs : Holders(d, mk) = {d}
      BY <3>2, <3>4 DEF Holders, Holds
    <3>6. \A d \in Dofs : d \in CleanPlaces
      <4>1. Dofs \in SUBSET Places /\ IsClosed(Dofs)
        BY <3>2 DEF IsClosed
      <4> QED
        BY <4>1 DEF CleanPlaces
    <3>7. GoodMarking(mk)
      BY <3>2, <3>4, <3>5, <3>6 DEF GoodMarking, IsExclusive
    <3> QED
      BY <2>2, <3>3, <3>7
  <2> QED
    BY <2>1, <2>2
<1>5. \A mk \in fired : GoodMarking(mk)
  BY <1>1, <1>3, <1>4, FireKeepsGood
<1>6. extended # {}
  OBVIOUS
<1>7. TypeOK'
  <2>1. Places' = Places /\ Transitions' = Transitions
    BY <1>1, <1>2 DEF net, Places, Transitions
  <2> QED
    BY <1>1, <1>2, <2>1 DEF TypeOK, net, firing
<1>8. GoodMarking(marking)' /\ GoodMarking(m)' /\ NetOK'
  <2>1. PICK mk : mk = marking /\ GoodMarking(mk)
    BY <1>1
  <2>2. marking' = mk /\ m' = mk
    BY <1>1, <1>2, <2>1 DEF firing
  <2> QED
    BY <1>1, <1>2, <2>1, <2>2, StoreGood, NetUnchanged
<1>9. \A mk \in all_markings' : GoodMarking(mk)'
  BY <1>2, <1>4, <1>5, NetUnchanged
<1> QED
  BY <1>1, <1>2, <1>6, <1>7, <1>8, <1>9 DEF IInv, firing, net

(* The graph only grows by firing enabled transitions.                     *)
LEMMA ExpandStep ==
  ASSUME IInv, ExpandRGraph
  PROVE  IInv'
<1> DEFINE found == UNION {{Fire(t, mk) : t \in {u \in Transitions : IsEnabled(u, mk)}} :
                             mk \in new_markings}
<1>1. /\ TypeOK /\ NetOK /\ Len(registry) > 0 /\ m = marking
      /\ GoodMarking(marking) /\ target \in Places \cup {NoPlace}
      /\ \A mk \in all_markings : GoodMarking(mk)
      /\ new_markings \subseteq all_markings /\ all_markings # {}
  BY DEF IInv, ExpandRGraph, TypeOK
<1>2. /\ UNCHANGED net /\ UNCHANGED <<marking, target, firing>>
      /\ all_markings' = all_markings \cup found
      /\ new_markings' = found \ all_markings
      /\ pc' \in {"idle", "expand_rgraph"}
  BY DEF ExpandRGraph
<1>3. \A mk \in found : GoodMarking(mk)
  BY <1>1, FireKeepsGood
<1>4. TypeOK'
  <2>1. Places' = Places /\ Transitions' = Transitions
    BY <1>1, <1>2 DEF net, Places, Transitions
  <2> QED
    BY <1>1, <1>2, <2>1 DEF TypeOK, net, firing
<1>5. GoodMarking(marking)' /\ GoodMarking(m)' /\ NetOK'
  <2>1. PICK mk : mk = marking /\ GoodMarking(mk)
    BY <1>1
  <2>2. marking' = mk /\ m' = mk
    BY <1>1, <1>2, <2>1 DEF firing
  <2> QED
    BY <1>1, <1>2, <2>1, <2>2, StoreGood, NetUnchanged
<1>6. \A mk \in all_markings' : GoodMarking(mk)'
  BY <1>1, <1>2, <1>3, NetUnchanged
<1> QED
  BY <1>1, <1>2, <1>4, <1>5, <1>6 DEF IInv, firing, net

(* The part of the invariant about the registry and the graph survives     *)
(* every step that leaves them alone.                                      *)
LEMMA GraphUnchanged ==
  ASSUME IInv, UNCHANGED net, UNCHANGED rgraph,
         pc # "seed_rgraph", pc # "expand_rgraph",
         pc' \notin {"seed_rgraph", "expand_rgraph"}
  PROVE  /\ NetOK'
         /\ \A mk \in all_markings' : GoodMarking(mk)'
         /\ all_markings' = {} => Len(registry') = 0
         /\ new_markings' \subseteq all_markings'
  BY NetUnchanged DEF IInv, net, rgraph

LEMMA ActivateStep ==
  ASSUME IInv, NEW p \in Places, ActivateController(p)
  PROVE  IInv'
<1>1. /\ UNCHANGED net /\ UNCHANGED rgraph /\ UNCHANGED <<marking, firing>>
      /\ pc = "idle" /\ pc' = "search" /\ target' = p
  BY DEF ActivateController
<1>2. TypeOK'
  <2>1. TypeOK /\ Places' = Places /\ Transitions' = Transitions
    BY <1>1, NetUnchanged DEF IInv
  <2> QED
    BY <1>1, <2>1 DEF TypeOK, net, firing
<1>3. GoodMarking(marking)' /\ GoodMarking(m)'
  <2>1. PICK mk : mk = marking /\ GoodMarking(mk)
    BY DEF IInv
  <2>2. marking' = mk /\ m' = mk
    BY <1>1, <2>1 DEF firing, IInv
  <2> QED
    BY <1>1, <2>1, <2>2, StoreGood
<1>4. target' \in Places' /\ m' = marking'
  BY <1>1, NetUnchanged DEF IInv, firing
<1> QED
  BY <1>1, <1>2, <1>3, <1>4, GraphUnchanged DEF IInv

LEMMA AlreadyMarkedStep ==
  ASSUME IInv, AlreadyMarked
  PROVE  IInv'
<1>1. /\ UNCHANGED net /\ UNCHANGED rgraph /\ UNCHANGED <<marking, firing, target>>
      /\ pc = "search" /\ pc' = "idle"
  BY DEF AlreadyMarked
<1>2. TypeOK'
  <2>1. TypeOK /\ Places' = Places /\ Transitions' = Transitions
    BY <1>1, NetUnchanged DEF IInv
  <2> QED
    BY <1>1, <2>1 DEF TypeOK, net, firing
<1>3. GoodMarking(marking)' /\ GoodMarking(m)'
  <2>1. PICK mk : mk = marking /\ GoodMarking(mk)
    BY DEF IInv
  <2>2. marking' = mk /\ m' = mk
    BY <1>1, <2>1 DEF firing, IInv
  <2> QED
    BY <1>1, <2>1, <2>2, StoreGood
<1>4. m' = marking'
  BY <1>1 DEF IInv, firing
<1> QED
  BY <1>1, <1>2, <1>3, <1>4, GraphUnchanged DEF IInv

(* The search only proposes transitions of the net.                        *)
LEMMA FiringSetType ==
  ASSUME TypeOK, NEW v, NEW mk, NEW fs, fs = FiringSet(v, mk)
  PROVE  fs \subseteq Transitions /\ Cardinality(fs) \in Nat
<1>1. fs \subseteq Transitions
  BY DEF FiringSet, PathTransitions
<1>2. IsFiniteSet(Transitions)
  <2>1. 0 \in Int /\ 2 * Len(registry) - 1 \in Int
    BY RegistryLength
  <2> QED
    BY <2>1, FS_Interval DEF Transitions
<1> QED
  BY <1>1, <1>2, FS_Subset, FS_CardinalityType

LEMMA SearchStep ==
  ASSUME IInv, Search
  PROVE  IInv'
<1>1. PICK fs \in {FiringSet(target, marking)} :
        /\ pc = "search" /\ pc' = IF fs = {} THEN "idle" ELSE "fire"
        /\ m' = marking /\ firing_seq' = fs /\ pass' = fs /\ rem' = {}
        /\ count' = 0 /\ maxcount' = Cardinality(fs) + 1
        /\ UNCHANGED <<net, marking, target, rgraph>>
  BY DEF Search
<1>2. fs \subseteq Transitions /\ Cardinality(fs) \in Nat
  BY FiringSetType DEF IInv
<1>3. TypeOK'
  <2>1. TypeOK /\ Places' = Places /\ Transitions' = Transitions
    BY <1>1, NetUnchanged DEF IInv
  <2> QED
    BY <1>1, <1>2, <2>1 DEF TypeOK, net
<1>4. GoodMarking(marking)' /\ GoodMarking(m)'
  <2>1. PICK mk : mk = marking /\ GoodMarking(mk)
    BY DEF IInv
  <2> QED
    BY <1>1, <2>1, StoreGood
<1>5. target' \in Places'
  BY <1>1, NetUnchanged DEF IInv
<1> QED
  BY <1>1, <1>3, <1>4, <1>5, GraphUnchanged DEF IInv

(* A firing of the loop keeps the working marking good.                    *)
LEMMA FireNextStep ==
  ASSUME IInv, FireNext
  PROVE  IInv'
<1>1. PICK t \in pass :
        /\ pc = "fire" /\ pc' = pc
        /\ IsEnabled(t, m) /\ m' = Fire(t, m)
        /\ rem' = rem \cup {t} /\ pass' = pass \ {t}
        /\ UNCHANGED <<net, marking, target, firing_seq, count, maxcount, rgraph>>
  BY DEF FireNext
<1>2. PICK old : old = m /\ GoodMarking(old)
  BY DEF IInv
<1>3. PICK new : new = Fire(t, old)
  OBVIOUS
<1>4. t \in Transitions /\ GoodMarking(new)
  BY <1>1, <1>2, <1>3, FireKeepsGood DEF IInv, TypeOK
<1>5. GoodMarking(m)'
  BY <1>1, <1>2, <1>3, <1>4, StoreGood
<1>6. GoodMarking(marking)'
  <2>1. PICK mk : mk = marking /\ GoodMarking(mk)
    BY DEF IInv
  <2> QED
    BY <1>1, <2>1, StoreGood
<1>7. m' \in [Places -> Nat]
  BY <1>1, <1>2, <1>3, <1>4, GoodMarkingType
<1>8. TypeOK'
  <2>1. TypeOK /\ Places' = Places /\ Transitions' = Transitions
    BY <1>1, NetUnchanged DEF IInv
  <2> QED
    BY <1>1, <1>4, <1>7, <2>1 DEF TypeOK, net
<1>9. target' \in Places'
  BY <1>1, NetUnchanged DEF IInv
<1> QED
  BY <1>1, <1>5, <1>6, <1>8, <1>9, GraphUnchanged DEF IInv

LEMMA SkipNextStep ==
  ASSUME IInv, SkipNext
  PROVE  IInv'
<1>1. PICK t \in pass :
        /\ pc = "fire" /\ pc' = pc
        /\ count' = count + 1 /\ pass' = pass \ {t}
        /\ UNCHANGED <<net, marking, target, m, firing_seq, rem, maxcount, rgraph>>
  BY DEF SkipNext
<1>2. GoodMarking(marking)' /\ GoodMarking(m)'
  <2>1. PICK mk : mk = marking /\ GoodMarking(mk)
    BY DEF IInv
  <2>2. PICK mm : mm = m /\ GoodMarking(mm)
    BY DEF IInv
  <2> QED
    BY <1>1, <2>1, <2>2, StoreGood
<1>3. TypeOK'
  <2>1. TypeOK /\ Places' = Places /\ Transitions' = Transitions
    BY <1>1, NetUnchanged DEF IInv
  <2> QED
    BY <1>1, <2>1 DEF TypeOK, net
<1>4. target' \in Places'
  BY <1>1, NetUnchanged DEF IInv
<1> QED
  BY <1>1, <1>2, <1>3, <1>4, GraphUnchanged DEF IInv

(* The end of a pass may commit the working marking.                       *)
LEMMA EndPassStep ==
  ASSUME IInv, EndPass
  PROVE  IInv'
<1>1. /\ pc = "fire" /\ pc' \in {"fire", "search", "idle"}
      /\ UNCHANGED <<net, target, m, rgraph>>
      /\ \/ marking' = m
         \/ marking' = marking /\ pc' = "fire"
      /\ firing_seq' \subseteq firing_seq /\ pass' \subseteq firing_seq
      /\ rem' = {} /\ count' \in {0, count} /\ maxcount' \in {0, maxcount}
  BY DEF EndPass
<1>2. GoodMarking(marking)' /\ GoodMarking(m)'
  <2>1. PICK mk : mk = marking /\ GoodMarking(mk)
    BY DEF IInv
  <2>2. PICK mm : mm = m /\ GoodMarking(mm)
    BY DEF IInv
  <2> QED
    BY <1>1, <2>1, <2>2, StoreGood
<1>3. TypeOK'
  <2>1. TypeOK /\ Places' = Places /\ Transitions' = Transitions
    BY <1>1, NetUnchanged DEF IInv
  <2> QED
    BY <1>1, <2>1 DEF TypeOK, net
<1>4. target' \in Places'
  BY <1>1, NetUnchanged DEF IInv
<1> QED
  BY <1>1, <1>2, <1>3, <1>4, GraphUnchanged DEF IInv

(* A step that changes nothing.                                            *)
LEMMA StutterStep ==
  ASSUME IInv, UNCHANGED vars
  PROVE  IInv'
<1>1. /\ UNCHANGED net /\ UNCHANGED <<dep_resource, marking, pc, target, firing, rgraph>>
      /\ UNCHANGED registry
  BY DEF vars, net, firing, rgraph
<1>2. TypeOK'
  <2>1. TypeOK /\ Places' = Places /\ Transitions' = Transitions
    BY <1>1, NetUnchanged DEF IInv
  <2> QED
    BY <1>1, <2>1 DEF TypeOK, net, firing
<1>3. GoodMarking(marking)' /\ GoodMarking(m)'
  <2>1. PICK mk : mk = marking /\ GoodMarking(mk)
    BY DEF IInv
  <2>2. PICK mm : mm = m /\ GoodMarking(mm)
    BY DEF IInv
  <2> QED
    BY <1>1, <2>1, <2>2, StoreGood DEF firing
<1>4. NetOK'
  BY <1>1, NetUnchanged DEF IInv
<1>5. pc' \in {"search", "fire"} => target' \in Places'
  BY <1>1, NetUnchanged DEF IInv
<1>6. pc' # "seed_rgraph" => \A mk \in all_markings' : GoodMarking(mk)'
  BY <1>1, NetUnchanged DEF IInv, rgraph
<1>7. pc' = "seed_rgraph" => \A mk \in all_markings' : GoodMarking(Extend(mk))'
  <2> SUFFICES ASSUME pc' = "seed_rgraph", NEW mk \in all_markings'
               PROVE  GoodMarking(Extend(mk))'
    OBVIOUS
  <2>1. PICK ext : ext = Extend(mk) /\ GoodMarking(ext)
    BY <1>1 DEF IInv, rgraph
  <2>2. Extend(mk)' = ext
    BY <1>1, <2>1, NetUnchanged DEF Extend
  <2>3. GoodMarking(ext)'
    BY <1>1, <2>1, NetUnchanged
  <2> QED
    BY <2>2, <2>3, NetUnchanged DEF GoodMarking, IsExclusive, Holders
<1> QED
  BY <1>1, <1>2, <1>3, <1>4, <1>5, <1>6, <1>7 DEF IInv, firing, rgraph

-----------------------------------------------------------------------------
(* The theorems.                                                           *)

(* Every step of the node keeps the inductive invariant.                   *)
LEMMA NextKeepsIInv == IInv /\ [Next]_vars => IInv'
<1> SUFFICES ASSUME IInv, [Next]_vars PROVE IInv'
  OBVIOUS
<1>1. CASE \E req \in Requests : RegisterController(req)
  BY <1>1, RegisterStep
<1>2. CASE \E p \in Places : ActivateController(p)
  BY <1>2, ActivateStep
<1>3. CASE SeedRGraph
  BY <1>3, SeedStep
<1>4. CASE ExpandRGraph
  BY <1>4, ExpandStep
<1>5. CASE AlreadyMarked
  BY <1>5, AlreadyMarkedStep
<1>6. CASE Search
  BY <1>6, SearchStep
<1>7. CASE FireNext
  BY <1>7, FireNextStep
<1>8. CASE SkipNext
  BY <1>8, SkipNextStep
<1>9. CASE EndPass
  BY <1>9, EndPassStep
<1>10. CASE UNCHANGED vars
  BY <1>10, StutterStep
<1> QED
  BY <1>1, <1>2, <1>3, <1>4, <1>5, <1>6, <1>7, <1>8, <1>9, <1>10 DEF Next, Callback

(* The inductive invariant holds in every reachable state.                 *)
THEOREM InductiveInvariant == Spec => []IInv
<1>1. Init => IInv
  BY InitIInv
<1>2. IInv /\ [Next]_vars => IInv'
  BY NextKeepsIInv
<1> QED
  BY <1>1, <1>2, PTL DEF Spec

(* The state of the controller has its types.                              *)
THEOREM TypeCorrect == Spec => []TypeOK
<1>1. IInv => TypeOK
  BY DEF IInv
<1> QED
  BY <1>1, InductiveInvariant, PTL

(* For any DOFs and any registrations, in the marking and between the      *)
(* firings of an activation, each DOF has exactly one holder.              *)
THEOREM Exclusive == Spec => []ExclusiveOwnership
<1>1. IInv => ExclusiveOwnership
  <2> SUFFICES ASSUME IInv, NEW mk \in {marking, m}
               PROVE  IsSafe(mk) /\ IsExclusive(mk)
    BY DEF ExclusiveOwnership
  <2>1. GoodMarking(mk)
    BY DEF IInv
  <2> QED
    BY <2>1 DEF GoodMarking, IsSafe
<1> QED
  BY <1>1, InductiveInvariant, PTL

(* The test of get_firing_pn and addToRGraph is the firing rule of a Petri *)
(* net in every marking they look at.                                      *)
THEOREM FiringRuleHolds == Spec => []FiringRule
<1>1. IInv => FiringRule
  <2> SUFFICES ASSUME IInv, pc # "seed_rgraph",
                      NEW mk \in {marking, m} \cup all_markings, NEW t \in Transitions
               PROVE  IsEnabled(t, mk) <=> \A p \in Inputs(t) : mk[p] > 0
    BY DEF FiringRule
  <2>1. TypeOK /\ NetOK /\ GoodMarking(mk)
    BY DEF IInv
  <2>2. mk \in [Places -> {0, 1}]
    BY <2>1 DEF GoodMarking
  <2>3. IsEnabled(t, mk) <=> \A p \in Inputs(t) : mk[p] = 1
    BY <2>1, <2>2, EnabledIffMarked
  <2>4. \A p \in Inputs(t) : mk[p] \in {0, 1}
    BY <2>1, <2>2, InputsOutputs
  <2> QED
    BY <2>3, <2>4
<1> QED
  BY <1>1, InductiveInvariant, PTL
-----------------------------------------------------------------------------
(* The reachability graph.  addToRGraph only follows the new controller's  *)
(* enabling transition out of the markings it already knows; the graph is  *)
(* complete all the same, because the old markings, with the new place     *)
(* empty, are closed under the old transitions.                            *)

NewTransitions == {EnableT(Len(registry)), DisableT(Len(registry))}
IsClosedUnder(S, T) == \A mk \in S, t \in T : IsEnabled(t, mk) => Fire(t, mk) \in S

Known == IF all_markings = {} THEN {[p \in Dofs |-> 1]} ELSE all_markings
Extended == {Extend(mk) : mk \in Known}

(* What the graph covers while it is rebuilt: before the loop of           *)
(* addToRGraph the old net, in the loop every marking that is not queued,  *)
(* afterwards the whole net.                                               *)
GraphInv ==
  /\ registry = <<>> => all_markings = {} /\ marking = [p \in Dofs |-> 1] /\ m = marking
  /\ pc = "seed_rgraph" =>
       marking \in Extended /\ IsClosedUnder(Extended, Transitions \ NewTransitions)
  /\ pc = "expand_rgraph" =>
       /\ marking \in all_markings
       /\ \A mk \in all_markings \ new_markings, t \in Transitions :
            IsEnabled(t, mk) => Fire(t, mk) \in all_markings
  /\ (pc \notin {"seed_rgraph", "expand_rgraph"} /\ registry # <<>>) =>
       /\ marking \in all_markings /\ m \in all_markings
       /\ IsClosedUnder(all_markings, Transitions)

(* The token game depends on the registry alone.                           *)
LEMMA GameUnchanged ==
  ASSUME UNCHANGED net
  PROVE  /\ Transitions' = Transitions
         /\ \A t, mk : IsEnabled(t, mk)' <=> IsEnabled(t, mk)
         /\ \A t, mk : Fire(t, mk)' = Fire(t, mk)
         /\ \A S, T : IsClosedUnder(S, T)' <=> IsClosedUnder(S, T)
<1>1. registry' = registry
  BY DEF net
<1>2. Transitions' = Transitions
  BY <1>1 DEF Transitions
<1>3. \A t, mk : IsEnabled(t, mk)' <=> IsEnabled(t, mk)
  BY <1>1 DEF IsEnabled, TokensOn, Inputs, Used, ControllerOf, Place, IsEnable
<1>4. \A t, mk : Fire(t, mk)' = Fire(t, mk)
  BY <1>1 DEF Fire, Places, Weight, Inputs, Outputs, Used, ControllerOf, Place, IsEnable
<1>5. \A S, T : IsClosedUnder(S, T)' <=> IsClosedUnder(S, T)
  BY <1>3, <1>4 DEF IsClosedUnder
<1> QED
  BY <1>2, <1>3, <1>4, <1>5

(* An old transition does in the extended net, to an extended marking,     *)
(* what it did in the old one.                                             *)
LEMMA OldGame ==
  ASSUME TypeOK, NetOK, NEW req \in Requests, RegisterController(req),
         NEW new, new = NDof + Len(registry),
         NEW mk, GoodMarking(mk), NEW t \in Transitions,
         NEW ext, ext = [p \in 0 .. new |-> IF p = new THEN 0 ELSE mk[p]],
         NEW fired, fired = Fire(t, mk)
  PROVE  /\ Extend(mk)' = ext
         /\ IsEnabled(t, ext)' => IsEnabled(t, mk)
         /\ Fire(t, ext)' = Extend(fired)'
<1> PICK last : last = Len(registry) + 1
  OBVIOUS
<1>1. /\ new \notin Places /\ Places' = Places \cup {new}
      /\ \A k \in Controllers : Used(k)' = Used(k)
  BY RegistrationExtendsNet
<1>2. /\ Len(registry) \in Nat /\ NDof \in Nat
      /\ NDof + Len(registry') - 1 = new
      /\ 0 .. new = Places'
  <2>1. Len(registry) \in Nat /\ NDof \in Nat
    BY RegistryLength, NDofAssumption
  <2>2. Len(registry') = Len(registry) + 1
    BY <2>1 DEF RegisterController, TypeOK
  <2> QED
    BY <2>1, <2>2 DEF Places
<1>3. ControllerOf(t) \in Controllers /\ Inputs(t)' = Inputs(t) /\ Outputs(t)' = Outputs(t)
  <2>1. ControllerOf(t) \in Controllers
    BY TransitionKind
  <2> QED
    BY <1>1, <2>1 DEF Inputs, Outputs, ControllerOf, Place, IsEnable
<1>4. Inputs(t) \subseteq Places /\ Outputs(t) \subseteq Places
  BY InputsOutputs
<1>5. Extend(mk)' = ext
  BY <1>2 DEF Extend
<1>6. IsEnabled(t, ext)' => IsEnabled(t, mk)
  <2>1. \A p \in Inputs(t) : ext[p] = mk[p]
    BY <1>1, <1>2, <1>4
  <2>2. TokensOn(Inputs(t), ext) = TokensOn(Inputs(t), mk)
    BY <2>1 DEF TokensOn
  <2> QED
    BY <1>3, <2>2 DEF IsEnabled, TokensOn
<1>7. Fire(t, ext)' = Extend(fired)'
  <2>2. fired = [p \in Places |-> mk[p] + Weight(p, Outputs(t)) - Weight(p, Inputs(t))]
    BY DEF Fire
  <2> DEFINE after(p) == ext[p] + Weight(p, Outputs(t)) - Weight(p, Inputs(t))
             kept(p) == IF p = new THEN 0 ELSE fired[p]
  <2>3. Extend(fired)' = [p \in Places' |-> kept(p)]
    BY <1>2 DEF Extend
  <2>4. Fire(t, ext)' = [p \in Places' |-> after(p)]
    BY <1>3 DEF Fire, Weight
  <2>5. ASSUME NEW p \in Places'
        PROVE  after(p) = kept(p)
    <3>1. CASE p = new
      <4>1. p \notin Inputs(t) /\ p \notin Outputs(t) /\ ext[p] = 0
        BY <1>1, <1>2, <1>4, <3>1
      <4> QED
        BY <3>1, <4>1 DEF Weight
    <3>2. CASE p # new
      BY <1>1, <1>2, <2>2, <3>2
    <3> QED
      BY <3>1, <3>2
  <2> HIDE DEF after, kept
  <2> QED
    BY <2>3, <2>4, <2>5
<1> QED
  BY <1>5, <1>6, <1>7

(* A registration leaves the old markings closed under the old transitions.*)
LEMMA RegisterGraph ==
  ASSUME IInv, GraphInv, NEW req \in Requests, RegisterController(req)
  PROVE  GraphInv'
<1>1. PICK new, last : new = NDof + Len(registry) /\ last = Len(registry) + 1
  OBVIOUS
<1>2. /\ TypeOK /\ NetOK /\ pc = "idle" /\ m = marking
      /\ Len(registry) \in Nat /\ NDof \in Nat \ {0}
      /\ \A mk \in all_markings : GoodMarking(mk)
  BY RegistryLength, NDofAssumption DEF IInv, RegisterController
<1>3. /\ marking' = [p \in 0 .. new |-> IF p = new THEN 0 ELSE marking[p]]
      /\ pc' = "seed_rgraph" /\ all_markings' = all_markings
      /\ Len(registry') = last
  BY <1>1, <1>2 DEF RegisterController, rgraph, TypeOK
<1>4. Known' = Known
  BY <1>3 DEF Known, Dofs
<1>5. \A mk : Extend(mk)' = [p \in 0 .. new |-> IF p = new THEN 0 ELSE mk[p]]
  <2>1. NDof + Len(registry') - 1 = new
    BY <1>1, <1>2, <1>3
  <2>2. Places' = 0 .. new
    BY <2>1 DEF Places
  <2> QED
    BY <2>1, <2>2 DEF Extend
<1>6. marking \in Known
  <2>1. CASE registry = <<>>
    BY <2>1 DEF GraphInv, Known
  <2>2. CASE registry # <<>>
    BY <1>2, <2>2 DEF GraphInv, Known
  <2> QED
    BY <2>1, <2>2
<1>7. marking' \in Extended'
  <2>1. PICK mk : mk = marking
    OBVIOUS
  <2>2. marking' = Extend(mk)'
    BY <1>3, <1>5, <2>1
  <2> QED
    BY <1>4, <1>6, <2>1, <2>2 DEF Extended
<1>8. IsClosedUnder(Extended, Transitions \ NewTransitions)'
  <2>1. (Transitions \ NewTransitions)' = Transitions
    BY <1>1, <1>2, <1>3 DEF Transitions, NewTransitions, EnableT, DisableT
  <2> SUFFICES ASSUME NEW ext \in Extended', NEW t \in Transitions, IsEnabled(t, ext)'
               PROVE  Fire(t, ext)' \in Extended'
    BY <2>1 DEF IsClosedUnder
  <2>2. registry # <<>>
    BY <1>2 DEF Transitions
  <2>3. all_markings # {}
    BY <1>2, <2>2, EmptySeq DEF IInv, TypeOK
  <2>4. PICK mk \in Known : ext = Extend(mk)'
    BY <1>4 DEF Extended
  <2>5. mk \in all_markings /\ GoodMarking(mk)
    BY <1>2, <2>3, <2>4 DEF Known
  <2>6. PICK fired : fired = Fire(t, mk)
    OBVIOUS
  <2>7. IsEnabled(t, mk) /\ Fire(t, ext)' = Extend(fired)'
    BY <1>1, <1>2, <1>5, <2>4, <2>5, <2>6, OldGame
  <2>8. fired \in all_markings
    BY <1>2, <2>2, <2>5, <2>6, <2>7 DEF GraphInv, IsClosedUnder
  <2> QED
    BY <1>4, <2>3, <2>7, <2>8 DEF Known, Extended
<1>9. registry' # <<>>
  BY <1>1, <1>2, <1>3
<1> QED
  BY <1>3, <1>7, <1>8, <1>9 DEF GraphInv

(* The new place is empty in the extended markings, so only the new        *)
(* enabling transition leads out of them.                                  *)
LEMMA SeedGraph ==
  ASSUME IInv, GraphInv, SeedRGraph
  PROVE  GraphInv'
<1> DEFINE enable == EnableT(Len(registry))
           disable == DisableT(Len(registry))
           fired == {Fire(enable, mk) : mk \in {x \in Extended : IsEnabled(enable, x)}}
<1>1. /\ TypeOK /\ NetOK /\ Len(registry) \in Nat \ {0} /\ NDof \in Nat \ {0}
      /\ pc = "seed_rgraph"
  BY RegistryLength, NDofAssumption DEF IInv, SeedRGraph
<1>2. /\ UNCHANGED net /\ marking' = marking
      /\ all_markings' = Extended \cup fired
      /\ new_markings' = fired
      /\ pc' = "expand_rgraph"
  BY DEF SeedRGraph, Extended, Known
<1>3. ASSUME NEW mk \in Extended, NEW t \in Transitions, IsEnabled(t, mk)
      PROVE  Fire(t, mk) \in all_markings'
  <2>1. CASE t \notin NewTransitions
    BY <1>1, <1>2, <1>3, <2>1 DEF GraphInv, IsClosedUnder
  <2>2. CASE t = enable
    BY <1>2, <1>3, <2>2
  <2>3. CASE t = disable
    <3>1. PICK p : p = NDof + Len(registry) - 1
      OBVIOUS
    <3>2. Inputs(t) = {p} /\ p \in Places
      BY <1>1, <2>3, <3>1
         DEF Inputs, DisableT, IsEnable, ControllerOf, Place, Places
    <3>3. mk[p] = 0
      BY <3>1, <3>2 DEF Extended, Extend
    <3>4. TokensOn(Inputs(t), mk) = {}
      BY <3>2, <3>3 DEF TokensOn
    <3>5. Cardinality(TokensOn(Inputs(t), mk)) = 0 /\ Cardinality(Inputs(t)) = 1
      BY <3>2, <3>4, FS_EmptySet, FS_Singleton
    <3>6. ~IsEnabled(t, mk)
      BY <3>5 DEF IsEnabled
    <3> QED
      BY <1>3, <3>6
  <2> QED
    BY <2>1, <2>2, <2>3 DEF NewTransitions
<1>4. \A mk \in all_markings' \ new_markings', t \in Transitions' :
        IsEnabled(t, mk)' => Fire(t, mk)' \in all_markings'
  BY <1>2, <1>3, GameUnchanged
<1>5. marking' \in all_markings'
  BY <1>1, <1>2 DEF GraphInv
<1>6. registry' # <<>>
  BY <1>1, <1>2 DEF net
<1> QED
  BY <1>2, <1>4, <1>5, <1>6 DEF GraphInv

(* A round of the loop follows every transition out of the queued markings.*)
LEMMA ExpandGraph ==
  ASSUME IInv, GraphInv, ExpandRGraph
  PROVE  GraphInv'
<1> DEFINE found == UNION {{Fire(t, mk) : t \in {u \in Transitions : IsEnabled(u, mk)}} :
                             mk \in new_markings}
<1>1. /\ pc = "expand_rgraph" /\ m = marking /\ marking \in all_markings
      /\ Len(registry) > 0
  BY DEF IInv, ExpandRGraph, GraphInv
<1>2. /\ UNCHANGED net /\ marking' = marking /\ m' = m
      /\ all_markings' = all_markings \cup found
      /\ new_markings' = found \ all_markings
      /\ pc' = IF new_markings = {} THEN "idle" ELSE "expand_rgraph"
  BY <1>1 DEF ExpandRGraph, firing
<1>3. \A mk \in all_markings, t \in Transitions :
        IsEnabled(t, mk) => Fire(t, mk) \in all_markings'
  BY <1>1, <1>2 DEF GraphInv
<1>4. \A mk \in all_markings, t \in Transitions' :
        IsEnabled(t, mk)' => Fire(t, mk)' \in all_markings'
  BY <1>2, <1>3, GameUnchanged
<1>5. pc' = "idle" => all_markings' = all_markings
  BY <1>2
<1>6. \A mk \in all_markings' \ new_markings' : mk \in all_markings
  BY <1>2
<1>7. registry' # <<>>
  BY <1>1, <1>2 DEF net
<1>8. pc' = "idle" => IsClosedUnder(all_markings, Transitions)'
  BY <1>4, <1>5 DEF IsClosedUnder
<1> QED
  BY <1>1, <1>2, <1>4, <1>6, <1>7, <1>8 DEF GraphInv

(* The firings of an activation walk along edges of the graph.             *)
LEMMA WalkGraph ==
  ASSUME IInv, GraphInv, UNCHANGED net, UNCHANGED rgraph,
         pc \notin {"seed_rgraph", "expand_rgraph"},
         pc' \notin {"seed_rgraph", "expand_rgraph"},
         marking' \in {marking, m},
         m' \in {marking, m} \cup {Fire(t, m) : t \in {u \in Transitions : IsEnabled(u, m)}}
  PROVE  GraphInv'
<1>1. all_markings' = all_markings /\ registry' = registry
  BY DEF net, rgraph
<1>2. CASE registry = <<>>
  <2>1. Transitions = {}
    BY <1>2 DEF Transitions
  <2> QED
    BY <1>1, <1>2, <2>1 DEF GraphInv, Dofs
<1>3. CASE registry # <<>>
  <2>1. marking \in all_markings /\ m \in all_markings /\ IsClosedUnder(all_markings, Transitions)
    BY <1>3 DEF GraphInv
  <2>2. marking' \in all_markings /\ m' \in all_markings
    BY <2>1 DEF IsClosedUnder
  <2>3. PICK S : S = all_markings
    OBVIOUS
  <2>4. IsClosedUnder(S, Transitions)'
    BY <2>1, <2>3, GameUnchanged
  <2>5. IsClosedUnder(all_markings, Transitions)'
    BY <1>1, <2>3, <2>4 DEF IsClosedUnder
  <2> QED
    BY <1>1, <1>3, <2>2, <2>5 DEF GraphInv
<1> QED
  BY <1>2, <1>3

LEMMA NextKeepsGraphInv == IInv /\ GraphInv /\ [Next]_vars => GraphInv'
<1> SUFFICES ASSUME IInv, GraphInv, [Next]_vars PROVE GraphInv'
  OBVIOUS
<1>1. CASE \E req \in Requests : RegisterController(req)
  BY <1>1, RegisterGraph
<1>2. CASE \E p \in Places : ActivateController(p)
  BY <1>2, WalkGraph DEF ActivateController, firing
<1>3. CASE SeedRGraph
  BY <1>3, SeedGraph
<1>4. CASE ExpandRGraph
  BY <1>4, ExpandGraph
<1>5. CASE AlreadyMarked
  BY <1>5, WalkGraph DEF AlreadyMarked, firing
<1>6. CASE Search
  BY <1>6, WalkGraph DEF Search
<1>7. CASE FireNext
  BY <1>7, WalkGraph DEF FireNext, IInv, TypeOK
<1>8. CASE SkipNext
  BY <1>8, WalkGraph DEF SkipNext
<1>9. CASE EndPass
  BY <1>9, WalkGraph DEF EndPass
<1>10. CASE UNCHANGED vars
  <2>1. /\ UNCHANGED net /\ UNCHANGED rgraph
        /\ pc' = pc /\ marking' = marking /\ m' = m /\ registry' = registry
        /\ all_markings' = all_markings /\ new_markings' = new_markings
    BY <1>10 DEF vars, net, rgraph
  <2>2. Extended' = Extended /\ NewTransitions' = NewTransitions /\ Transitions' = Transitions
    BY <2>1 DEF Extended, Known, Extend, Places, Dofs, NewTransitions, EnableT, DisableT, Transitions
  <2>3. \A S, T : IsClosedUnder(S, T)' <=> IsClosedUnder(S, T)
    BY <2>1, GameUnchanged
  <2> QED
    BY <2>1, <2>2, <2>3, GameUnchanged DEF GraphInv, IsClosedUnder, Dofs
<1> QED
  BY <1>1, <1>2, <1>3, <1>4, <1>5, <1>6, <1>7, <1>8, <1>9, <1>10 DEF Next, Callback

(* After each registration, whatever was registered before, the graph has  *)
(* the current marking and every marking the net can reach from it.        *)
THEOREM GraphComplete == Spec => []RGraphComplete
<1>1. Init => GraphInv
  BY DEF Init, GraphInv
<1>2. IInv /\ GraphInv /\ [Next]_vars => GraphInv'
  BY NextKeepsGraphInv
<1>3. GraphInv => RGraphComplete
  BY DEF GraphInv, RGraphComplete, IsClosedUnder
<1> QED
  BY <1>1, <1>2, <1>3, InductiveInvariant, PTL DEF Spec

-----------------------------------------------------------------------------
(* Induction over the naturals, for a set of numbers.                      *)

LEMMA LeastNumber ==
  ASSUME NEW T \in SUBSET Nat, T # {}
  PROVE  \E n \in T : \A k \in T : n <= k
<1> DEFINE Below == {x \in Nat \X Nat : x[1] < x[2]}
<1>1. OpToRel(<, Nat) = Below
  BY DEF OpToRel
<1>2. IsWellFoundedOn(Below, Nat)
  BY <1>1, NatLessThanWellFounded
<1>3. PICK n \in T : \A k \in T : <<k, n>> \notin Below
  BY <1>2, WFMin
<1>4. \A k \in T : k \in Nat /\ n \in Nat /\ ~(k < n)
  BY <1>3
<1>5. \A k \in T : n <= k
  BY <1>4
<1> QED
  BY <1>5

LEMMA Induction ==
  ASSUME NEW S, 0 \in S, \A n \in Nat : n \in S => n + 1 \in S
  PROVE  Nat \subseteq S
<1> DEFINE T == Nat \ S
<1> SUFFICES ASSUME T # {} PROVE FALSE
  OBVIOUS
<1>1. PICK n \in T : \A k \in T : n <= k
  BY LeastNumber
<1>2. n # 0 /\ n - 1 \in Nat /\ n - 1 \notin T
  BY <1>1
<1>3. n - 1 + 1 = n
  BY <1>1
<1> QED
  BY <1>1, <1>2, <1>3

-----------------------------------------------------------------------------
(* The search of get_firing_pn.                                            *)

(* Filtering a sequence leaves elements of it that are in the set.         *)
LEMMA FilterType ==
  ASSUME NEW R, NEW s \in Seq(R), NEW S
  PROVE  Filter(s, S) \in Seq(R \cap S)
<1> DEFINE Kept == Seq(R \cap S)
           Next1(old, x) == IF x \in S THEN Append(old, x) ELSE old
           Filters(f, n) ==
             /\ f \in [0 .. n -> Kept]
             /\ f[0] = <<>>
             /\ \A i \in 1 .. n : f[i] = Next1(f[i - 1], s[i])
<1>1. Len(s) \in Nat /\ \A i \in 1 .. Len(s) : s[i] \in R
  OBVIOUS
<1>2. \A old \in Kept, x \in R : Next1(old, x) \in Kept
  OBVIOUS
<1> HIDE DEF Next1, Kept
<1>3. \E f : Filters(f, Len(s))
  <2> DEFINE T == {n \in Nat : n <= Len(s) => \E f : Filters(f, n)}
  <2>1. 0 \in T
    <3>1. <<>> \in Kept
      BY DEF Kept
    <3>2. Filters([i \in 0 .. 0 |-> <<>>], 0)
      BY <3>1
    <3> QED
      BY <3>2
  <2>2. ASSUME NEW n \in Nat, n \in T
        PROVE  n + 1 \in T
    <3> SUFFICES ASSUME n + 1 <= Len(s)
                 PROVE  \E f : Filters(f, n + 1)
      OBVIOUS
    <3>1. PICK f : Filters(f, n)
      BY <2>2, <1>1
    <3> DEFINE last == Next1(f[n], s[n + 1])
               g == [i \in 0 .. n + 1 |-> IF i = n + 1 THEN last ELSE f[i]]
    <3>2. last \in Kept
      BY <1>1, <1>2, <3>1
    <3>3. g \in [0 .. n + 1 -> Kept] /\ g[0] = <<>>
      BY <3>1, <3>2
    <3>4. ASSUME NEW i \in 1 .. n + 1
          PROVE  g[i] = Next1(g[i - 1], s[i])
      <4>1. g[i - 1] = f[i - 1]
        OBVIOUS
      <4>2. CASE i = n + 1
        <5>1. i - 1 = n /\ g[i] = last
          BY <4>2
        <5> QED
          BY <4>1, <4>2, <5>1
      <4>3. CASE i # n + 1
        BY <3>1, <4>1, <4>3
      <4> QED
        BY <4>2, <4>3
    <3> HIDE DEF g
    <3>5. Filters(g, n + 1)
      BY <3>3, <3>4
    <3> QED
      BY <3>5
  <2>3. Nat \subseteq T
    <3> HIDE DEF T
    <3> QED
      BY <2>1, <2>2, Induction
  <2> QED
    BY <1>1, <2>3
<1> DEFINE Rec(f) == [i \in 0 .. Len(s) |->
                        IF i = 0 THEN <<>>
                        ELSE IF s[i] \in S THEN Append(f[i - 1], s[i]) ELSE f[i - 1]]
<1>4. \E f : f = Rec(f)
  <2>1. PICK f : Filters(f, Len(s))
    BY <1>3
  <2>2. ASSUME NEW i \in 0 .. Len(s)
        PROVE  f[i] = Rec(f)[i]
    <3>1. CASE i = 0
      BY <2>1, <3>1
    <3>2. CASE i \in 1 .. Len(s)
      <4>1. f[i] = Next1(f[i - 1], s[i]) /\ i # 0
        BY <2>1, <3>2
      <4> QED
        BY <4>1 DEF Next1
    <3> QED
      BY <1>1, <3>1, <3>2
  <2>3. DOMAIN Rec(f) = 0 .. Len(s) /\ f \in [0 .. Len(s) -> Kept]
    BY <2>1
  <2>4. Rec(f) = [i \in 0 .. Len(s) |-> Rec(f)[i]]
    OBVIOUS
  <2> HIDE DEF Rec
  <2>5. f = Rec(f)
    BY <2>2, <2>3, <2>4
  <2> QED
    BY <2>5
<1>5. PICK kept : kept = Rec(kept) /\ Filter(s, S) = kept[Len(s)]
  BY <1>4 DEF Filter
<1>6. /\ kept[0] = <<>>
      /\ \A i \in 1 .. Len(s) : kept[i] = Next1(kept[i - 1], s[i])
  <2>1. \A i \in 0 .. Len(s) : kept[i] = Rec(kept)[i]
    BY <1>5
  <2> QED
    BY <1>1, <2>1 DEF Next1
<1> DEFINE U == {n \in Nat : n <= Len(s) => kept[n] \in Kept}
<1>7. 0 \in U
  <2>1. <<>> \in Kept
    BY DEF Kept
  <2> QED
    BY <1>6, <2>1
<1>8. ASSUME NEW n \in Nat, n \in U
      PROVE  n + 1 \in U
  <2> SUFFICES ASSUME n + 1 <= Len(s) PROVE kept[n + 1] \in Kept
    OBVIOUS
  <2>1. s[n + 1] \in R /\ kept[n] \in Kept
    BY <1>1, <1>8
  <2>2. kept[n + 1] = Next1(kept[n], s[n + 1])
    BY <1>1, <1>6
  <2> QED
    BY <1>2, <2>1, <2>2
<1>9. Nat \subseteq U
  <2> HIDE DEF U
  <2> QED
    BY <1>7, <1>8, Induction
<1> QED
  BY <1>1, <1>5, <1>9 DEF Kept

(* The rounds of the search are well defined.                              *)
IsSearch(src, n, bfs) ==
  /\ bfs[0] = {[queue |-> <<src>>, path |-> [x \in {src} |-> {}]]}
  /\ \A i \in 1 .. n : bfs[i] = UNION {Discover(b) : b \in bfs[i - 1]}
  /\ Searched(src) = bfs[n]

LEMMA SearchRounds ==
  ASSUME NEW src, NEW N \in Nat, N = Cardinality(Vertices)
  PROVE  \E bfs : IsSearch(src, N, bfs)
<1> DEFINE first == {[queue |-> <<src>>, path |-> [x \in {src} |-> {}]]}
           Round(B) == UNION {Discover(b) : b \in B}
           Rec(f) == [i \in 0 .. N |-> IF i = 0 THEN first
                                       ELSE UNION {Discover(b) : b \in f[i - 1]}]
           IsFcn(f, n) == f = [i \in 0 .. n |-> f[i]]
           Rounds(f, n) ==
             /\ IsFcn(f, n)
             /\ f[0] = first
             /\ \A i \in 1 .. n : f[i] = Round(f[i - 1])
<1> HIDE DEF Round, first, IsFcn
<1>1. \E f : Rounds(f, N)
  <2> DEFINE T == {n \in Nat : \E f : Rounds(f, n)}
  <2>1. 0 \in T
    <3> DEFINE g == [i \in 0 .. 0 |-> first]
    <3>1. IsFcn(g, 0) /\ g[0] = first
      BY DEF IsFcn
    <3> HIDE DEF g
    <3>2. Rounds(g, 0)
      BY <3>1
    <3> QED
      BY <3>2
  <2>2. ASSUME NEW n \in Nat, n \in T
        PROVE  n + 1 \in T
    <3>1. PICK f : Rounds(f, n)
      BY <2>2
    <3> DEFINE last == Round(f[n])
               g == [i \in 0 .. n + 1 |-> IF i = n + 1 THEN last ELSE f[i]]
    <3>2. IsFcn(g, n + 1) /\ g[0] = first
      BY <3>1 DEF IsFcn
    <3>3. ASSUME NEW i \in 1 .. n + 1
          PROVE  g[i] = Round(g[i - 1])
      <4>1. g[i - 1] = f[i - 1]
        OBVIOUS
      <4>2. CASE i = n + 1
        <5>1. i - 1 = n /\ g[i] = last
          BY <4>2
        <5> QED
          BY <4>1, <5>1
      <4>3. CASE i # n + 1
        BY <3>1, <4>1, <4>3
      <4> QED
        BY <4>2, <4>3
    <3> HIDE DEF g
    <3>4. Rounds(g, n + 1)
      BY <3>2, <3>3
    <3> QED
      BY <3>4
  <2>3. Nat \subseteq T
    <3> HIDE DEF T
    <3> QED
      BY <2>1, <2>2, Induction
  <2> QED
    BY <2>3
<1>2. \E f : f = Rec(f)
  <2>1. PICK f : Rounds(f, N)
    BY <1>1
  <2>2. ASSUME NEW i \in 0 .. N
        PROVE  f[i] = Rec(f)[i]
    <3>1. CASE i = 0
      BY <2>1, <3>1
    <3>2. CASE i \in 1 .. N
      <4>1. f[i] = Round(f[i - 1]) /\ i # 0
        BY <2>1, <3>2
      <4> QED
        BY <4>1 DEF Round
    <3> QED
      BY <3>1, <3>2
  <2>3. f = [i \in 0 .. N |-> f[i]] /\ Rec(f) = [i \in 0 .. N |-> Rec(f)[i]]
    BY <2>1 DEF IsFcn
  <2> HIDE DEF Rec
  <2>4. f = Rec(f)
    BY <2>2, <2>3
  <2> QED
    BY <2>4
<1>3. PICK bfs : bfs = Rec(bfs) /\ Searched(src) = bfs[N]
  BY <1>2 DEF Searched, first
<1>4. \A i \in 0 .. N : bfs[i] = Rec(bfs)[i]
  BY <1>3
<1>5. bfs[0] = first /\ \A i \in 1 .. N : bfs[i] = UNION {Discover(b) : b \in bfs[i - 1]}
  <2>1. bfs[0] = first
    <3>1. 0 \in 0 .. N
      OBVIOUS
    <3>2. bfs[0] = Rec(bfs)[0]
      BY <1>4, <3>1
    <3>3. Rec(bfs)[0] = first
      BY <3>1
    <3> QED
      BY <3>2, <3>3
  <2>2. ASSUME NEW i \in 1 .. N
        PROVE  bfs[i] = UNION {Discover(b) : b \in bfs[i - 1]}
    <3>1. i \in 0 .. N /\ i # 0
      OBVIOUS
    <3>2. bfs[i] = Rec(bfs)[i]
      BY <1>4, <3>1
    <3> QED
      BY <3>1, <3>2
  <2> QED
    BY <2>1, <2>2
<1> QED
  BY <1>3, <1>5 DEF first, IsSearch

(* The place a vertex stands for, the controller's for a transition, and   *)
(* the transitions on a path.                                              *)
Moved(t) == Place(ControllerOf(t))
PlaceOf(x) == IF x[1] = "p" THEN x[2] ELSE Moved(x[2])
Passed(S) == {t \in Transitions : TVertex(t) \in S}

(* A path S from place p to vertex x that is not ignored first goes down,  *)
(* from controllers to what they use, and then up; r is its lowest place.  *)
DownThenUp(p, x, S) ==
  \E r \in Places :
    /\ Holds(r) \subseteq Holds(p) /\ Holds(r) \subseteq Holds(PlaceOf(x))
    /\ \A t \in Passed(S) : Holds(r) \subseteq Holds(Moved(t))
    /\ \A t \in Passed(S) :
         IsEnable(t) => Holds(Moved(t)) \subseteq Holds(PlaceOf(x)) /\ Moved(t) <= PlaceOf(x)
    /\ \/ /\ r = PlaceOf(x)
          /\ \A t \in Passed(S) : ~IsEnable(t) /\ r <= Moved(t) /\ (x[1] = "p" => r < Moved(t))
       \/ \E t \in Passed(S) : IsEnable(t) /\ Moved(t) = PlaceOf(x)

IsPath(p, x, S) ==
  /\ x = PVertex(p) => S = {}
  /\ x[1] = "t" => x[2] \in Passed(S)
  /\ (x[1] = "p" /\ x # PVertex(p)) => \E t \in Passed(S) : x[2] \in Outputs(t)
  /\ ~HasPair(Passed(S)) => DownThenUp(p, x, S)

(* The states of the search from place p.                                  *)
Explored(p, b) ==
  /\ b.queue \in Seq(DOMAIN b.path)
  /\ DOMAIN b.path \subseteq Vertices /\ PVertex(p) \in DOMAIN b.path
  /\ \A x \in DOMAIN b.path : IsPath(p, x, b.path[x])

(* The two transitions of a controller.                                    *)
LEMMA PairOfController ==
  ASSUME TypeOK, NEW t \in Transitions, NEW u \in Transitions
  PROVE  /\ Moved(t) = Moved(u) => ControllerOf(t) = ControllerOf(u)
         /\ (Moved(t) = Moved(u) /\ IsEnable(t) /\ ~IsEnable(u)) => Pair(t) = u
         /\ Moved(t) \in Places \ Dofs /\ Moved(t) \in Int
<1>1. t \in Nat /\ u \in Nat
  BY RegistryLength DEF Transitions
<1>2. ControllerOf(t) \in Nat /\ ControllerOf(u) \in Nat
  BY <1>1 DEF ControllerOf
<1>3. Moved(t) = Moved(u) => ControllerOf(t) = ControllerOf(u)
  BY <1>2, NDofAssumption DEF Moved, Place
<1>4. (ControllerOf(t) = ControllerOf(u) /\ IsEnable(t) /\ ~IsEnable(u)) => Pair(t) = u
  BY <1>1 DEF ControllerOf, IsEnable, Pair
<1>5. Moved(t) \in Places \ Dofs
  BY TransitionKind DEF Moved
<1>6. Moved(t) \in Int
  BY <1>2, NDofAssumption DEF Moved, Place
<1> QED
  BY <1>3, <1>4, <1>5, <1>6

(* What a controller uses it depends on, and it comes earlier.             *)
LEMMA UsedBelow ==
  ASSUME TypeOK, NetOK, NEW t \in Transitions
  PROVE  /\ Holds(Moved(t)) = UNION {Holds(q) : q \in Used(ControllerOf(t))}
         /\ \A q \in Used(ControllerOf(t)) : q \in Places /\ q \in Int /\ q < Moved(t)
         /\ Inputs(t) = IF IsEnable(t) THEN Used(ControllerOf(t)) ELSE {Moved(t)}
         /\ Outputs(t) = IF IsEnable(t) THEN {Moved(t)} ELSE Used(ControllerOf(t))
<1>1. ControllerOf(t) \in Controllers /\ Moved(t) \in Places \ Dofs /\ Moved(t) \in Int
  BY TransitionKind, PairOfController DEF Moved
<1>2. /\ Used(ControllerOf(t)) \subseteq 0 .. Moved(t) - 1
      /\ dep_resource[Moved(t)] = UNION {Holds(q) : q \in Used(ControllerOf(t))}
  BY <1>1 DEF NetOK, Moved
<1>3. Holds(Moved(t)) = dep_resource[Moved(t)]
  BY <1>1 DEF Holds
<1>4. \A q \in Used(ControllerOf(t)) : q \in Places /\ q \in Int /\ q < Moved(t)
  BY <1>1, <1>2, RegistryLength, NDofAssumption DEF Places
<1> QED
  BY <1>2, <1>3, <1>4 DEF Inputs, Outputs, Moved

(* One more vertex on a path.                                              *)
LEMMA PathStep ==
  ASSUME TypeOK, NetOK, NEW p \in Places,
         NEW u \in Vertices, NEW S, IsPath(p, u, S),
         NEW x \in Successors(u), x # PVertex(p)
  PROVE  x \in Vertices /\ IsPath(p, x, S \cup {x})
<1> DEFINE S2 == S \cup {x}
<1>1. CASE u \in {PVertex(q) : q \in Places}
  <2>1. PICK q \in Places : u = PVertex(q)
    BY <1>1
  <2>2. PICK t \in Transitions : x = TVertex(t) /\ q \in Inputs(t)
    BY <2>1 DEF Successors, PVertex
  <2>3. Passed(S2) = Passed(S) \cup {t}
    BY <2>2 DEF Passed, TVertex
  <2>4. x[1] = "t" /\ x[2] = t /\ PlaceOf(x) = Moved(t) /\ PlaceOf(u) = q /\ u[1] = "p"
    BY <2>1, <2>2 DEF PlaceOf, TVertex, PVertex
  <2>5. ~HasPair(Passed(S2)) => DownThenUp(p, x, S2)
    <3> SUFFICES ASSUME ~HasPair(Passed(S2)) PROVE DownThenUp(p, x, S2)
      OBVIOUS
    <3>1. DownThenUp(p, u, S)
      BY <2>3 DEF HasPair, IsPath
    <3>2. PICK r \in Places :
            /\ Holds(r) \subseteq Holds(p) /\ Holds(r) \subseteq Holds(q)
            /\ \A v \in Passed(S) : Holds(r) \subseteq Holds(Moved(v))
            /\ \A v \in Passed(S) :
                 IsEnable(v) => Holds(Moved(v)) \subseteq Holds(q) /\ Moved(v) <= q
            /\ \/ r = q /\ \A v \in Passed(S) : ~IsEnable(v) /\ r <= Moved(v) /\ r < Moved(v)
               \/ \E v \in Passed(S) : IsEnable(v) /\ Moved(v) = q
      BY <2>4, <3>1 DEF DownThenUp
    <3>3. CASE IsEnable(t)
      <4>1. q \in Int /\ q < Moved(t) /\ Holds(q) \subseteq Holds(Moved(t)) /\ Moved(t) \in Int
        BY <2>2, <3>3, UsedBelow, PairOfController
      <4>2. \A v \in Passed(S) : Moved(v) \in Int
        BY PairOfController DEF Passed
      <4>3. \A v \in Passed(S2) :
              IsEnable(v) => Holds(Moved(v)) \subseteq Holds(Moved(t)) /\ Moved(v) <= Moved(t)
        <5> SUFFICES ASSUME NEW v \in Passed(S2), IsEnable(v)
                     PROVE  Holds(Moved(v)) \subseteq Holds(Moved(t)) /\ Moved(v) <= Moved(t)
          OBVIOUS
        <5>1. CASE v = t
          BY <4>1, <5>1
        <5>2. CASE v \in Passed(S)
          <6>1. Holds(Moved(v)) \subseteq Holds(q) /\ Moved(v) <= q
            BY <3>2, <5>2
          <6>2. Moved(v) <= Moved(t)
            BY <4>1, <4>2, <5>2, <6>1
          <6> QED
            BY <4>1, <6>1, <6>2
        <5> QED
          BY <2>3, <5>1, <5>2
      <4>4. \A v \in Passed(S2) : Holds(r) \subseteq Holds(Moved(v))
        BY <2>3, <3>2, <4>1
      <4> QED
        <5>1. /\ Holds(r) \subseteq Holds(p) /\ Holds(r) \subseteq Holds(PlaceOf(x))
              /\ \E v \in Passed(S2) : IsEnable(v) /\ Moved(v) = PlaceOf(x)
          BY <2>3, <2>4, <3>2, <3>3, <4>1
        <5> QED
          BY <2>4, <4>3, <4>4, <5>1 DEF DownThenUp
    <3>4. CASE ~IsEnable(t)
      <4>1. Moved(t) = q
        BY <2>2, <3>4, UsedBelow
      <4>2. \A v \in Passed(S) : ~(IsEnable(v) /\ Moved(v) = q)
        <5> SUFFICES ASSUME NEW v \in Passed(S), IsEnable(v), Moved(v) = q
                     PROVE  FALSE
          OBVIOUS
        <5>1. Pair(v) = t
          BY <3>4, <4>1, PairOfController DEF Passed
        <5> QED
          BY <2>3, <5>1 DEF HasPair
      <4>3. r = q /\ \A v \in Passed(S) : ~IsEnable(v) /\ r <= Moved(v)
        BY <3>2, <4>2
      <4>4. r \in Int
        BY <4>1, <4>3, PairOfController
      <4> QED
        BY <2>3, <2>4, <3>2, <3>4, <4>1, <4>3, <4>4 DEF DownThenUp
    <3> QED
      BY <3>3, <3>4
  <2>6. x \in Vertices /\ x # PVertex(p)
    BY <2>2 DEF Vertices
  <2> QED
    BY <2>3, <2>4, <2>5, <2>6 DEF IsPath
<1>2. CASE u \in {TVertex(t) : t \in Transitions}
  <2>1. PICK t \in Transitions : u = TVertex(t)
    BY <1>2
  <2>2. PICK q \in Outputs(t) : x = PVertex(q)
    BY <2>1 DEF Successors, TVertex
  <2>3. Passed(S2) = Passed(S)
    BY <2>2 DEF Passed, TVertex, PVertex
  <2>4. x[1] = "p" /\ x[2] = q /\ PlaceOf(x) = q /\ PlaceOf(u) = Moved(t) /\ u[1] = "t"
    BY <2>1, <2>2 DEF PlaceOf, TVertex, PVertex
  <2>5. t \in Passed(S)
    BY <2>1, <2>4 DEF IsPath, TVertex
  <2>6. ~HasPair(Passed(S2)) => DownThenUp(p, x, S2)
    <3> SUFFICES ASSUME ~HasPair(Passed(S2)) PROVE DownThenUp(p, x, S2)
      OBVIOUS
    <3>1. DownThenUp(p, u, S)
      BY <2>3 DEF IsPath
    <3>2. PICK r \in Places :
            /\ Holds(r) \subseteq Holds(p) /\ Holds(r) \subseteq Holds(Moved(t))
            /\ \A v \in Passed(S) : Holds(r) \subseteq Holds(Moved(v))
            /\ \A v \in Passed(S) :
                 IsEnable(v) => Holds(Moved(v)) \subseteq Holds(Moved(t)) /\ Moved(v) <= Moved(t)
            /\ \/ r = Moved(t) /\ \A v \in Passed(S) : ~IsEnable(v) /\ r <= Moved(v)
               \/ \E v \in Passed(S) : IsEnable(v) /\ Moved(v) = Moved(t)
      BY <2>4, <3>1 DEF DownThenUp
    <3>3. CASE IsEnable(t)
      <4>1. q = Moved(t)
        BY <2>2, <3>3, UsedBelow
      <4> QED
        BY <2>3, <2>4, <2>5, <3>2, <3>3, <4>1 DEF DownThenUp
    <3>4. CASE ~IsEnable(t)
      <4>1. /\ q \in Places /\ q \in Int /\ q < Moved(t) /\ Moved(t) \in Int
            /\ Holds(q) \subseteq Holds(Moved(t))
        BY <2>2, <3>4, UsedBelow, PairOfController
      <4>2. \A v \in Passed(S) : ~(IsEnable(v) /\ Moved(v) = Moved(t))
        <5> SUFFICES ASSUME NEW v \in Passed(S), IsEnable(v), Moved(v) = Moved(t)
                     PROVE  FALSE
          OBVIOUS
        <5>1. Pair(v) = t
          BY <3>4, PairOfController DEF Passed
        <5> QED
          BY <2>3, <2>5, <5>1 DEF HasPair
      <4>3. r = Moved(t) /\ \A v \in Passed(S) : ~IsEnable(v) /\ r <= Moved(v)
        BY <3>2, <4>2
      <4>4. \A v \in Passed(S) : q < Moved(v) /\ q <= Moved(v)
        <5>1. \A v \in Passed(S) : Moved(v) \in Int
          BY PairOfController DEF Passed
        <5> QED
          BY <4>1, <4>3, <5>1
      <4>5. \A v \in Passed(S) : Holds(q) \subseteq Holds(Moved(v))
        BY <3>2, <4>1, <4>3
      <4>6. Holds(q) \subseteq Holds(p)
        BY <3>2, <4>1, <4>3
      <4> QED
        BY <2>3, <2>4, <4>1, <4>3, <4>4, <4>5, <4>6 DEF DownThenUp
    <3> QED
      BY <3>3, <3>4
  <2>7. q \in Places
    BY <2>2, InputsOutputs
  <2>8. x \in Vertices
    BY <2>2, <2>7 DEF Vertices
  <2> QED
    BY <2>2, <2>3, <2>4, <2>5, <2>6, <2>8 DEF IsPath
<1> QED
  BY <1>1, <1>2 DEF Vertices

(* The out-edges of a vertex lead to vertices, in whatever order.          *)
LEMMA OrderType ==
  ASSUME TypeOK, NetOK, NEW u \in Vertices
  PROVE  Order(u) \in Seq(Vertices)
<1>1. Len(registry) \in Nat /\ NDof \in Nat \ {0}
  BY RegistryLength, NDofAssumption
<1>2. CASE u \in {PVertex(q) : q \in Places}
  <2>1. u[1] = "p"
    BY <1>2 DEF PVertex
  <2>2. \A i \in 1 .. 2 * Len(registry) : TVertex(i - 1) \in Vertices
    BY <1>1 DEF Vertices, Transitions
  <2>3. 2 * Len(registry) \in Nat
    BY <1>1
  <2>4. [i \in 1 .. 2 * Len(registry) |-> TVertex(i - 1)] \in Seq(Vertices)
    BY <2>2, <2>3, SeqDef
  <2> QED
    BY <2>1, <2>4 DEF Order
<1>3. CASE u \in {TVertex(t) : t \in Transitions}
  <2>1. PICK t \in Transitions : u = TVertex(t)
    BY <1>3
  <2>2. u[1] # "p" /\ u[2] = t
    BY <2>1 DEF TVertex
  <2> DEFINE entry == registry[ControllerOf(t)]
             dofs == [i \in 1 .. NDof |-> i - 1]
             last == <<Place(ControllerOf(t))>>
             places == dofs \o entry.cnts \o last
  <2>3. entry.cnts \in Seq(Places) /\ last \in Seq(Places)
    <3>1. ControllerOf(t) \in 1 .. Len(registry) /\ Place(ControllerOf(t)) \in Places
      BY TransitionKind DEF Controllers
    <3> DEFINE Entries == [name : {r.name : r \in Requests},
                           dofs : SUBSET Dofs, cnts : Seq(Places)]
    <3>2. \A e \in Entries : e.cnts \in Seq(Places)
      OBVIOUS
    <3>3. registry \in Seq(Entries)
      BY DEF TypeOK
    <3> HIDE DEF Entries
    <3>4. entry \in Entries
      BY <3>1, <3>3
    <3>5. entry.cnts \in Seq(Places)
      BY <3>2, <3>4
    <3> QED
      BY <3>1, <3>5
  <2>4. dofs \in Seq(Places)
    <3>1. \A i \in 1 .. NDof : i - 1 \in Places
      BY <1>1 DEF Places
    <3>2. NDof \in Nat
      BY <1>1
    <3>3. dofs \in [1 .. NDof -> Places]
      BY <3>1
    <3> HIDE DEF dofs
    <3> QED
      BY <3>2, <3>3, SeqDef
  <2>5. places \in Seq(Places)
    <3> HIDE DEF dofs, entry, last
    <3> QED
      BY <2>3, <2>4
  <2> HIDE DEF places
  <2>6. DOMAIN places = 1 .. Len(places) /\ Len(places) \in Nat
    BY <2>5, LenProperties
  <2>7. \A i \in 1 .. Len(places) : PVertex(places[i]) \in Vertices
    BY <2>5 DEF Vertices
  <2>8. [i \in DOMAIN places |-> PVertex(places[i])] \in Seq(Vertices)
    BY <2>6, <2>7, SeqDef
  <2> QED
    BY <2>2, <2>8 DEF Order, places
<1> QED
  BY <1>2, <1>3 DEF Vertices

(* A visit to a vertex keeps what is known of the search.                  *)
LEMMA DiscoverStep ==
  ASSUME TypeOK, NetOK, NEW p \in Places, NEW b, Explored(p, b),
         NEW c \in Discover(b)
  PROVE  Explored(p, c)
<1>1. CASE b.queue = <<>>
  BY <1>1 DEF Discover
<1>2. CASE b.queue # <<>>
  <2> DEFINE D == DOMAIN b.path
             u == Head(b.queue)
             order == Order(u)
             fresh == Successors(u) \ D
             path == [x \in D \cup fresh |->
                        IF x \in fresh THEN b.path[u] \cup {x} ELSE b.path[x]]
             queue == Tail(b.queue) \o Filter(order, fresh)
  <2>1. c = [queue |-> queue, path |-> path]
    <3>1. c = Visit(b, order, fresh)
      BY <1>2 DEF Discover
    <3> QED
      BY <3>1 DEF Visit
  <2>2. u \in D /\ Tail(b.queue) \in Seq(D)
    <3>1. b.queue \in Seq(D)
      BY DEF Explored
    <3> HIDE DEF D
    <3> QED
      BY <1>2, <3>1, HeadTailProperties
  <2>3. D \subseteq Vertices /\ PVertex(p) \in D /\ u \in Vertices
    BY <2>2 DEF Explored
  <2>4. \A x \in fresh : x \in Vertices /\ IsPath(p, x, b.path[u] \cup {x})
    BY <2>2, <2>3, PathStep DEF Explored
  <2>5. c.queue \in Seq(D \cup fresh)
    <3>1. Filter(order, fresh) \in Seq(Vertices \cap fresh)
      BY <2>3, OrderType, FilterType
    <3>2. c.queue = queue
      BY <2>1
    <3> DEFINE All == D \cup fresh
    <3>3. Vertices \cap fresh \subseteq All /\ D \subseteq All
      OBVIOUS
    <3> HIDE DEF All, fresh, D
    <3>4. Filter(order, fresh) \in Seq(All)
      BY <3>1, <3>3, SeqMonotonic
    <3>5. Tail(b.queue) \in Seq(All)
      BY <2>2, <3>3, SeqMonotonic
    <3>6. c.queue \in Seq(All)
      BY <3>2, <3>4, <3>5
    <3> QED
      BY <3>6 DEF All
  <2>6. DOMAIN c.path = D \cup fresh
    BY <2>1
  <2>7. ASSUME NEW x \in D \cup fresh
        PROVE  IsPath(p, x, c.path[x])
    <3>1. CASE x \in fresh
      <4>1. c.path[x] = b.path[u] \cup {x}
        BY <2>1, <3>1
      <4> QED
        BY <2>4, <3>1, <4>1
    <3>2. CASE x \notin fresh
      <4>1. c.path[x] = b.path[x]
        BY <2>1, <3>2
      <4> QED
        BY <3>2, <4>1 DEF Explored
    <3> QED
      BY <3>1, <3>2
  <2> QED
    BY <2>3, <2>4, <2>5, <2>6, <2>7 DEF Explored
<1> QED
  BY <1>1, <1>2

(* All the paths the search answers are paths of the net.                  *)
LEMMA SearchedExplored ==
  ASSUME TypeOK, NetOK, NEW p \in Places, NEW b \in Searched(PVertex(p))
  PROVE  Explored(p, b)
<1>1. Cardinality(Vertices) \in Nat
  <2>1. IsFiniteSet(Places) /\ IsFiniteSet(Transitions)
    <3>1. 0 \in Int /\ NDof + Len(registry) - 1 \in Int /\ 2 * Len(registry) - 1 \in Int
      BY RegistryLength, NDofAssumption
    <3> QED
      BY <3>1, FS_Interval DEF Places, Transitions
  <2>2. IsFiniteSet({PVertex(q) : q \in Places}) /\ IsFiniteSet({TVertex(t) : t \in Transitions})
    <3> DEFINE P == {PVertex(q) : q \in Places}
               T == {TVertex(t) : t \in Transitions}
               f == [v \in P |-> v[2]]
               g == [v \in T |-> v[2]]
    <3>1. f \in Injection(P, Places)
      BY DEF PVertex, Injection, IsInjective
    <3>2. g \in Injection(T, Transitions)
      BY DEF TVertex, Injection, IsInjective
    <3> HIDE DEF P, T, f, g
    <3>3. IsFiniteSet(P) /\ IsFiniteSet(T)
      BY <2>1, <3>1, <3>2, FS_Injection
    <3> QED
      BY <3>3 DEF P, T
  <2>3. IsFiniteSet(Vertices)
    BY <2>2, FS_Union DEF Vertices
  <2> QED
    BY <2>3, FS_CardinalityType
<1>2. PICK N \in Nat : N = Cardinality(Vertices)
  BY <1>1
<1>3. PICK bfs : IsSearch(PVertex(p), N, bfs)
  BY <1>2, SearchRounds
<1> DEFINE U == {n \in Nat : n <= N => \A c \in bfs[n] : Explored(p, c)}
<1>4. 0 \in U
  <2>1. PICK first : first = [queue |-> <<PVertex(p)>>, path |-> [x \in {PVertex(p)} |-> {}]]
    OBVIOUS
  <2>2. /\ first.queue \in Seq(DOMAIN first.path) /\ DOMAIN first.path = {PVertex(p)}
        /\ first.path[PVertex(p)] = {}
    BY <2>1
  <2>3. IsPath(p, PVertex(p), {})
    <3>1. Passed({}) = {} /\ PlaceOf(PVertex(p)) = p /\ PVertex(p)[1] = "p"
      BY DEF Passed, PlaceOf, PVertex
    <3>2. DownThenUp(p, PVertex(p), {})
      BY <3>1 DEF DownThenUp
    <3> QED
      BY <3>1, <3>2 DEF IsPath
  <2>4. PVertex(p) \in Vertices
    BY DEF Vertices
  <2>5. Explored(p, first)
    BY <2>2, <2>3, <2>4 DEF Explored
  <2> QED
    BY <1>3, <2>1, <2>5 DEF IsSearch
<1>5. ASSUME NEW n \in Nat, n \in U
      PROVE  n + 1 \in U
  <2> SUFFICES ASSUME n + 1 <= N, NEW c \in bfs[n + 1]
               PROVE  Explored(p, c)
    OBVIOUS
  <2>1. bfs[n + 1] = UNION {Discover(d) : d \in bfs[n]}
    <3>1. n + 1 \in 1 .. N /\ (n + 1) - 1 = n
      OBVIOUS
    <3> QED
      BY <1>3, <3>1 DEF IsSearch
  <2>2. PICK d \in bfs[n] : c \in Discover(d)
    BY <2>1
  <2>3. Explored(p, d)
    BY <1>5
  <2> QED
    BY <2>2, <2>3, DiscoverStep
<1>6. Nat \subseteq U
  <2> HIDE DEF U
  <2> QED
    BY <1>4, <1>5, Induction
<1>7. N \in U
  BY <1>6
<1> QED
  BY <1>3, <1>7 DEF IsSearch

(* What the transitions of a path that is not ignored do for place v: they *)
(* move DOFs of v, those that enable take only DOFs of v, and none takes a *)
(* token from v.                                                           *)
OnTheWay(t, v) ==
  /\ Holds(Moved(t)) \cap Holds(v) # {}
  /\ IsEnable(t) => Holds(Moved(t)) \subseteq Holds(v)
  /\ v \notin Inputs(t)

LEMMA PathFacts ==
  ASSUME TypeOK, NetOK, NEW p \in Places, NEW v \in Places,
         NEW S, S = PathTransitions(PVertex(p), PVertex(v)), ~HasPair(S), S # {}
  PROVE  /\ p # v /\ Holds(p) \cap Holds(v) # {}
         /\ \A t \in S : OnTheWay(t, v)
         /\ \E g \in S : v \in Outputs(g)
<1> SUFFICES ASSUME NEW t \in S
             PROVE  /\ p # v /\ Holds(p) \cap Holds(v) # {}
                    /\ OnTheWay(t, v)
                    /\ \E g \in S : v \in Outputs(g)
  OBVIOUS
<1> DEFINE x == PVertex(v)
<1>1. PICK b \in Searched(PVertex(p)) : x \in DOMAIN b.path /\ t \in Passed(b.path[x])
  BY DEF PathTransitions, Passed
<1>2. PICK W : W = b.path[x]
  OBVIOUS
<1>3. Passed(W) \subseteq S
  BY <1>1, <1>2 DEF PathTransitions, Passed
<1>4. ~HasPair(Passed(W))
  BY <1>3 DEF HasPair
<1>5. IsPath(p, x, W)
  BY <1>1, <1>2, SearchedExplored DEF Explored
<1>6. x[1] = "p" /\ x[2] = v /\ PlaceOf(x) = v /\ (x = PVertex(p) <=> v = p)
  BY DEF PVertex, PlaceOf
<1>7. p # v
  BY <1>1, <1>2, <1>5, <1>6 DEF IsPath, Passed
<1>8. PICK g \in Passed(W) : v \in Outputs(g)
  BY <1>5, <1>6, <1>7 DEF IsPath
<1>9. PICK r \in Places :
        /\ Holds(r) \subseteq Holds(p) /\ Holds(r) \subseteq Holds(v)
        /\ \A u \in Passed(W) : Holds(r) \subseteq Holds(Moved(u))
        /\ \A u \in Passed(W) :
             IsEnable(u) => Holds(Moved(u)) \subseteq Holds(v) /\ Moved(u) <= v
        /\ \/ r = v /\ \A u \in Passed(W) : ~IsEnable(u) /\ r < Moved(u)
           \/ \E u \in Passed(W) : IsEnable(u) /\ Moved(u) = v
  BY <1>4, <1>5, <1>6 DEF IsPath, DownThenUp
<1>10. Holds(r) # {} /\ t \in Passed(W) /\ t \in Transitions
  BY <1>1, <1>2 DEF NetOK, Passed
<1>11. v \notin Inputs(t)
  <2>1. v \in Int /\ Moved(t) \in Int
    BY <1>10, PairOfController, RegistryLength, NDofAssumption DEF Places
  <2>2. CASE IsEnable(t)
    <3>1. Moved(t) <= v
      BY <1>9, <1>10, <2>2
    <3>2. Inputs(t) = Used(ControllerOf(t))
      BY <1>10, <2>2, UsedBelow
    <3>3. \A q \in Inputs(t) : q \in Int /\ q < Moved(t)
      BY <1>10, <3>2, UsedBelow
    <3> QED
      BY <2>1, <3>1, <3>3
  <2>3. CASE ~IsEnable(t)
    <3>1. Inputs(t) = {Moved(t)}
      BY <1>10, <2>3, UsedBelow
    <3> SUFFICES ASSUME Moved(t) = v PROVE FALSE
      BY <3>1
    <3>2. PICK u \in Passed(W) : IsEnable(u) /\ Moved(u) = v
      BY <1>9, <1>10, <2>1
    <3>3. Pair(u) = t
      BY <1>10, <2>3, <3>2, PairOfController DEF Passed
    <3> QED
      BY <1>4, <1>10, <3>2, <3>3 DEF HasPair
  <2> QED
    BY <2>2, <2>3
<1>12. OnTheWay(t, v)
  BY <1>9, <1>10, <1>11 DEF OnTheWay
<1> QED
  BY <1>3, <1>7, <1>8, <1>9, <1>10, <1>12

(* The same of the set of transitions that the search proposes; and it     *)
(* proposes none for a place that is marked.                               *)
LEMMA FiringSetFacts ==
  ASSUME TypeOK, NetOK, NEW v \in Places, NEW mk, GoodMarking(mk)
  PROVE  /\ \A t \in FiringSet(v, mk) : OnTheWay(t, v)
         /\ FiringSet(v, mk) # {} => /\ \E g \in FiringSet(v, mk) : v \in Outputs(g)
                                     /\ mk[v] # 1
<1> SUFFICES ASSUME NEW t \in FiringSet(v, mk)
             PROVE  /\ OnTheWay(t, v)
                    /\ \E g \in FiringSet(v, mk) : v \in Outputs(g)
                    /\ mk[v] # 1
  OBVIOUS
<1>1. PICK p, S :
        /\ p \in Places /\ mk[p] # 0 /\ t \in S /\ ~HasPair(S)
        /\ S = PathTransitions(PVertex(p), PVertex(v))
  BY DEF FiringSet
<1>2. S \subseteq FiringSet(v, mk)
  BY <1>1 DEF FiringSet
<1>3. /\ p # v /\ Holds(p) \cap Holds(v) # {} /\ OnTheWay(t, v)
      /\ \E g \in S : v \in Outputs(g)
  BY <1>1, PathFacts
<1>4. mk[p] = 1
  BY <1>1 DEF GoodMarking
<1>5. mk[v] # 1
  BY <1>1, <1>3, <1>4, MarkedPlacesDisjoint
<1> QED
  BY <1>2, <1>3, <1>5

(* For any registrations, asking for a controller that is active already   *)
(* disturbs nobody.                                                        *)
THEOREM ActiveUndisturbed == Spec => ActiveStaysActive
<1>1. IInv /\ [Next]_vars => [(pc = "search" /\ marking[target] > 0) => pc' = "idle"]_vars
  <2> SUFFICES ASSUME IInv, Next, pc = "search", marking[target] > 0
               PROVE  pc' = "idle"
    OBVIOUS
  <2>1. CASE AlreadyMarked
    BY <2>1 DEF AlreadyMarked
  <2>2. CASE Search
    <3>1. target \in Places /\ GoodMarking(marking) /\ TypeOK /\ NetOK
      BY DEF IInv
    <3>2. marking[target] = 1
      BY <3>1 DEF GoodMarking
    <3>3. FiringSet(target, marking) = {}
      BY <3>1, <3>2, FiringSetFacts
    <3> QED
      BY <2>2, <3>3 DEF Search
  <2>3. AlreadyMarked \/ Search
    BY DEF Next, Callback, RegisterController, ActivateController, SeedRGraph,
           ExpandRGraph, FireNext, SkipNext, EndPass
  <2> QED
    BY <2>1, <2>2, <2>3
<1> QED
  BY <1>1, InductiveInvariant, PTL DEF Spec, ActiveStaysActive

-----------------------------------------------------------------------------
(* The firing loop.  While it runs, the transitions left are on the way to *)
(* the controller asked for, and one of them is its enabling transition    *)
(* unless the controller is active already.                                *)
SearchInv ==
  pc = "fire" =>
    /\ target \notin Dofs
    /\ pass \subseteq firing_seq \ rem
    /\ \A t \in firing_seq : OnTheWay(t, target)
    /\ m[target] = 1 \/ \E g \in firing_seq \ rem : target \in Outputs(g)

(* What a transition does depends on the net alone.                        *)
LEMMA WayUnchanged ==
  ASSUME UNCHANGED net
  PROVE  /\ \A t, v : OnTheWay(t, v)' <=> OnTheWay(t, v)
         /\ \A t : Outputs(t)' = Outputs(t)
  BY DEF net, OnTheWay, Holds, Moved, Place, ControllerOf, Inputs, Outputs, Used,
         IsEnable, Dofs

LEMMA SearchKeepsSearchInv ==
  ASSUME IInv, Search
  PROVE  SearchInv'
<1>1. PICK fs \in {FiringSet(target, marking)} :
        /\ pc' = IF fs = {} THEN "idle" ELSE "fire"
        /\ m' = marking /\ firing_seq' = fs /\ pass' = fs /\ rem' = {}
        /\ UNCHANGED <<net, target>> /\ target \notin Dofs
  BY DEF Search, MarkedFlag
<1> SUFFICES ASSUME fs # {} PROVE SearchInv'
  BY <1>1 DEF SearchInv
<1>2. TypeOK /\ NetOK /\ target \in Places /\ GoodMarking(marking)
  BY DEF IInv, Search
<1>3. /\ \A t \in fs : OnTheWay(t, target)
      /\ \E g \in fs : target \in Outputs(g)
  BY <1>1, <1>2, FiringSetFacts
<1>4. PICK v : v = target
  OBVIOUS
<1>5. \A t \in fs : OnTheWay(t, v)'
  BY <1>1, <1>3, <1>4, WayUnchanged
<1>6. \E g \in fs : v \in Outputs(g)'
  BY <1>1, <1>3, <1>4, WayUnchanged
<1> QED
  BY <1>1, <1>4, <1>5, <1>6 DEF SearchInv, Dofs

LEMMA FireKeepsSearchInv ==
  ASSUME IInv, SearchInv, FireNext
  PROVE  SearchInv'
<1>1. PICK t \in pass :
        /\ pc = "fire" /\ IsEnabled(t, m) /\ m' = Fire(t, m)
        /\ rem' = rem \cup {t} /\ pass' = pass \ {t}
        /\ UNCHANGED <<net, target, firing_seq>>
  BY DEF FireNext
<1>2. /\ TypeOK /\ NetOK /\ GoodMarking(m) /\ target \in Places /\ t \in Transitions
      /\ GoodMarking(Fire(t, m))
  BY <1>1, FireKeepsGood DEF IInv, TypeOK
<1>3. PICK v : v = target
  OBVIOUS
<1>4. /\ t \in firing_seq \ rem /\ OnTheWay(t, v) /\ v \in Places
      /\ pass \subseteq firing_seq \ rem /\ v \notin Dofs
  BY <1>1, <1>2, <1>3 DEF SearchInv
<1>5. \A u \in firing_seq' : OnTheWay(u, v)'
  BY <1>1, <1>3, WayUnchanged DEF SearchInv
<1>6. m'[v] = 1 \/ \E g \in firing_seq' \ rem' : v \in Outputs(g)'
  <2>1. m[v] \in {0, 1} /\ m'[v] \in {0, 1}
    BY <1>1, <1>2, <1>4 DEF GoodMarking
  <2>2. m'[v] = m[v] + Weight(v, Outputs(t))
    BY <1>1, <1>4, <2>1 DEF Fire, Weight, OnTheWay
  <2>3. CASE v \in Outputs(t)
    BY <2>1, <2>2, <2>3 DEF Weight
  <2>4. CASE v \notin Outputs(t) /\ m[v] = 1
    BY <2>1, <2>2, <2>4 DEF Weight
  <2>5. CASE v \notin Outputs(t) /\ m[v] # 1
    <3>1. PICK g \in firing_seq \ rem : v \in Outputs(g)
      BY <1>1, <1>3, <2>5 DEF SearchInv
    <3>2. g \in firing_seq' \ rem' /\ v \in Outputs(g)'
      BY <1>1, <2>5, <3>1, WayUnchanged
    <3> QED
      BY <3>2
  <2> QED
    BY <2>3, <2>4, <2>5
<1> QED
  BY <1>1, <1>3, <1>4, <1>5, <1>6 DEF SearchInv, Dofs

(* When a pass is over, and the loop with it, the controller is active.    *)
LEMMA EndPassGrants ==
  ASSUME IInv, SearchInv, EndPass
  PROVE  /\ SearchInv'
         /\ pc' = "idle" => m[target] = 1
<1>1. /\ pc = "fire" /\ pc' \in {"fire", "search", "idle"}
      /\ UNCHANGED <<net, target, m>>
      /\ pc' = "idle" => firing_seq \ rem = {}
      /\ pc' = "fire" => /\ firing_seq' = firing_seq \ rem
                         /\ pass' = firing_seq' /\ rem' = {}
  BY DEF EndPass
<1>2. PICK v : v = target
  OBVIOUS
<1>3. /\ v \notin Dofs /\ \A t \in firing_seq : OnTheWay(t, v)
      /\ m[v] = 1 \/ \E g \in firing_seq \ rem : v \in Outputs(g)
  BY <1>1, <1>2 DEF SearchInv
<1>4. pc' = "idle" => m[target] = 1
  BY <1>1, <1>2, <1>3
<1>5. ASSUME pc' = "fire" PROVE SearchInv'
  <2>1. /\ firing_seq' = firing_seq \ rem /\ pass' = firing_seq' /\ rem' = {}
        /\ m' = m /\ target' = v
    BY <1>1, <1>2, <1>5
  <2>2. \A t \in firing_seq' : OnTheWay(t, v)'
    BY <1>1, <1>3, <2>1, WayUnchanged
  <2>3. m'[v] = 1 \/ \E g \in firing_seq' \ rem' : v \in Outputs(g)'
    BY <1>1, <1>3, <2>1, WayUnchanged
  <2> QED
    BY <1>3, <2>1, <2>2, <2>3 DEF SearchInv, Dofs
<1> QED
  BY <1>4, <1>5 DEF SearchInv

LEMMA NextKeepsSearchInv == IInv /\ SearchInv /\ [Next]_vars => SearchInv'
<1> SUFFICES ASSUME IInv, SearchInv, [Next]_vars PROVE SearchInv'
  OBVIOUS
<1>1. CASE Search
  BY <1>1, SearchKeepsSearchInv
<1>2. CASE FireNext
  BY <1>2, FireKeepsSearchInv
<1>3. CASE EndPass
  BY <1>3, EndPassGrants
<1>4. CASE SkipNext \/ UNCHANGED vars
  <2>1. UNCHANGED <<net, pc, target, m, firing_seq, rem>> /\ pass' \subseteq pass
    BY <1>4 DEF SkipNext, vars, net
  <2>2. PICK v : v = target
    OBVIOUS
  <2> SUFFICES ASSUME pc = "fire" PROVE SearchInv'
    BY <2>1 DEF SearchInv
  <2>3. /\ v \notin Dofs /\ \A t \in firing_seq : OnTheWay(t, v)
        /\ m[v] = 1 \/ \E g \in firing_seq \ rem : v \in Outputs(g)
        /\ pass \subseteq firing_seq \ rem
    BY <2>2 DEF SearchInv
  <2>4. \A t \in firing_seq' : OnTheWay(t, v)'
    BY <2>1, <2>3, WayUnchanged
  <2>5. m'[v] = 1 \/ \E g \in firing_seq' \ rem' : v \in Outputs(g)'
    BY <2>1, <2>3, WayUnchanged
  <2> QED
    BY <2>1, <2>2, <2>3, <2>4, <2>5 DEF SearchInv, Dofs
<1>5. CASE pc' # "fire"
  BY <1>5 DEF SearchInv
<1> QED
  BY <1>1, <1>2, <1>3, <1>4, <1>5
     DEF Next, Callback, RegisterController, ActivateController, SeedRGraph,
         ExpandRGraph, AlreadyMarked

(* In every reachable state the loop is on the way to what was asked for.  *)
LEMMA LoopInvariant == Spec => [](IInv /\ SearchInv)
<1>1. Init => SearchInv
  BY DEF Init, SearchInv
<1> QED
  BY <1>1, NextKeepsSearchInv, InductiveInvariant, PTL DEF Spec

(* Between two callbacks the last controller asked for is active.          *)
GrantInv ==
  (pc \in {"idle", "seed_rgraph", "expand_rgraph"} /\ target \in Places \ Dofs) =>
    marking[target] = 1

LEMMA NextKeepsGrantInv ==
  IInv /\ SearchInv /\ SearchFinds /\ GrantInv /\ [Next]_vars => GrantInv'
<1> SUFFICES ASSUME IInv, SearchInv, SearchFinds, GrantInv, [Next]_vars
             PROVE  GrantInv'
  OBVIOUS
<1>1. CASE \E req \in Requests : RegisterController(req)
  <2>1. PICK new \in Int :
          /\ new = NDof + Len(registry) /\ pc = "idle" /\ target' = target
          /\ marking' = [p \in 0 .. new |-> IF p = new THEN 0 ELSE marking[p]]
    BY <1>1, RegistryLength, NDofAssumption DEF RegisterController, IInv
  <2>2. Places' \subseteq Int /\ \A p \in Places' : p >= 0
    BY DEF Places
  <2> SUFFICES ASSUME target' \in Places' \ Dofs' PROVE marking'[target'] = 1
    BY DEF GrantInv
  <2>3. target \in Places \ Dofs
    BY <2>1, <2>2 DEF IInv, TypeOK, NoPlace, Dofs
  <2>4. target \in 0 .. new /\ target # new
    BY <2>1, <2>3, RegistryLength, NDofAssumption DEF Places, IInv
  <2>5. marking[target] = 1
    BY <2>1, <2>3 DEF GrantInv
  <2> QED
    BY <2>1, <2>4, <2>5
<1>2. CASE SeedRGraph \/ ExpandRGraph \/ UNCHANGED vars
  BY <1>2 DEF SeedRGraph, ExpandRGraph, vars, net, GrantInv, Places, Dofs
<1>3. CASE AlreadyMarked
  BY <1>3 DEF AlreadyMarked, MarkedFlag, GrantInv, Places, Dofs
<1>4. CASE Search
  <2>1. /\ pc = "search" /\ UNCHANGED <<net, marking, target>> /\ target \notin Dofs
        /\ pc' = IF FiringSet(target, marking) = {} THEN "idle" ELSE "fire"
    BY <1>4 DEF Search, MarkedFlag
  <2>2. FiringSet(target, marking) = {} => marking[target] = 1
    BY <2>1 DEF SearchFinds
  <2> QED
    BY <2>1, <2>2 DEF GrantInv
<1>5. CASE EndPass
  <2>1. pc' = "idle" => m[target] = 1
    BY <1>5, EndPassGrants
  <2>2. UNCHANGED target /\ pc' \in {"fire", "search", "idle"} /\ (pc' = "idle" => marking' = m)
    BY <1>5 DEF EndPass
  <2> QED
    BY <2>1, <2>2 DEF GrantInv
<1>6. CASE pc' \in {"search", "fire"}
  BY <1>6 DEF GrantInv
<1> QED
  BY <1>1, <1>2, <1>3, <1>4, <1>5, <1>6
     DEF Next, Callback, ActivateController, FireNext, SkipNext

(* For any registrations, when get_firing_pn returns the controller asked  *)
(* for is active, provided the search finds a way to those that are not.   *)
(* Nothing else can go wrong: neither the ignored T-invariants nor the     *)
(* transitions skipped in a pass nor a recursion after a stuck one.        *)
THEOREM GrantedIfFound == Spec /\ []SearchFinds => []ControllerGranted
<1>1. Init => GrantInv
  BY NDofAssumption DEF Init, GrantInv, NoPlace, Places, Dofs
<1>2. GrantInv => ControllerGranted
  BY DEF GrantInv, ControllerGranted
<1> QED
  BY <1>1, <1>2, NextKeepsGrantInv, LoopInvariant, PTL DEF Spec

-----------------------------------------------------------------------------
(* The controller implements the arbiter.                                  *)

(* The state of the arbiter that a state of the controller stands for.     *)
DepsBar == [p \in Places |-> Holds(p)]
OwnerBar == [d \in Dofs |-> OwnerIn(d, m)]
AskedBar == IF pc \in {"search", "fire"} THEN target ELSE NoPlace

(* The owner of a DOF is the one marked place that holds it.               *)
LEMMA OwnerFacts ==
  ASSUME NEW mk, GoodMarking(mk), NEW d \in Dofs
  PROVE  /\ OwnerIn(d, mk) \in Places /\ mk[OwnerIn(d, mk)] = 1 /\ d \in Holds(OwnerIn(d, mk))
         /\ \A q \in Places : mk[q] = 1 /\ d \in Holds(q) => OwnerIn(d, mk) = q
<1>1. DOMAIN mk = Places /\ \A q \in Places : mk[q] \in {0, 1}
  BY DEF GoodMarking
<1>2. PICK p \in Places : Holders(d, mk) = {p}
  BY <1>1 DEF GoodMarking, IsExclusive
<1>3. p \in DOMAIN mk /\ d \in Holds(p) /\ mk[p] > 0
  BY <1>2 DEF Holders
<1>4. \A q \in DOMAIN mk : d \in Holds(q) /\ mk[q] > 0 => q = p
  BY <1>2 DEF Holders
<1>5. OwnerIn(d, mk) = p
  BY <1>3, <1>4 DEF OwnerIn
<1> QED
  BY <1>1, <1>3, <1>4, <1>5

(* An active controller owns all the DOFs it depends on.                   *)
LEMMA OwnersWhole ==
  ASSUME NetOK, NEW mk, GoodMarking(mk), NEW p \in Places, mk[p] = 1
  PROVE  {d \in Dofs : OwnerIn(d, mk) = p} = Holds(p)
<1>1. Holds(p) \subseteq Dofs
  BY DEF NetOK
<1> QED
  BY <1>1, OwnerFacts

(* A firing moves exactly the DOFs of its controller, to it or from it.    *)
LEMMA OwnersMove ==
  ASSUME TypeOK, NetOK, NEW mk, GoodMarking(mk), NEW t \in Transitions, IsEnabled(t, mk),
         NEW new, new = Fire(t, mk), NEW c, c = Moved(t)
  PROVE  /\ GoodMarking(new)
         /\ c \in Places \ Dofs
         /\ \A d \in Dofs : OwnerIn(d, new) # OwnerIn(d, mk) <=> d \in Holds(c)
         /\ IF IsEnable(t) THEN new[c] = 1
                           ELSE mk[c] = 1 /\ \A d \in Holds(c) : OwnerIn(d, mk) = c
<1>1. GoodMarking(new)
  BY FireKeepsGood
<1>2. PICK k : k = ControllerOf(t) /\ c = Place(k)
  BY DEF Moved
<1>3. c \in Places \ Dofs /\ Holds(c) \subseteq Dofs
  BY TransitionKind DEF Moved, NetOK
<1>4. ASSUME IsEnable(t)
      PROVE  /\ new[c] = 1
             /\ \A d \in Dofs : OwnerIn(d, new) # OwnerIn(d, mk) <=> d \in Holds(c)
  <2>1. /\ mk[c] = 0 /\ \A q \in Used(k) : Holds(q) \subseteq Holds(c)
        /\ new = [p \in Places |-> IF p = c THEN 1 ELSE IF p \in Used(k) THEN 0 ELSE mk[p]]
    BY <1>2, <1>4, EnableMoves
  <2>2. new[c] = 1
    BY <1>3, <2>1
  <2>3. ASSUME NEW d \in Dofs
        PROVE  OwnerIn(d, new) # OwnerIn(d, mk) <=> d \in Holds(c)
    <3>1. PICK o \in Places : o = OwnerIn(d, mk) /\ mk[o] = 1 /\ d \in Holds(o)
      BY OwnerFacts
    <3>2. CASE d \in Holds(c)
      <4>1. OwnerIn(d, new) = c
        BY <1>1, <1>3, <2>2, <3>2, OwnerFacts
      <4> QED
        BY <2>1, <3>1, <3>2, <4>1
    <3>3. CASE d \notin Holds(c)
      <4>1. new[o] = 1
        BY <2>1, <3>1, <3>3
      <4>2. OwnerIn(d, new) = o
        BY <1>1, <3>1, <4>1, OwnerFacts
      <4> QED
        BY <3>1, <3>3, <4>2
    <3> QED
      BY <3>2, <3>3
  <2> QED
    BY <2>2, <2>3
<1>5. ASSUME ~IsEnable(t)
      PROVE  /\ mk[c] = 1 /\ \A d \in Holds(c) : OwnerIn(d, mk) = c
             /\ \A d \in Dofs : OwnerIn(d, new) # OwnerIn(d, mk) <=> d \in Holds(c)
  <2>1. /\ mk[c] = 1 /\ \A q \in Used(k) : mk[q] = 0
        /\ new = [p \in Places |-> IF p = c THEN 0 ELSE IF p \in Used(k) THEN 1 ELSE mk[p]]
    BY <1>2, <1>5, DisableMoves
  <2>2. \A d \in Holds(c) : OwnerIn(d, mk) = c
    BY <1>3, <2>1, OwnerFacts
  <2>3. ASSUME NEW d \in Dofs
        PROVE  OwnerIn(d, new) # OwnerIn(d, mk) <=> d \in Holds(c)
    <3>1. PICK o \in Places : o = OwnerIn(d, mk) /\ mk[o] = 1 /\ d \in Holds(o)
      BY OwnerFacts
    <3>2. CASE d \in Holds(c)
      <4>1. new[c] = 0
        BY <1>3, <2>1
      <4>2. new[OwnerIn(d, new)] = 1
        BY <1>1, OwnerFacts
      <4> QED
        BY <2>2, <3>2, <4>1, <4>2
    <3>3. CASE d \notin Holds(c)
      <4>1. new[o] = 1
        BY <2>1, <3>1, <3>3
      <4>2. OwnerIn(d, new) = o
        BY <1>1, <3>1, <4>1, OwnerFacts
      <4> QED
        BY <3>1, <3>3, <4>2
    <3> QED
      BY <3>2, <3>3
  <2> QED
    BY <2>1, <2>2, <2>3
<1> QED
  BY <1>1, <1>3, <1>4, <1>5

(* The arbiter's view changes only with the net, the working marking and   *)
(* what is asked for.                                                      *)
LEMMA ViewUnchanged ==
  ASSUME UNCHANGED net
  PROVE  /\ DepsBar' = DepsBar
         /\ \A d, mk : OwnerIn(d, mk)' = OwnerIn(d, mk)
         /\ UNCHANGED m => OwnerBar' = OwnerBar
<1>1. \A p : Holds(p)' = Holds(p)
  BY DEF net, Holds, Dofs
<1>2. Places' = Places /\ Dofs' = Dofs
  BY NetUnchanged DEF Dofs
<1>3. DepsBar' = DepsBar
  BY <1>1, <1>2 DEF DepsBar
<1>4. \A d, mk : OwnerIn(d, mk)' = OwnerIn(d, mk)
  BY <1>1 DEF OwnerIn
<1>5. UNCHANGED m => OwnerBar' = OwnerBar
  BY <1>2, <1>4 DEF OwnerBar
<1> QED
  BY <1>3, <1>4, <1>5

(* A registration adds a controller that owns nothing yet.                 *)
LEMMA RegisterBar ==
  ASSUME IInv, IInv', NEW req \in Requests, RegisterController(req)
  PROVE  Abstract!Register
<1>1. PICK new, last : new = NDof + Len(registry) /\ last = Len(registry) + 1
  OBVIOUS
<1>2. /\ new \notin Places /\ Places' = Places \cup {new}
      /\ \A p \in Places : Holds(p)' = Holds(p)
  BY <1>1, RegistrationExtendsNet DEF IInv
<1>3. PICK old, mk : old = m /\ mk = m'
  OBVIOUS
<1>4. /\ mk = [p \in 0 .. new |-> IF p = new THEN 0 ELSE old[p]]
      /\ GoodMarking(old) /\ AskedBar = NoPlace /\ AskedBar' = NoPlace
  BY <1>1, <1>3 DEF RegisterController, IInv, AskedBar
<1>5. DOMAIN mk = Places'
  <2>1. GoodMarking(m)'
    BY DEF IInv
  <2> QED
    BY <1>3, <2>1 DEF GoodMarking
<1>6. ASSUME NEW d \in Dofs
      PROVE  OwnerIn(d, m)' = OwnerIn(d, m)
  <2>1. PICK o \in Places : o = OwnerIn(d, old) /\ old[o] = 1 /\ d \in Holds(o)
    BY <1>4, OwnerFacts
  <2>2. \A q \in Places : old[q] = 1 /\ d \in Holds(q) => q = o
    BY <1>4, <2>1, OwnerFacts
  <2>3. \A q \in Places : old[q] \in {0, 1}
    BY <1>4 DEF GoodMarking
  <2>4. mk[new] = 0 /\ \A q \in Places : mk[q] = old[q]
    BY <1>2, <1>4, <1>5
  <2>5. \A q \in DOMAIN mk : (d \in Holds(q)' /\ mk[q] > 0) <=> q = o
    BY <1>2, <1>5, <2>1, <2>2, <2>3, <2>4
  <2>6. (CHOOSE q \in DOMAIN mk : d \in Holds(q)' /\ mk[q] > 0) = o
    BY <1>2, <1>5, <2>1, <2>5
  <2>7. OwnerIn(d, m)' = o
    BY <1>3, <2>6 DEF OwnerIn
  <2> QED
    BY <1>3, <2>1, <2>7
<1>7. OwnerBar' = OwnerBar
  BY <1>6 DEF OwnerBar, Dofs
<1>8. /\ DOMAIN DepsBar' = DOMAIN DepsBar \cup {new} /\ new \notin DOMAIN DepsBar
      /\ \A q \in DOMAIN DepsBar : DepsBar'[q] = DepsBar[q]
  BY <1>2 DEF DepsBar
<1>9. DepsBar'[new] \in (SUBSET Dofs) \ {{}}
  <2>1. \A p \in Places' : Holds(p)' # {} /\ Holds(p)' \subseteq Dofs
    BY DEF IInv, NetOK, Dofs
  <2> QED
    BY <1>2, <2>1 DEF DepsBar
<1> QED
  BY <1>4, <1>7, <1>8, <1>9 DEF Abstract!Register, DepsBar, OwnerBar, AskedBar

(* A firing is one hand-over.                                              *)
LEMMA FireBar ==
  ASSUME IInv, SearchInv, FireNext
  PROVE  Abstract!HandOver
<1>1. PICK t \in pass :
        /\ pc = "fire" /\ pc' = pc /\ IsEnabled(t, m) /\ m' = Fire(t, m)
        /\ UNCHANGED <<net, target>>
  BY DEF FireNext
<1>2. /\ TypeOK /\ NetOK /\ target \in Places /\ t \in Transitions
      /\ target \notin Dofs /\ OnTheWay(t, target)
  BY <1>1 DEF IInv, SearchInv, TypeOK
<1>3. PICK mk, new, c : mk = m /\ new = Fire(t, mk) /\ c = Moved(t) /\ GoodMarking(mk)
  BY DEF IInv
<1>4. /\ GoodMarking(new) /\ c \in Places \ Dofs
      /\ \A d \in Dofs : OwnerIn(d, new) # OwnerIn(d, mk) <=> d \in Holds(c)
      /\ IF IsEnable(t) THEN new[c] = 1
                        ELSE mk[c] = 1 /\ \A d \in Holds(c) : OwnerIn(d, mk) = c
  BY <1>1, <1>2, <1>3, OwnersMove
<1>5. PICK own, own2, deps :
        /\ own = [d \in Dofs |-> OwnerIn(d, mk)]
        /\ own2 = [d \in Dofs |-> OwnerIn(d, new)]
        /\ deps = [p \in Places |-> Holds(p)]
  OBVIOUS
<1>6. OwnerBar = own /\ DepsBar = deps /\ AskedBar = target
  BY <1>1, <1>3, <1>5 DEF OwnerBar, DepsBar, AskedBar
<1>7. OwnerBar' = own2 /\ DepsBar' = deps /\ AskedBar' = target
  <2>1. \A d : OwnerIn(d, new)' = OwnerIn(d, new)
    BY <1>1, ViewUnchanged
  <2>2. DepsBar' = DepsBar
    BY <1>1, ViewUnchanged
  <2>3. m' = new
    BY <1>1, <1>3
  <2>4. OwnerBar' = own2
    BY <1>5, <2>1, <2>3 DEF OwnerBar, Dofs
  <2> QED
    BY <1>1, <1>6, <2>2, <2>4 DEF AskedBar
<1>8. Holds(c) \subseteq Dofs
  BY <1>2, <1>4 DEF NetOK
<1>9. own2 \in [Dofs -> DOMAIN deps]
  BY <1>4, <1>5, OwnerFacts
<1>10. ASSUME NEW e \in Dofs
       PROVE  {d \in Dofs : own2[d] = own2[e]} = deps[own2[e]]
  <2>1. PICK p \in Places : p = own2[e] /\ p = OwnerIn(e, new) /\ new[p] = 1
    BY <1>4, <1>5, OwnerFacts
  <2>2. {d \in Dofs : OwnerIn(d, new) = p} = Holds(p)
    BY <1>2, <1>4, <2>1, OwnersWhole
  <2> QED
    BY <1>5, <2>1, <2>2
<1>11. {d \in Dofs : own2[d] # own[d]} = deps[c]
  BY <1>4, <1>5, <1>8
<1>12. {d \in Dofs : own[d] = c} = deps[c] \/ {d \in Dofs : own2[d] = c} = deps[c]
  BY <1>2, <1>3, <1>4, <1>5, OwnersWhole
<1>13. ASSUME NEW d \in Dofs, own2[d] # own[d]
       PROVE  deps[own[d]] \cap deps[target] # {}
  <2>1. d \in Holds(c)
    BY <1>4, <1>5, <1>13
  <2>2. own[d] \in Places /\ d \in Holds(own[d])
    BY <1>3, <1>5, OwnerFacts
  <2>3. CASE IsEnable(t)
    <3>1. d \in Holds(target)
      BY <1>2, <1>3, <2>1, <2>3 DEF OnTheWay
    <3> QED
      BY <1>2, <1>5, <2>2, <3>1
  <2>4. CASE ~IsEnable(t)
    <3>1. own[d] = c
      BY <1>4, <1>5, <2>1, <2>4
    <3>2. Holds(c) \cap Holds(target) # {}
      BY <1>2, <1>3 DEF OnTheWay
    <3> QED
      BY <1>2, <1>4, <1>5, <3>1, <3>2
  <2> QED
    BY <2>3, <2>4
<1>14. target \in DOMAIN deps \ Dofs /\ c \in DOMAIN deps \ Dofs
  BY <1>2, <1>4, <1>5
<1>15. Abstract!Whole(own2)
  BY <1>6, <1>10 DEF Abstract!Whole, Abstract!Owned, DepsBar
<1>16. Abstract!Owned(c, own) = deps[c] \/ Abstract!Owned(c, own2) = deps[c]
  BY <1>12 DEF Abstract!Owned
<1>17. \A d \in Dofs : own2[d] # own[d] => Abstract!InTheWay(own[d])
  BY <1>6, <1>13 DEF Abstract!InTheWay, DepsBar, AskedBar
<1> QED
  BY <1>6, <1>7, <1>9, <1>11, <1>14, <1>15, <1>16, <1>17
     DEF Abstract!HandOver, DepsBar, OwnerBar, AskedBar

(* The initial state: every DOF is free.                                   *)
LEMMA InitBar == Init => Abstract!Init
<1> SUFFICES ASSUME Init PROVE Abstract!Init
  OBVIOUS
<1>1. Places = Dofs /\ \A p \in Dofs : Holds(p) = {p}
  BY NDofAssumption DEF Init, Places, Dofs, Holds
<1>2. m = [p \in Dofs |-> 1]
  BY DEF Init
<1>3. \A d \in Dofs : OwnerIn(d, m) = d
  BY <1>1, <1>2 DEF OwnerIn
<1>4. AskedBar = NoPlace
  BY DEF Init, AskedBar
<1> QED
  BY <1>1, <1>3, <1>4 DEF Abstract!Init, AskedBar

(* A request of the arbiter.                                               *)
LEMMA AskBar ==
  ASSUME IInv, NEW p \in Places, ActivateController(p)
  PROVE  Abstract!Ask
<1>1. UNCHANGED net /\ UNCHANGED m /\ AskedBar = NoPlace /\ AskedBar' = p
  BY DEF ActivateController, AskedBar, firing
<1>2. DepsBar' = DepsBar /\ OwnerBar' = OwnerBar
  BY <1>1, ViewUnchanged
<1>3. p \in DOMAIN DepsBar
  BY DEF DepsBar
<1> QED
  BY <1>1, <1>2, <1>3 DEF Abstract!Ask, DepsBar, OwnerBar, AskedBar

(* Whenever get_firing_pn returns, the request is over; what was asked for *)
(* is a DOF or has all its DOFs, if it is marked.                          *)
LEMMA LeaveBar ==
  ASSUME IInv, pc \in {"search", "fire"}, pc' = "idle", UNCHANGED net, UNCHANGED m
  PROVE  /\ Abstract!Leave
         /\ (target \in Dofs \/ m[target] = 1) => Abstract!Granted
<1>1. TypeOK /\ NetOK /\ GoodMarking(m) /\ target \in Places
  BY DEF IInv
<1>2. AskedBar = target /\ AskedBar' = NoPlace
  BY DEF AskedBar
<1>3. target # NoPlace
  BY <1>1 DEF Places, NoPlace
<1>4. DepsBar' = DepsBar /\ OwnerBar' = OwnerBar
  BY ViewUnchanged
<1>5. Abstract!Leave
  BY <1>2, <1>3, <1>4 DEF Abstract!Leave, DepsBar, OwnerBar, AskedBar
<1>6. ASSUME m[target] = 1
      PROVE  {d \in Dofs : OwnerBar[d] = target} = DepsBar[target]
  <2>1. {d \in Dofs : OwnerIn(d, m) = target} = Holds(target)
    BY <1>1, <1>6, OwnersWhole
  <2> QED
    BY <1>1, <2>1 DEF OwnerBar, DepsBar
<1>7. (target \in Dofs \/ m[target] = 1) => Abstract!Granted
  BY <1>2, <1>6 DEF Abstract!Granted, Abstract!Owned, DepsBar, OwnerBar, AskedBar
<1> QED
  BY <1>5, <1>7

(* Every step of the controller is a step of the arbiter or leaves it      *)
(* alone; the request returns as promised if the search finds a way.       *)
LEMMA StepBar ==
  ASSUME IInv, SearchInv, IInv', [Next]_vars
  PROVE  /\ \/ Abstract!Register \/ Abstract!Ask \/ Abstract!HandOver \/ Abstract!Leave
            \/ UNCHANGED Abstract!vars
         /\ SearchFinds => \/ Abstract!Register \/ Abstract!Ask \/ Abstract!HandOver
                           \/ Abstract!Return
                           \/ UNCHANGED Abstract!vars
<1>1. CASE \E req \in Requests : RegisterController(req)
  BY <1>1, RegisterBar
<1>2. CASE \E p \in Places : ActivateController(p)
  BY <1>2, AskBar
<1>3. CASE FireNext
  BY <1>3, FireBar
<1>4. ASSUME UNCHANGED net, UNCHANGED m, AskedBar' = AskedBar
      PROVE  UNCHANGED Abstract!vars
  <2>1. DepsBar' = DepsBar /\ OwnerBar' = OwnerBar
    BY <1>4, ViewUnchanged
  <2> QED
    BY <1>4, <2>1 DEF Abstract!vars, DepsBar, OwnerBar, AskedBar
<1>5. CASE SeedRGraph \/ ExpandRGraph \/ SkipNext \/ UNCHANGED vars
  <2>1. UNCHANGED net /\ UNCHANGED m /\ AskedBar' = AskedBar
    BY <1>5 DEF SeedRGraph, ExpandRGraph, SkipNext, vars, net, firing, AskedBar
  <2> QED
    BY <1>4, <2>1
<1>6. CASE AlreadyMarked
  <2>1. /\ pc = "search" /\ pc' = "idle" /\ UNCHANGED net /\ UNCHANGED m
        /\ target \in Dofs
    BY <1>6 DEF AlreadyMarked, MarkedFlag, firing
  <2>2. Abstract!Leave /\ Abstract!Granted
    BY <2>1, LeaveBar
  <2> QED
    BY <2>2 DEF Abstract!Return
<1>7. CASE Search
  <2>1. /\ pc = "search" /\ UNCHANGED net /\ UNCHANGED target /\ UNCHANGED m
        /\ target \notin Dofs /\ m = marking
        /\ pc' = IF FiringSet(target, marking) = {} THEN "idle" ELSE "fire"
    BY <1>7 DEF Search, MarkedFlag, IInv
  <2>2. CASE FiringSet(target, marking) = {}
    <3>1. Abstract!Leave /\ (m[target] = 1 => Abstract!Granted)
      BY <2>1, <2>2, LeaveBar
    <3>2. SearchFinds => m[target] = 1
      BY <2>1, <2>2 DEF SearchFinds
    <3> QED
      BY <3>1, <3>2 DEF Abstract!Return
  <2>3. CASE FiringSet(target, marking) # {}
    <3>1. AskedBar' = AskedBar
      BY <2>1, <2>3 DEF AskedBar
    <3> QED
      BY <1>4, <2>1, <3>1
  <2> QED
    BY <2>2, <2>3
<1>8. CASE EndPass
  <2>1. /\ pc = "fire" /\ pc' \in {"fire", "search", "idle"}
        /\ UNCHANGED net /\ UNCHANGED target /\ UNCHANGED m
    BY <1>8 DEF EndPass
  <2>2. CASE pc' = "idle"
    <3>1. m[target] = 1
      BY <1>8, <2>2, EndPassGrants
    <3>2. Abstract!Leave /\ Abstract!Granted
      BY <2>1, <2>2, <3>1, LeaveBar
    <3> QED
      BY <3>2 DEF Abstract!Return
  <2>3. CASE pc' # "idle"
    <3>1. AskedBar' = AskedBar
      BY <2>1, <2>3 DEF AskedBar
    <3> QED
      BY <1>4, <2>1, <3>1
  <2> QED
    BY <2>2, <2>3
<1> QED
  BY <1>1, <1>2, <1>3, <1>5, <1>6, <1>7, <1>8 DEF Next, Callback

(* For any DOFs and registrations the controller hands over DOFs whole, to *)
(* or from one controller at a time, and only those of owners that share   *)
(* one with the controller asked for.                                      *)
THEOREM ImplementsBestEffort == Spec => Abstract!BestEffort
<1>1. Init => Abstract!Init
  BY InitBar
<1>2. IInv /\ SearchInv /\ IInv' /\ [Next]_vars =>
        [Abstract!Register \/ Abstract!Ask \/ Abstract!HandOver
           \/ Abstract!Leave]_(Abstract!vars)
  BY StepBar
<1> QED
  BY <1>1, <1>2, LoopInvariant, PTL DEF Spec, Abstract!BestEffort

(* It is the arbiter, which also gives the controller asked for its DOFs,  *)
(* if the search finds a way whenever that controller is not active.       *)
THEOREM ImplementsArbiter == Spec /\ []SearchFinds => Arbitrates
<1>1. Init => Abstract!Init
  BY InitBar
<1>2. IInv /\ SearchInv /\ SearchFinds /\ IInv' /\ [Next]_vars =>
        [Abstract!Next]_(Abstract!vars)
  BY StepBar DEF Abstract!Next
<1> QED
  BY <1>1, <1>2, LoopInvariant, PTL DEF Spec, Arbitrates, Abstract!Spec
=============================================================================
