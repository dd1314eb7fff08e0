--------------------------- MODULE PrimitivesProofs ---------------------------
(* Proofs about the primitives and the controllers they share, for every   *)
(* set and every number of goals, if an estimate comes in between an abort *)
(* and the next goal (FrequentSafety).                                     *)
EXTENDS Primitives, SequenceTheorems, TLAPS

-----------------------------------------------------------------------------
(* Plans: what a callback leaves in todo is to agree with what the node    *)
(* then wants.                                                             *)

IsCall(x, c) == x.do = "set" /\ x.controller = c
NotCalled(q, c) == \A i \in DOMAIN q : ~IsCall(q[i], c)
NoCalls(q) == \A i \in DOMAIN q : q[i].do # "set"

(* The last call to a controller says whether it is wanted ...             *)
LastAgrees(q, c, wanted) ==
  \A i \in DOMAIN q :
    (IsCall(q[i], c) /\ \A j \in DOMAIN q : j > i => ~IsCall(q[j], c))
      => (q[i].enable = TRUE <=> c \in wanted)
Off(c) == Set(c, FALSE)
(* ... and what is enabled although it is not wanted is disabled later.    *)
UndoneLater(q, c, wanted) ==
  \A i \in DOMAIN q :
    (IsCall(q[i], c) /\ q[i].enable = TRUE)
      => (c \in wanted \/ \E j \in DOMAIN q : j > i /\ q[j] = Off(c))

(* The controllers that updateControllers calls, and those it enables.     *)
Called(n, ua) ==
  CASE n = "go2point" -> {IF ua THEN "UALF" ELSE "FALF", "HDG", "DEPTH"}
    [] n = "dynamic_positioning" -> {"FADP", "HDG"}
    [] n = "docking" -> {"HDG"}
    [] n = "track_diver" -> {"VT"}
Enabling(n, s, ua) == {c \in Controllers : Set(c, TRUE) \in ToSet(Update(n, s, ua))}

IsPlan(q, n, s, ua) ==
  /\ \A i \in DOMAIN q : q[i].do = "set" => q[i].controller \in Called(n, ua)
  /\ \A c \in Controllers : LastAgrees(q, c, Enabling(n, s, ua))
                              /\ UndoneLater(q, c, Enabling(n, s, ua))
  /\ \A c \in Called(n, ua) :
       /\ ~NotCalled(q, c)
       /\ c \in Enabling(n, s, ua) \/ \E i \in DOMAIN q : q[i] = Off(c)

LEMMA CalledIsController ==
  ASSUME NEW n \in Nodes, NEW ua \in BOOLEAN
  PROVE  Called(n, ua) \subseteq Controllers
BY DEF Nodes, Called, Controllers

LEMMA CallIsSet ==
  ASSUME NEW x \in Item, x.do = "set"
  PROVE  x = Set(x.controller, x.enable)
BY DEF Set, Item, Part

LEMMA SetIsCall ==
  ASSUME NEW c \in Controllers, NEW b \in BOOLEAN
  PROVE  /\ Set(c, b) \in Item /\ Set(c, b).do = "set" /\ Set(c, b).controller = c
         /\ Set(c, b).enable = b
BY DEF Set, Item

(* What there is to know of a sequence of calls to different controllers.  *)
CallsOnce(q, cs) ==
  /\ q \in Seq(Item)
  /\ \A i \in DOMAIN q : q[i].do = "set" /\ q[i].controller \in cs
  /\ \A c \in cs : \E i \in DOMAIN q : q[i].controller = c
  /\ \A i, j \in DOMAIN q : q[i].controller = q[j].controller => i = j

LEMMA OneCall ==
  ASSUME NEW c \in Controllers, NEW a \in BOOLEAN
  PROVE  CallsOnce(<< Set(c, a) >>, {c})
<1> DEFINE q == << Set(c, a) >>
<1>1. DOMAIN q = {1} /\ q[1] = Set(c, a)
  OBVIOUS
<1>2. q \in Seq(Item)
  BY SetIsCall
<1> HIDE DEF q
<1> QED BY <1>1, <1>2, SetIsCall DEF CallsOnce, q

LEMMA TwoCalls ==
  ASSUME NEW c \in Controllers, NEW d \in Controllers, c # d, NEW a \in BOOLEAN, NEW b \in BOOLEAN
  PROVE  CallsOnce(<< Set(c, a), Set(d, b) >>, {c, d})
<1> DEFINE q == << Set(c, a), Set(d, b) >>
<1>1. DOMAIN q = {1, 2} /\ q[1] = Set(c, a) /\ q[2] = Set(d, b)
  OBVIOUS
<1>2. q \in Seq(Item)
  BY SetIsCall
<1> HIDE DEF q
<1> QED BY <1>1, <1>2, SetIsCall DEF CallsOnce, q

LEMMA ThreeCalls ==
  ASSUME NEW c \in Controllers, NEW d \in Controllers, NEW e \in Controllers,
         c # d, c # e, d # e, NEW a \in BOOLEAN, NEW b \in BOOLEAN, NEW f \in BOOLEAN
  PROVE  CallsOnce(<< Set(c, a), Set(d, b), Set(e, f) >>, {c, d, e})
<1> DEFINE q == << Set(c, a), Set(d, b), Set(e, f) >>
<1>1. DOMAIN q = {1, 2, 3} /\ q[1] = Set(c, a) /\ q[2] = Set(d, b) /\ q[3] = Set(e, f)
  OBVIOUS
<1>2. q \in Seq(Item)
  BY SetIsCall
<1> HIDE DEF q
<1> QED BY <1>1, <1>2, SetIsCall DEF CallsOnce, q

(* updateControllers calls each of its controllers once.                   *)
LEMMA UpdateType ==
  ASSUME NEW n \in Nodes, NEW s, NEW ua \in BOOLEAN
  PROVE  CallsOnce(Update(n, s, ua), Called(n, ua))
<1> DEFINE first == {"UALF", "FALF"} \cap s # {}
           follower == IF ua THEN "UALF" ELSE "FALF"
<1>1. CASE n = "go2point"
  <2>1. /\ Update(n, s, ua) = << Set(follower, first), Set("HDG", "HDG" \in s),
                                 Set("DEPTH", "DEPTH" \in s) >>
        /\ Called(n, ua) = {follower, "HDG", "DEPTH"}
    BY <1>1 DEF Update, PointCalls, Called
  <2>2. /\ follower \in Controllers /\ "HDG" \in Controllers /\ "DEPTH" \in Controllers
        /\ follower # "HDG" /\ follower # "DEPTH"
    BY DEF Controllers
  <2>3. first \in BOOLEAN /\ ("HDG" \in s) \in BOOLEAN /\ ("DEPTH" \in s) \in BOOLEAN
    OBVIOUS
  <2> HIDE DEF first, follower
  <2>4. CallsOnce(<< Set(follower, first), Set("HDG", "HDG" \in s), Set("DEPTH", "DEPTH" \in s) >>,
                  {follower, "HDG", "DEPTH"})
    BY <2>2, <2>3, ThreeCalls, Zenon
  <2> QED BY <2>1, <2>4, Zenon
<1>2. CASE n = "dynamic_positioning"
  <2>1. "FADP" \in Controllers /\ "HDG" \in Controllers /\ "FADP" # "HDG"
    BY DEF Controllers
  <2>2. ("FADP" \in s) \in BOOLEAN
    OBVIOUS
  <2>3. CallsOnce(<< Set("FADP", "FADP" \in s), Set("HDG", "FADP" \in s) >>, {"FADP", "HDG"})
    BY <2>1, <2>2, TwoCalls, Zenon
  <2>4. /\ Update(n, s, ua) = << Set("FADP", "FADP" \in s), Set("HDG", "FADP" \in s) >>
        /\ Called(n, ua) = {"FADP", "HDG"}
    BY <1>2 DEF Update, PositionCalls, Called
  <2> QED BY <2>3, <2>4, Zenon
<1>3. CASE n = "docking"
  <2>1. "HDG" \in Controllers
    BY DEF Controllers
  <2>2. ("HDG" \in s) \in BOOLEAN
    OBVIOUS
  <2>3. CallsOnce(<< Set("HDG", "HDG" \in s) >>, {"HDG"})
    BY <2>1, <2>2, OneCall, Zenon
  <2>4. Update(n, s, ua) = << Set("HDG", "HDG" \in s) >> /\ Called(n, ua) = {"HDG"}
    BY <1>3 DEF Update, DockCalls, Called
  <2> QED BY <2>3, <2>4, Zenon
<1>4. CASE n = "track_diver"
  <2>1. "VT" \in Controllers
    BY DEF Controllers
  <2>2. ("VT" \in s) \in BOOLEAN
    OBVIOUS
  <2>3. CallsOnce(<< Set("VT", "VT" \in s) >>, {"VT"})
    BY <2>1, <2>2, OneCall, Zenon
  <2>4. Update(n, s, ua) = << Set("VT", "VT" \in s) >> /\ Called(n, ua) = {"VT"}
    BY <1>4 DEF Update, TrackCalls, Called
  <2> QED BY <2>3, <2>4, Zenon
<1> QED BY <1>1, <1>2, <1>3, <1>4 DEF Nodes

LEMMA EnablingIsCalled ==
  ASSUME NEW n \in Nodes, NEW s, NEW ua \in BOOLEAN
  PROVE  Enabling(n, s, ua) \subseteq Called(n, ua)
<1> SUFFICES ASSUME NEW c \in Controllers, Set(c, TRUE) \in ToSet(Update(n, s, ua))
             PROVE  c \in Called(n, ua)
  BY DEF Enabling
<1>1. PICK i \in DOMAIN Update(n, s, ua) : Update(n, s, ua)[i] = Set(c, TRUE)
  BY DEF ToSet
<1>2. Update(n, s, ua)[i].controller = c
  BY <1>1 DEF Set
<1> QED BY <1>1, <1>2, UpdateType DEF CallsOnce

LEMMA UpdateIsPlan ==
  ASSUME NEW n \in Nodes, NEW s, NEW ua \in BOOLEAN
  PROVE  IsPlan(Update(n, s, ua), n, s, ua)
<1> DEFINE u == Update(n, s, ua)
<1>1. /\ u \in Seq(Item)
      /\ \A i \in DOMAIN u : u[i].do = "set" /\ u[i].controller \in Called(n, ua)
      /\ \A c \in Called(n, ua) : \E i \in DOMAIN u : u[i].controller = c
      /\ \A i, j \in DOMAIN u : u[i].controller = u[j].controller => i = j
  BY UpdateType DEF CallsOnce
<1>2. \A c \in Controllers : c \in Enabling(n, s, ua) <=> \E i \in DOMAIN u : u[i] = Set(c, TRUE)
  BY DEF Enabling, ToSet
<1> HIDE DEF u
<1>3. \A i \in DOMAIN u : u[i] \in Item /\ u[i] = Set(u[i].controller, u[i].enable)
  BY <1>1, CallIsSet
<1>4. \A i \in DOMAIN u : u[i].enable = TRUE => u[i].controller \in Enabling(n, s, ua)
  <2> SUFFICES ASSUME NEW i \in DOMAIN u, u[i].enable = TRUE
               PROVE  u[i].controller \in Enabling(n, s, ua)
    OBVIOUS
  <2>1. u[i] = Set(u[i].controller, TRUE)
    BY <1>3
  <2>2. u[i].controller \in Controllers
    BY <1>1, CalledIsController
  <2> QED BY <1>2, <2>1, <2>2, Zenon
<1>5. \A i \in DOMAIN u : u[i].enable # TRUE => /\ u[i].controller \notin Enabling(n, s, ua)
                                               /\ u[i] = Off(u[i].controller)
  <2> SUFFICES ASSUME NEW i \in DOMAIN u, u[i].enable # TRUE
               PROVE  /\ u[i].controller \notin Enabling(n, s, ua)
                      /\ u[i] = Off(u[i].controller)
    OBVIOUS
  <2>1. u[i].enable = FALSE
    <3>1. u[i] \in Item /\ u[i].do = "set"
      BY <1>1, <1>3
    <3>2. u[i] \in [do : {"set"}, controller : Controllers, enable : BOOLEAN]
      BY <3>1 DEF Item, Part
    <3> QED BY <3>2
  <2>2. ASSUME NEW j \in DOMAIN u, u[j] = Set(u[i].controller, TRUE) PROVE FALSE
    BY <1>1, <2>1, <2>2 DEF Set
  <2>3. u[i].controller \in Controllers
    BY <1>1, CalledIsController
  <2> QED BY <1>2, <1>3, <2>1, <2>2, <2>3 DEF Off
<1>6. \A c \in Controllers : LastAgrees(u, c, Enabling(n, s, ua)) /\ UndoneLater(u, c, Enabling(n, s, ua))
  BY <1>4, <1>5 DEF LastAgrees, UndoneLater, IsCall
<1>7. \A c \in Called(n, ua) :
        /\ ~NotCalled(u, c)
        /\ c \in Enabling(n, s, ua) \/ \E i \in DOMAIN u : u[i] = Off(c)
  <2> SUFFICES ASSUME NEW c \in Called(n, ua)
               PROVE  /\ ~NotCalled(u, c)
                      /\ c \in Enabling(n, s, ua) \/ \E i \in DOMAIN u : u[i] = Off(c)
    OBVIOUS
  <2>1. PICK i \in DOMAIN u : u[i].controller = c /\ u[i].do = "set"
    BY <1>1
  <2> QED BY <1>4, <1>5, <2>1 DEF NotCalled, IsCall
<1> QED BY <1>1, <1>6, <1>7 DEF IsPlan, u

(* Parts after a plan, and calls before it, do no harm.                    *)
LEMMA PlanThenParts ==
  ASSUME NEW n \in Nodes, NEW s, NEW ua \in BOOLEAN, NEW q \in Seq(Item), NEW r \in Seq(Item),
         IsPlan(q, n, s, ua), NoCalls(r)
  PROVE  q \o r \in Seq(Item) /\ IsPlan(q \o r, n, s, ua)
<1> DEFINE k == q \o r
<1>1. /\ k \in Seq(Item) /\ DOMAIN k = 1 .. Len(q) + Len(r)
      /\ DOMAIN q = 1 .. Len(q) /\ DOMAIN r = 1 .. Len(r) /\ Len(q) \in Nat /\ Len(r) \in Nat
      /\ \A i \in DOMAIN q : i \in DOMAIN k /\ k[i] = q[i]
      /\ \A i \in DOMAIN k : i \notin DOMAIN q => i - Len(q) \in DOMAIN r /\ k[i] = r[i - Len(q)]
  BY ConcatProperties
<1> HIDE DEF k
<1>2. \A i \in DOMAIN k : k[i].do = "set" => i \in DOMAIN q /\ k[i] = q[i]
  BY <1>1 DEF NoCalls
<1>3. \A i \in DOMAIN k : k[i].do = "set" => k[i].controller \in Called(n, ua)
  BY <1>2 DEF IsPlan
<1>4. ASSUME NEW c \in Controllers PROVE LastAgrees(k, c, Enabling(n, s, ua))
  <2> SUFFICES ASSUME NEW i \in DOMAIN k, IsCall(k[i], c),
                      \A j \in DOMAIN k : j > i => ~IsCall(k[j], c)
               PROVE  k[i].enable = TRUE <=> c \in Enabling(n, s, ua)
    BY DEF LastAgrees
  <2>1. i \in DOMAIN q /\ k[i] = q[i]
    BY <1>2 DEF IsCall
  <2>2. \A j \in DOMAIN q : j > i => ~IsCall(q[j], c)
    BY <1>1
  <2> QED BY <2>1, <2>2 DEF IsPlan, LastAgrees
<1>5. ASSUME NEW c \in Controllers PROVE UndoneLater(k, c, Enabling(n, s, ua))
  BY <1>1, <1>2 DEF IsPlan, UndoneLater, IsCall
<1>6. ASSUME NEW c \in Called(n, ua)
      PROVE  /\ ~NotCalled(k, c)
             /\ c \in Enabling(n, s, ua) \/ \E i \in DOMAIN k : k[i] = Off(c)
  BY <1>1 DEF IsPlan, NotCalled
<1> QED BY <1>1, <1>3, <1>4, <1>5, <1>6 DEF IsPlan, k

LEMMA CallsThenPlan ==
  ASSUME NEW n \in Nodes, NEW s, NEW ua \in BOOLEAN, NEW q \in Seq(Item), NEW r \in Seq(Item),
         IsPlan(q, n, s, ua),
         \A i \in DOMAIN r : r[i].do = "set" => r[i].controller \in Called(n, ua)
  PROVE  r \o q \in Seq(Item) /\ IsPlan(r \o q, n, s, ua)
<1> DEFINE k == r \o q
<1>1. /\ k \in Seq(Item) /\ DOMAIN k = 1 .. Len(r) + Len(q)
      /\ DOMAIN q = 1 .. Len(q) /\ DOMAIN r = 1 .. Len(r) /\ Len(q) \in Nat /\ Len(r) \in Nat
      /\ \A i \in DOMAIN r : i \in DOMAIN k /\ k[i] = r[i]
      /\ \A i \in DOMAIN q : i + Len(r) \in DOMAIN k /\ k[i + Len(r)] = q[i]
      /\ \A i \in DOMAIN k : i \notin DOMAIN r => i - Len(r) \in DOMAIN q /\ k[i] = q[i - Len(r)]
  BY ConcatProperties
<1> HIDE DEF k
<1>2. \A i \in DOMAIN k : k[i].do = "set" => k[i].controller \in Called(n, ua)
  BY <1>1 DEF IsPlan
<1>3. ASSUME NEW c \in Controllers, NEW i \in DOMAIN r, IsCall(k[i], c)
      PROVE  \E j \in DOMAIN k : j > i /\ IsCall(k[j], c)
  <2>1. c \in Called(n, ua)
    BY <1>1, <1>3 DEF IsCall
  <2>2. PICK j \in DOMAIN q : IsCall(q[j], c)
    BY <2>1 DEF IsPlan, NotCalled
  <2>3. j + Len(r) \in DOMAIN k /\ j + Len(r) > i /\ IsCall(k[j + Len(r)], c)
    BY <1>1, <2>2
  <2> QED BY <2>3
<1>4. ASSUME NEW c \in Controllers PROVE LastAgrees(k, c, Enabling(n, s, ua))
  <2> SUFFICES ASSUME NEW i \in DOMAIN k, IsCall(k[i], c),
                      \A j \in DOMAIN k : j > i => ~IsCall(k[j], c)
               PROVE  k[i].enable = TRUE <=> c \in Enabling(n, s, ua)
    BY DEF LastAgrees
  <2>1. i - Len(r) \in DOMAIN q /\ k[i] = q[i - Len(r)]
    BY <1>1, <1>3
  <2>2. \A j \in DOMAIN q : j > i - Len(r) => ~IsCall(q[j], c)
    BY <1>1
  <2> QED BY <2>1, <2>2 DEF IsPlan, LastAgrees
<1>5. ASSUME NEW c \in Controllers PROVE UndoneLater(k, c, Enabling(n, s, ua))
  <2> SUFFICES ASSUME NEW i \in DOMAIN k, IsCall(k[i], c), k[i].enable = TRUE,
                      c \notin Enabling(n, s, ua)
               PROVE  \E j \in DOMAIN k : j > i /\ k[j] = Off(c)
    BY DEF UndoneLater
  <2>1. CASE i \in DOMAIN r
    <3>1. c \in Called(n, ua)
      BY <1>2 DEF IsCall
    <3>2. PICK j \in DOMAIN q : q[j] = Off(c)
      BY <3>1 DEF IsPlan
    <3>3. j + Len(r) \in DOMAIN k /\ j + Len(r) > i /\ k[j + Len(r)] = Off(c)
      BY <1>1, <2>1, <3>2
    <3> QED BY <3>3
  <2>2. CASE i \notin DOMAIN r
    <3>1. i - Len(r) \in DOMAIN q /\ k[i] = q[i - Len(r)]
      BY <1>1, <2>2
    <3>2. PICK j \in DOMAIN q : j > i - Len(r) /\ q[j] = Off(c)
      BY <3>1 DEF IsPlan, UndoneLater
    <3>3. j + Len(r) \in DOMAIN k /\ j + Len(r) > i /\ k[j + Len(r)] = Off(c)
      BY <1>1, <3>2
    <3> QED BY <3>3
  <2> QED BY <2>1, <2>2
<1>6. ASSUME NEW c \in Called(n, ua)
      PROVE  /\ ~NotCalled(k, c)
             /\ c \in Enabling(n, s, ua) \/ \E i \in DOMAIN k : k[i] = Off(c)
  BY <1>1 DEF IsPlan, NotCalled
<1> QED BY <1>1, <1>2, <1>4, <1>5, <1>6 DEF IsPlan, k

(* A step of a callback takes the first thing to do away.                  *)
LEMMA TailItems ==
  ASSUME NEW q \in Seq(Item), q # <<>>
  PROVE  /\ Tail(q) \in Seq(Item) /\ Head(q) \in Item /\ Head(q) = q[1] /\ 1 \in DOMAIN q
         /\ \A i \in DOMAIN Tail(q) : i + 1 \in DOMAIN q /\ Tail(q)[i] = q[i + 1]
         /\ \A i \in DOMAIN q : i > 1 => i - 1 \in DOMAIN Tail(q) /\ Tail(q)[i - 1] = q[i]
         /\ DOMAIN q \subseteq Nat \ {0}
BY HeadTailProperties

LEMMA TailAgrees ==
  ASSUME NEW q \in Seq(Item), q # <<>>, NEW c \in Controllers, NEW wanted
  PROVE  /\ LastAgrees(q, c, wanted) => LastAgrees(Tail(q), c, wanted)
         /\ UndoneLater(q, c, wanted) => UndoneLater(Tail(q), c, wanted)
         /\ (NotCalled(Tail(q), c) /\ ~IsCall(Head(q), c)) => NotCalled(q, c)
<1> DEFINE t == Tail(q)
<1>1. /\ Head(q) = q[1]
      /\ \A i \in DOMAIN t : i + 1 \in DOMAIN q /\ t[i] = q[i + 1] /\ i \in Int
      /\ \A i \in DOMAIN q : i > 1 => i - 1 \in DOMAIN t /\ t[i - 1] = q[i]
      /\ DOMAIN q \subseteq Nat \ {0}
  BY TailItems
<1> HIDE DEF t
<1>2. ASSUME LastAgrees(q, c, wanted) PROVE LastAgrees(t, c, wanted)
  <2> SUFFICES ASSUME NEW i \in DOMAIN t, IsCall(t[i], c),
                      \A j \in DOMAIN t : j > i => ~IsCall(t[j], c)
               PROVE  t[i].enable = TRUE <=> c \in wanted
    BY DEF LastAgrees
  <2>1. \A j \in DOMAIN q : j > i + 1 => ~IsCall(q[j], c)
    BY <1>1
  <2> QED BY <1>1, <1>2, <2>1 DEF LastAgrees
<1>3. ASSUME UndoneLater(q, c, wanted) PROVE UndoneLater(t, c, wanted)
  <2> SUFFICES ASSUME NEW i \in DOMAIN t, IsCall(t[i], c), t[i].enable = TRUE, c \notin wanted
               PROVE  \E j \in DOMAIN t : j > i /\ t[j] = Off(c)
    BY DEF UndoneLater
  <2>1. PICK j \in DOMAIN q : j > i + 1 /\ q[j] = Off(c)
    BY <1>1, <1>3 DEF UndoneLater
  <2>2. j - 1 \in DOMAIN t /\ j - 1 > i /\ t[j - 1] = Off(c)
    BY <1>1, <2>1
  <2> QED BY <2>2
<1>4. ASSUME NotCalled(t, c), ~IsCall(Head(q), c) PROVE NotCalled(q, c)
  <2> SUFFICES ASSUME NEW i \in DOMAIN q PROVE ~IsCall(q[i], c)
    BY DEF NotCalled
  <2>1. CASE i = 1
    BY <1>1, <1>4, <2>1
  <2>2. CASE i > 1
    BY <1>1, <1>4, <2>2 DEF NotCalled
  <2> QED BY <1>1, <2>1, <2>2
<1> QED BY <1>2, <1>3, <1>4 DEF t

-----------------------------------------------------------------------------
(* Types.                                                                  *)

LEMMA NodeTypes ==
  ASSUME TypeOK, NEW n \in Nodes
  PROVE  /\ goal[n] \in Ids /\ current[n] \in Ids /\ lastCancel[n] \in Ids
         /\ on[n] \subseteq Controllers /\ active[n] \in BOOLEAN
         /\ todo[n] \in Seq(Item)
         /\ goal_msgs[n] \in Seq(Ids \ {0}) /\ cancel_msgs[n] \in Seq(Ids \ {0})
BY DEF TypeOK

LEMMA PartIsItem ==
  ASSUME NEW name \in {"goal", "preempted", "succeeded"}
  PROVE  Part(name) \in Item /\ Part(name).do = name
BY DEF Part, Item

LEMMA UpdateItems ==
  ASSUME NEW n \in Nodes, NEW s, NEW ua \in BOOLEAN
  PROVE  Update(n, s, ua) \in Seq(Item)
BY UpdateType DEF CallsOnce

LEMMA ConcatItems ==
  ASSUME NEW q \in Seq(Item), NEW r \in Seq(Item)
  PROVE  q \o r \in Seq(Item)
BY ConcatProperties

(* What onPreempt leaves to be done.                                       *)
LEMMA PreemptItems ==
  ASSUME NEW n \in Nodes, NEW ua \in BOOLEAN, NEW then \in {<<>>, <<Part("goal")>>}
  PROVE  Update(n, {}, ua) \o <<Part("preempted")>> \o then \in Seq(Item)
<1>1. <<Part("preempted")>> \in Seq(Item) /\ then \in Seq(Item)
  <2>1. Part("preempted") \in Item /\ Part("goal") \in Item
    BY PartIsItem
  <2>2. \A x \in Item : <<x>> \in Seq(Item)
    OBVIOUS
  <2>3. <<>> \in Seq(Item)
    OBVIOUS
  <2> QED BY <2>1, <2>2, <2>3, Zenon
<1>2. Update(n, {}, ua) \o <<Part("preempted")>> \in Seq(Item)
  BY <1>1, UpdateItems, ConcatItems
<1> QED BY <1>1, <1>2, ConcatItems

LEMMA PreemptTypes ==
  ASSUME TypeOK, NEW n \in Nodes, NEW then \in {<<>>, <<Part("goal")>>}, OnPreempt(n, then)
  PROVE  /\ goal' \in [Nodes -> Ids] /\ on' \in [Nodes -> SUBSET Controllers]
         /\ todo' \in [Nodes -> Seq(Item)]
<1>1. underactuated \in BOOLEAN
  BY DEF TypeOK
<1>2. Update(n, {}, underactuated) \o <<Part("preempted")>> \o then \in Seq(Item)
  BY <1>1, PreemptItems
<1> QED BY <1>2 DEF OnPreempt, TypeOK, Ids

LEMMA TurnTypes ==
  ASSUME NEW g, NEW s \in SUBSET Controllers, NEW ua \in BOOLEAN, NEW h
  PROVE  Turned(g, s, ua, h) \in SUBSET Controllers /\ TurnCalls(g, s, ua, h) \in Seq(Item)
<1>1. Turned(g, s, ua, h) \in SUBSET Controllers
  BY DEF Turned, Controllers
<1>2. TurnCalls(g, s, ua, h) \in Seq(Item)
  <2>1. "go2point" \in Nodes
    BY DEF Nodes
  <2>2. Update("go2point", Turned(g, s, ua, h), ua) \in Seq(Item)
    BY <2>1, UpdateItems
  <2> QED BY <2>2 DEF TurnCalls
<1> QED BY <1>1, <1>2

LEMMA ForPointType ==
  ASSUME NEW g, NEW s \in SUBSET Controllers, NEW h
  PROVE  ForPoint(g, s, h) \in SUBSET Controllers
<1>1. \A c, b : Where(c, b) \subseteq {c}
  BY DEF Where
<1>2. {"UALF", "FALF", "HDG", "DEPTH"} \subseteq Controllers
  BY DEF Controllers
<1> QED BY <1>1, <1>2 DEF ForPoint

LEMMA GoToPointTypes ==
  ASSUME TypeOK, NEW g \in Goals, NEW h, GoToPoint(g, h)
  PROVE  /\ underactuated' \in BOOLEAN /\ active' \in [Nodes -> BOOLEAN]
         /\ on' \in [Nodes -> SUBSET Controllers] /\ todo' \in [Nodes -> Seq(Item)]
<1> DEFINE ua == ~g.fa
           s == ForPoint(g, Turned(g, on["go2point"], ua, h), h)
<1>1. g \in Goal /\ "go2point" \in Nodes
  BY GoalsAssumption DEF Nodes
<1>2. ua \in BOOLEAN /\ g.valid \in BOOLEAN
  BY <1>1 DEF Goal
<1>3. on["go2point"] \in SUBSET Controllers
  BY <1>1 DEF TypeOK
<1>4. s \in SUBSET Controllers
  BY <1>2, <1>3, TurnTypes, ForPointType
<1>5. TurnCalls(g, on["go2point"], ua, h) \o Update("go2point", s, ua) \in Seq(Item)
  BY <1>1, <1>2, <1>3, TurnTypes, UpdateItems, ConcatItems
<1>6. /\ underactuated' = ua
      /\ active' = [active EXCEPT !["go2point"] = g.valid]
      /\ on' = [on EXCEPT !["go2point"] = s]
      /\ todo' = [todo EXCEPT !["go2point"] =
                    TurnCalls(g, on["go2point"], ua, h) \o Update("go2point", s, ua)]
  BY DEF GoToPoint
<1> HIDE DEF ua, s
<1> QED BY <1>1, <1>2, <1>4, <1>5, <1>6 DEF TypeOK

LEMMA AcceptTypes ==
  ASSUME TypeOK, NEW n \in Nodes, NEW s \in SUBSET Controllers, NEW calls \in Seq(Item),
         Accept(n, s, calls)
  PROVE  /\ underactuated' \in BOOLEAN /\ active' \in [Nodes -> BOOLEAN]
         /\ on' \in [Nodes -> SUBSET Controllers] /\ todo' \in [Nodes -> Seq(Item)]
BY DEF Accept, TypeOK

LEMMA OnGoalTypes ==
  ASSUME TypeOK, NEW n \in Nodes, OnGoal(n), goal_msgs[n] # <<>>
  PROVE  TypeOK'
<1> DEFINE id == Head(goal_msgs[n])
<1>1. id \in Ids \ {0} /\ Tail(goal_msgs[n]) \in Seq(Ids \ {0})
  BY NodeTypes, HeadTailProperties
<1>2. sent[id] \in Goals
  BY <1>1 DEF TypeOK, Ids
<1>3. /\ underactuated' \in BOOLEAN /\ active' \in [Nodes -> BOOLEAN]
      /\ on' \in [Nodes -> SUBSET Controllers] /\ todo' \in [Nodes -> Seq(Item)]
  <2>1. CASE n = "go2point"
    BY <1>2, <2>1, GoToPointTypes DEF OnGoal
  <2>2. CASE n = "dynamic_positioning"
    <3>1. HoldPosition(sent[id])
      BY <2>2 DEF OnGoal
    <3>2. Where("FADP", sent[id].xy) \in SUBSET Controllers
      BY DEF Where, Controllers
    <3>3. PositionCalls(Where("FADP", sent[id].xy)) \in Seq(Item)
      <4>1. Update(n, Where("FADP", sent[id].xy), TRUE) = PositionCalls(Where("FADP", sent[id].xy))
        BY <2>2 DEF Update
      <4> QED BY <4>1, UpdateItems
    <3> QED BY <2>2, <3>1, <3>2, <3>3, AcceptTypes DEF HoldPosition
  <2>3. CASE n = "docking"
    <3>1. DockCalls({}) \in Seq(Item)
      <4>1. Update(n, {}, TRUE) = DockCalls({})
        BY <2>3 DEF Update
      <4> QED BY <4>1, UpdateItems
    <3> QED BY <2>3, <3>1, AcceptTypes DEF DockMussel, OnGoal
  <2>4. CASE n = "track_diver"
    <3>1. TrackCalls({"VT"}) \in Seq(Item)
      <4>1. Update(n, {"VT"}, TRUE) = TrackCalls({"VT"})
        BY <2>4 DEF Update
      <4> QED BY <4>1, UpdateItems
    <3>2. {"VT"} \in SUBSET Controllers
      BY DEF Controllers
    <3>3. PICK calls \in Seq(Item) : Accept(n, {"VT"}, calls)
      <4>1. <<>> \in Seq(Item)
        OBVIOUS
      <4>2. Accept(n, {"VT"}, IF goal["track_diver"] = 0 THEN TrackCalls({"VT"}) ELSE <<>>)
        BY <2>4 DEF TrackDiver, OnGoal
      <4> QED BY <3>1, <4>1, <4>2
    <3> QED BY <3>2, <3>3, AcceptTypes
  <2> QED BY <2>1, <2>2, <2>3, <2>4 DEF Nodes
<1>4. /\ current' = [current EXCEPT ![n] = id] /\ goal' = [goal EXCEPT ![n] = id]
      /\ goal_msgs' = [goal_msgs EXCEPT ![n] = Tail(@)]
      /\ UNCHANGED <<enabled, lastCancel, cancel_msgs, client>>
  BY DEF OnGoal
<1> HIDE DEF id
<1> QED BY <1>1, <1>3, <1>4 DEF TypeOK, Ids, client

(* A goal callback that is to run has its goal.                            *)
GoalFree(q) == \A i \in DOMAIN q : q[i].do # "goal"
GoalWaits == \A n \in Nodes : GoalFree(todo[n]) \/ goal_msgs[n] # <<>>
TInv == TypeOK /\ GoalWaits

LEMMA UpdateGoalFree ==
  ASSUME NEW n \in Nodes, NEW s, NEW ua \in BOOLEAN
  PROVE  GoalFree(Update(n, s, ua))
BY UpdateType DEF CallsOnce, GoalFree

LEMMA ConcatGoalFree ==
  ASSUME NEW q \in Seq(Item), NEW r \in Seq(Item), GoalFree(q), GoalFree(r)
  PROVE  GoalFree(q \o r)
BY ConcatProperties DEF GoalFree

LEMMA PartsGoalFree ==
  GoalFree(<<>>) /\ GoalFree(<<Part("preempted")>>) /\ GoalFree(<<Part("succeeded")>>)
BY DEF GoalFree, Part

LEMMA PartsAreItems ==
  /\ <<>> \in Seq(Item) /\ <<Part("goal")>> \in Seq(Item)
  /\ <<Part("preempted")>> \in Seq(Item) /\ <<Part("succeeded")>> \in Seq(Item)
<1>1. \A x \in Item : <<x>> \in Seq(Item)
  OBVIOUS
<1>2. Part("goal") \in Item /\ Part("preempted") \in Item /\ Part("succeeded") \in Item
  BY PartIsItem
<1>3. <<>> \in Seq(Item)
  OBVIOUS
<1> QED BY <1>1, <1>2, <1>3, Zenon

AllCalls(q) == \A i \in DOMAIN q : q[i].do = "set"

LEMMA CallsGoalFree ==
  ASSUME NEW q, AllCalls(q)
  PROVE  GoalFree(q)
BY DEF AllCalls, GoalFree

LEMMA UpdateAllCalls ==
  ASSUME NEW n \in Nodes, NEW s, NEW ua \in BOOLEAN
  PROVE  AllCalls(Update(n, s, ua))
BY UpdateType DEF CallsOnce, AllCalls

LEMMA ConcatAllCalls ==
  ASSUME NEW q \in Seq(Item), NEW r \in Seq(Item), AllCalls(q), AllCalls(r)
  PROVE  AllCalls(q \o r)
BY ConcatProperties DEF AllCalls

LEMMA NothingAllCalls == AllCalls(<<>>)
BY DEF AllCalls

LEMMA TurnAllCalls ==
  ASSUME NEW g, NEW s \in SUBSET Controllers, NEW ua \in BOOLEAN, NEW h
  PROVE  AllCalls(TurnCalls(g, s, ua, h))
<1>1. "go2point" \in Nodes
  BY DEF Nodes
<1>2. AllCalls(Update("go2point", Turned(g, s, ua, h), ua)) /\ AllCalls(<<>>)
  BY <1>1, UpdateAllCalls, NothingAllCalls
<1> QED BY <1>2 DEF TurnCalls

LEMMA TurnGoalFree ==
  ASSUME NEW g, NEW s \in SUBSET Controllers, NEW ua \in BOOLEAN, NEW h
  PROVE  GoalFree(TurnCalls(g, s, ua, h))
BY TurnAllCalls, CallsGoalFree

LEMMA PreemptGoalFree ==
  ASSUME NEW n \in Nodes, NEW ua \in BOOLEAN
  PROVE  GoalFree(Update(n, {}, ua) \o <<Part("preempted")>> \o <<>>)
<1>1. Update(n, {}, ua) \in Seq(Item)
  BY UpdateItems
<1>2. Update(n, {}, ua) \o <<Part("preempted")>> \in Seq(Item)
  BY <1>1, PartsAreItems, ConcatItems
<1> QED BY <1>1, <1>2, PartsAreItems, PartsGoalFree, UpdateGoalFree, ConcatGoalFree

LEMMA TailGoalFree ==
  ASSUME NEW q \in Seq(Item), q # <<>>, GoalFree(q)
  PROVE  GoalFree(Tail(q))
BY TailItems DEF GoalFree

(* What the goal callback leaves in todo.                                  *)
LEMMA OnGoalCalls ==
  ASSUME TypeOK, NEW n \in Nodes, OnGoal(n), goal_msgs[n] # <<>>
  PROVE  AllCalls(todo'[n]) /\ \A m \in Nodes \ {n} : todo'[m] = todo[m]
<1> DEFINE g == sent[Head(goal_msgs[n])]
<1>1. /\ g \in Goals /\ n \in DOMAIN todo /\ on[n] \in SUBSET Controllers
      /\ \A m \in Nodes : m \in DOMAIN todo
  <2>1. Head(goal_msgs[n]) \in Ids \ {0}
    BY NodeTypes, HeadTailProperties
  <2> QED BY <2>1 DEF TypeOK, Ids
<1>2. CASE n = "go2point"
  <2>1. PICK h \in Headings : GoToPoint(g, h)
    BY <1>2 DEF OnGoal
  <2> DEFINE ua == ~g.fa
             s == ForPoint(g, Turned(g, on[n], ua, h), h)
             calls == TurnCalls(g, on[n], ua, h)
             u == Update(n, s, ua)
  <2>2. todo' = [todo EXCEPT ![n] = calls \o u]
    BY <1>2, <2>1 DEF GoToPoint
  <2>3. ua \in BOOLEAN
    OBVIOUS
  <2>4. calls \in Seq(Item) /\ AllCalls(calls)
    BY <1>1, <2>3, TurnTypes, TurnAllCalls
  <2>5. u \in Seq(Item) /\ AllCalls(u)
    BY <2>3, UpdateItems, UpdateAllCalls
  <2> HIDE DEF calls, u
  <2> QED BY <1>1, <2>2, <2>4, <2>5, ConcatAllCalls
<1>3. CASE n = "dynamic_positioning"
  <2> DEFINE s == Where("FADP", g.xy)
  <2>1. Accept(n, s, PositionCalls(s))
    BY <1>3 DEF OnGoal, HoldPosition
  <2>2. AllCalls(PositionCalls(s))
    <3>1. Update(n, s, TRUE) = PositionCalls(s)
      BY <1>3 DEF Update
    <3> QED BY <3>1, UpdateAllCalls
  <2> QED BY <1>1, <2>1, <2>2 DEF Accept
<1>4. CASE n = "docking"
  <2>1. Accept(n, {}, DockCalls({}))
    BY <1>4 DEF OnGoal, DockMussel
  <2>2. AllCalls(DockCalls({}))
    <3>1. Update(n, {}, TRUE) = DockCalls({})
      BY <1>4 DEF Update
    <3> QED BY <3>1, UpdateAllCalls
  <2> QED BY <1>1, <2>1, <2>2 DEF Accept
<1>5. CASE n = "track_diver"
  <2>1. PICK calls \in {<<>>, TrackCalls({"VT"})} : Accept(n, {"VT"}, calls)
    BY <1>5 DEF OnGoal, TrackDiver
  <2>2. AllCalls(TrackCalls({"VT"}))
    <3>1. Update(n, {"VT"}, TRUE) = TrackCalls({"VT"})
      BY <1>5 DEF Update
    <3> QED BY <3>1, UpdateAllCalls
  <2> QED BY <1>1, <2>1, <2>2, NothingAllCalls DEF Accept
<1> QED BY <1>2, <1>3, <1>4, <1>5 DEF Nodes

LEMMA OnGoalFree ==
  ASSUME TypeOK, NEW n \in Nodes, OnGoal(n), goal_msgs[n] # <<>>
  PROVE  GoalFree(todo'[n]) /\ \A m \in Nodes \ {n} : todo'[m] = todo[m]
BY OnGoalCalls, CallsGoalFree

LEMMA GoalIsThere ==
  ASSUME TInv, NEW n \in Nodes, Doing(n, "goal")
  PROVE  goal_msgs[n] # <<>>
<1>1. todo[n] \in Seq(Item) /\ todo[n] # <<>>
  BY NodeTypes DEF TInv, Doing, Idle
<1>2. Head(todo[n]) = todo[n][1] /\ 1 \in DOMAIN todo[n]
  BY <1>1, TailItems
<1> QED BY <1>2 DEF TInv, GoalWaits, GoalFree, Doing

LEMMA TypesInit ==
  Init => TInv
<1> SUFFICES ASSUME Init PROVE TInv
  OBVIOUS
<1>1. 0 \in Ids /\ <<>> \in Seq(Ids \ {0}) /\ <<>> \in Seq(Item) /\ <<>> \in Seq(Goals)
  BY DEF Init, Ids
<1>2. TypeOK
  BY <1>1 DEF Init, TypeOK
<1>3. GoalWaits
  BY PartsGoalFree DEF GoalWaits, Init
<1> QED BY <1>2, <1>3 DEF TInv

LEMMA TypesStep ==
  TInv /\ [Next]_vars => TInv'
<1> SUFFICES ASSUME TInv, [Next]_vars PROVE TInv'
  OBVIOUS
<1> USE DEF TInv
<1>0. underactuated \in BOOLEAN
  BY DEF TypeOK
<1>1. ASSUME NEW n \in Nodes, SetController(n) PROVE TInv'
  <2> DEFINE call == Head(todo[n])
  <2>1. todo[n] \in Seq(Item) /\ todo[n] # <<>> /\ call.do = "set"
    BY <1>1, NodeTypes DEF SetController, Doing, Idle
  <2>2. Tail(todo[n]) \in Seq(Item) /\ call \in Item
    BY <2>1, TailItems
  <2>3. call.controller \in Controllers
    BY <2>1, <2>2 DEF Item, Part
  <2>4. /\ enabled' = enabled \cup {call.controller} \/ enabled' = enabled \ {call.controller}
        /\ todo' = [todo EXCEPT ![n] = Tail(@)]
        /\ UNCHANGED <<goal, on, underactuated, server, msgs, client>>
    BY <1>1 DEF SetController
  <2> HIDE DEF call
  <2>5. TypeOK'
    BY <2>2, <2>3, <2>4 DEF TypeOK, Ids, server, msgs, client
  <2>6. GoalWaits'
    BY <2>1, <2>4, TailGoalFree DEF GoalWaits, TypeOK, msgs
  <2> QED BY <2>5, <2>6
<1>2. ASSUME NEW n \in Nodes, Preempted(n) PROVE TInv'
  <2>1. todo[n] \in Seq(Item) /\ todo[n] # <<>>
    BY <1>2, NodeTypes DEF Preempted, Doing, Idle
  <2>2. Tail(todo[n]) \in Seq(Item)
    BY <2>1, TailItems
  <2>3. TypeOK'
    BY <1>2, <2>2 DEF Preempted, TypeOK, Ids, msgs, client
  <2>4. GoalWaits'
    BY <1>2, <2>1, TailGoalFree DEF GoalWaits, TypeOK, msgs, Preempted
  <2> QED BY <2>3, <2>4
<1>3. ASSUME NEW n \in Nodes, OnGoal(n) PROVE TInv'
  <2>1. goal_msgs[n] # <<>>
    BY <1>3, GoalIsThere DEF OnGoal
  <2>2. GoalFree(todo'[n]) /\ \A m \in Nodes \ {n} : todo'[m] = todo[m]
    BY <1>3, <2>1, OnGoalFree
  <2>3. goal_msgs' = [goal_msgs EXCEPT ![n] = Tail(@)]
    BY <1>3 DEF OnGoal
  <2>4. GoalWaits'
    BY <2>2, <2>3 DEF GoalWaits, TypeOK
  <2> QED BY <1>3, <2>1, <2>4, OnGoalTypes
<1>4. ASSUME NEW n \in Nodes, Succeeded(n) PROVE TInv'
  <2> DEFINE u == Update(n, {}, underactuated)
  <2>1. u \in Seq(Item) /\ GoalFree(u)
    BY <1>0, UpdateItems, UpdateGoalFree
  <2>2. todo' = [todo EXCEPT ![n] = u]
    BY <1>4 DEF Succeeded
  <2> HIDE DEF u
  <2>3. TypeOK'
    <3>1. /\ goal' = [goal EXCEPT ![n] = 0] \/ goal' = goal
          /\ on' = [on EXCEPT ![n] = {}]
          /\ active' = [active EXCEPT ![n] = FALSE] /\ UNCHANGED <<current, lastCancel>>
          /\ UNCHANGED <<enabled, underactuated, goal_msgs, cancel_msgs, sent, running>>
      BY <1>4 DEF Succeeded, msgs, client, TypeOK
    <3>2. 0 \in Ids /\ Ids' = Ids
      BY <3>1 DEF TypeOK, Ids
    <3>3. goal' \in [Nodes -> Ids] /\ on' \in [Nodes -> SUBSET Controllers]
      BY <3>1, <3>2 DEF TypeOK
    <3> QED BY <2>1, <2>2, <3>1, <3>2, <3>3 DEF TypeOK
  <2>4. GoalWaits'
    BY <1>4, <2>1, <2>2 DEF GoalWaits, TypeOK, msgs, Succeeded
  <2> QED BY <2>3, <2>4
<1>5. ASSUME NEW n \in Nodes, StopControllers(n) PROVE TInv'
  <2> DEFINE u == Update(n, {}, underactuated)
  <2>1. u \in Seq(Item) /\ GoalFree(u)
    BY <1>0, UpdateItems, UpdateGoalFree
  <2>2. todo' = [todo EXCEPT ![n] = u]
    BY <1>5 DEF StopControllers
  <2> HIDE DEF u
  <2>3. TypeOK'
    <3>1. /\ goal' = [goal EXCEPT ![n] = 0] \/ goal' = goal
          /\ on' = [on EXCEPT ![n] = {}]
          /\ UNCHANGED <<active, current, lastCancel>>
          /\ UNCHANGED <<enabled, underactuated, goal_msgs, cancel_msgs, sent, running>>
      BY <1>5 DEF StopControllers, server, msgs, client, TypeOK
    <3>2. 0 \in Ids /\ Ids' = Ids
      BY <3>1 DEF TypeOK, Ids
    <3>3. goal' \in [Nodes -> Ids] /\ on' \in [Nodes -> SUBSET Controllers]
      BY <3>1, <3>2 DEF TypeOK
    <3> QED BY <2>1, <2>2, <3>1, <3>2, <3>3 DEF TypeOK
  <2>4. GoalWaits'
    BY <1>5, <2>1, <2>2 DEF GoalWaits, TypeOK, msgs, StopControllers
  <2> QED BY <2>3, <2>4
<1>6. ASSUME NEW n \in Nodes, ReceiveGoal(n) PROVE TInv'
  <2>1. goal_msgs[n] # <<>> /\ UNCHANGED <<enabled, underactuated, server, cancel_msgs, client>>
    BY <1>6 DEF ReceiveGoal
  <2>2. Tail(goal_msgs[n]) \in Seq(Ids \ {0})
    BY <2>1, NodeTypes, HeadTailProperties
  <2>3. CASE Head(goal_msgs[n]) <= lastCancel[n]
    <3>1. goal_msgs' = [goal_msgs EXCEPT ![n] = Tail(@)] /\ UNCHANGED <<goal, on, todo>>
      BY <1>6, <2>3 DEF ReceiveGoal
    <3>2. GoalFree(todo[n])
      BY <1>6 DEF ReceiveGoal, Idle, GoalFree
    <3> QED BY <2>1, <2>2, <3>1, <3>2 DEF TypeOK, GoalWaits, Ids, server, client
  <2>4. CASE ~(Head(goal_msgs[n]) <= lastCancel[n])
    <3>1. /\ goal' \in [Nodes -> Ids] /\ on' \in [Nodes -> SUBSET Controllers]
          /\ todo' \in [Nodes -> Seq(Item)]
      <4>1. CASE active[n]
        <5>1. OnPreempt(n, <<Part("goal")>>)
          BY <1>6, <2>4, <4>1 DEF ReceiveGoal
        <5> QED BY <5>1, PreemptTypes
      <4>2. CASE ~active[n]
        <5>1. todo' = [todo EXCEPT ![n] = <<Part("goal")>>] /\ UNCHANGED <<goal, on>>
          BY <1>6, <2>4, <4>2 DEF ReceiveGoal
        <5> QED BY <5>1, PartsAreItems DEF TypeOK
      <4> QED BY <4>1, <4>2
    <3>2. \A m \in Nodes \ {n} : todo'[m] = todo[m]
      BY <1>6, <2>4 DEF ReceiveGoal, OnPreempt, TypeOK
    <3>3. UNCHANGED goal_msgs
      BY <1>6, <2>4 DEF ReceiveGoal
    <3> QED BY <2>1, <3>1, <3>2, <3>3 DEF TypeOK, GoalWaits, Ids, server, client
  <2> QED BY <2>3, <2>4
<1>7. ASSUME NEW n \in Nodes, ReceiveCancel(n) PROVE TInv'
  <2> DEFINE stamp == Head(cancel_msgs[n])
             q == Update(n, {}, underactuated) \o <<Part("preempted")>> \o <<>>
  <2>1. /\ cancel_msgs[n] # <<>>
        /\ lastCancel' = [lastCancel EXCEPT ![n] = IF stamp > @ THEN stamp ELSE @]
        /\ cancel_msgs' = [cancel_msgs EXCEPT ![n] = Tail(@)]
        /\ OnPreempt(n, <<>>) \/ UNCHANGED <<goal, on, todo>>
        /\ UNCHANGED <<enabled, underactuated, active, current, goal_msgs, client>>
    BY <1>7 DEF ReceiveCancel
  <2>2. stamp \in Ids /\ Tail(cancel_msgs[n]) \in Seq(Ids \ {0})
    BY <2>1, NodeTypes, HeadTailProperties
  <2>3. lastCancel' \in [Nodes -> Ids]
    BY <2>1, <2>2 DEF TypeOK
  <2>4. /\ goal' \in [Nodes -> Ids] /\ on' \in [Nodes -> SUBSET Controllers]
        /\ todo' \in [Nodes -> Seq(Item)]
    BY <2>1, PreemptTypes DEF TypeOK
  <2>5. TypeOK'
    BY <2>1, <2>2, <2>3, <2>4 DEF TypeOK, Ids, client
  <2>6. GoalFree(q)
    BY <1>0, PreemptGoalFree
  <2>7. todo' = [todo EXCEPT ![n] = q] \/ todo' = todo
    BY <2>1 DEF OnPreempt
  <2> HIDE DEF q
  <2>8. GoalWaits'
    BY <2>1, <2>6, <2>7 DEF GoalWaits, TypeOK
  <2> QED BY <2>5, <2>8
<1>8. ASSUME PointStateHat PROVE TInv'
  <2> DEFINE n == "go2point"
             g == sent[goal[n]]
  <2>1. PICK h \in Headings, last \in {<<>>, <<Part("succeeded")>>} :
          /\ on' = [on EXCEPT ![n] = Turned(g, on[n], underactuated, h)]
          /\ todo' = [todo EXCEPT ![n] = TurnCalls(g, on[n], underactuated, h) \o last]
    BY <1>8 DEF PointStateHat
  <2>2. n \in Nodes /\ on[n] \in SUBSET Controllers
    BY DEF Nodes, TypeOK
  <2> DEFINE calls == TurnCalls(g, on[n], underactuated, h)
  <2>3. /\ Turned(g, on[n], underactuated, h) \in SUBSET Controllers
        /\ calls \in Seq(Item) /\ GoalFree(calls)
    BY <1>0, <2>2, TurnTypes, TurnGoalFree
  <2>4. last \in Seq(Item) /\ GoalFree(last)
    BY PartsAreItems, PartsGoalFree
  <2>5. calls \o last \in Seq(Item) /\ GoalFree(calls \o last)
    BY <2>3, <2>4, ConcatItems, ConcatGoalFree
  <2>6. UNCHANGED <<enabled, goal, underactuated, server, msgs, client>>
    BY <1>8 DEF PointStateHat
  <2>7. todo' = [todo EXCEPT ![n] = calls \o last]
    BY <2>1
  <2> HIDE DEF calls, g
  <2>8. TypeOK'
    BY <2>1, <2>2, <2>3, <2>5, <2>6, <2>7 DEF TypeOK, Ids, server, msgs, client
  <2>9. GoalWaits'
    BY <2>2, <2>5, <2>6, <2>7 DEF GoalWaits, TypeOK, msgs
  <2> QED BY <2>8, <2>9
<1>9. ASSUME DockStateHat PROVE TInv'
  <2>1. /\ todo' = [todo EXCEPT !["docking"] = <<Part("succeeded")>>]
        /\ UNCHANGED <<enabled, goal, on, underactuated, server, msgs, client>>
    BY <1>9 DEF DockStateHat
  <2>2. TypeOK'
    BY <2>1, PartsAreItems DEF TypeOK, Ids, server, msgs, client
  <2>3. GoalWaits'
    BY <2>1, PartsGoalFree DEF GoalWaits, TypeOK, msgs
  <2> QED BY <2>2, <2>3
<1>10. ASSUME NEW g \in Goals, Start(g) PROVE TInv'
  <2> DEFINE k == Len(sent) + 1
  <2>1. /\ sent' = Append(sent, g) /\ Len(sent') = k /\ running' = k
        /\ goal_msgs' = [goal_msgs EXCEPT ![g.node] = Append(@, k)]
        /\ UNCHANGED <<enabled, goal, on, underactuated, todo, server, cancel_msgs>>
        /\ Len(sent) \in Nat /\ sent' \in Seq(Goals)
    BY <1>10 DEF Start, TypeOK
  <2>2. g.node \in Nodes
    BY GoalsAssumption DEF Goal
  <2>3. Ids \subseteq Ids' /\ k \in Ids' \ {0}
    BY <2>1 DEF Ids
  <2>4. \A q \in Seq(Ids \ {0}) : q \in Seq(Ids' \ {0}) /\ Append(q, k) \in Seq(Ids' \ {0})
                                    /\ Append(q, k) # <<>>
    BY <2>3, AppendProperties
  <2> HIDE DEF k
  <2>5. /\ goal_msgs' \in [Nodes -> Seq(Ids' \ {0})] /\ cancel_msgs' \in [Nodes -> Seq(Ids' \ {0})]
    BY <2>1, <2>2, <2>4 DEF TypeOK
  <2>6. /\ goal' \in [Nodes -> Ids'] /\ current' \in [Nodes -> Ids'] /\ lastCancel' \in [Nodes -> Ids']
    BY <2>1, <2>3 DEF TypeOK, server
  <2>7. TypeOK'
    BY <2>1, <2>3, <2>5, <2>6 DEF TypeOK, server
  <2>8. GoalWaits'
    BY <2>1, <2>2, <2>4 DEF GoalWaits, TypeOK
  <2> QED BY <2>7, <2>8
<1>11. ASSUME Leave PROVE TInv'
  <2> DEFINE n == sent[running].node
  <2>1. /\ running # 0 /\ running' = 0
        /\ cancel_msgs' = [cancel_msgs EXCEPT ![n] = Append(@, Len(sent))]
        /\ UNCHANGED <<enabled, goal, on, underactuated, todo, server, goal_msgs, sent>>
    BY <1>11 DEF Leave
  <2>2. Len(sent) \in Ids \ {0} /\ 0 \in Ids
    BY <2>1 DEF TypeOK, Ids
  <2>3. \A q \in Seq(Ids \ {0}) : Append(q, Len(sent)) \in Seq(Ids \ {0})
    BY <2>2, AppendProperties
  <2> HIDE DEF n
  <2> QED BY <2>1, <2>2, <2>3 DEF TypeOK, GoalWaits, Ids, server
<1>12. CASE UNCHANGED vars
  BY <1>12 DEF vars, server, msgs, client, TypeOK, GoalWaits, Ids
<1> QED BY <1>1, <1>2, <1>3, <1>4, <1>5, <1>6, <1>7, <1>8, <1>9, <1>10, <1>11, <1>12
        DEF Next, Client, Callback, Serve

(* Types: what is called is a controller, and a message carries the number *)
(* of a goal that has been sent.                                           *)
THEOREM PrimitivesTyping == Safety => []TypeOK
<1>1. TInv => TypeOK
  BY DEF TInv
<1> QED BY <1>1, TypesInit, TypesStep, PTL DEF Safety

-----------------------------------------------------------------------------
(* What is left of a callback, q, fits what the node wants (from `on' and  *)
(* `underactuated') and what is enabled: its calls are of controllers the  *)
(* node may call and lead to what is wanted, and a private controller that *)
(* is not called any more is as wanted already.                            *)
EndsLast(q) ==
  \A i \in DOMAIN q : q[i].do \in {"goal", "succeeded"} => \A j \in DOMAIN q : j <= i
Fits(n, q, s, ua, en) ==
  /\ EndsLast(q)
  /\ \A i \in DOMAIN q : q[i].do = "set" => q[i].controller \in Private(n) \cup {"HDG"}
  /\ \A c \in Controllers : LastAgrees(q, c, Enabling(n, s, ua))
                              /\ UndoneLater(q, c, Enabling(n, s, ua))
  /\ \A c \in Private(n) : NotCalled(q, c) => (c \in en <=> c \in Enabling(n, s, ua))
(* Why a controller that is enabled is not forgotten.                      *)
Reason(n, q, s, ua, c) == c \in Enabling(n, s, ua) \/ \E i \in DOMAIN q : q[i] = Off(c)

LEMMA PrivateControllers ==
  ASSUME NEW n \in Nodes
  PROVE  /\ Private(n) \subseteq Controllers /\ "HDG" \notin Private(n)
         /\ \A ua \in BOOLEAN : Called(n, ua) \subseteq Private(n) \cup {"HDG"}
         /\ \A m \in Nodes \ {n} : Private(n) \cap Private(m) = {}
BY DEF Nodes, Private, Called, Controllers

LEMMA NothingEnabled ==
  ASSUME NEW n \in Nodes, NEW ua \in BOOLEAN
  PROVE  Enabling(n, {}, ua) = {}
<1> DEFINE u == Update(n, {}, ua)
<1> SUFFICES ASSUME NEW c \in Enabling(n, {}, ua) PROVE FALSE
  OBVIOUS
<1>1. PICK i \in DOMAIN u : u[i] = Set(c, TRUE)
  BY DEF Enabling, ToSet
<1>2. u[i].enable = TRUE
  BY <1>1 DEF Set
<1>3. \A j \in DOMAIN u : u[j].enable = FALSE
  <2> DEFINE follower == IF ua THEN "UALF" ELSE "FALF"
  <2>1. /\ ({"UALF", "FALF"} \cap {} # {}) = FALSE /\ ("HDG" \in {}) = FALSE
        /\ ("DEPTH" \in {}) = FALSE /\ ("FADP" \in {}) = FALSE /\ ("VT" \in {}) = FALSE
    OBVIOUS
  <2>2. \/ u = << Set(follower, {"UALF", "FALF"} \cap {} # {}), Set("HDG", "HDG" \in {}),
                  Set("DEPTH", "DEPTH" \in {}) >>
        \/ u = << Set("FADP", "FADP" \in {}), Set("HDG", "FADP" \in {}) >>
        \/ u = << Set("HDG", "HDG" \in {}) >>
        \/ u = << Set("VT", "VT" \in {}) >>
    BY DEF Nodes, Update, PointCalls, PositionCalls, DockCalls, TrackCalls
  <2>3. \/ u = << Off(follower), Off("HDG"), Off("DEPTH") >>
        \/ u = << Off("FADP"), Off("HDG") >> \/ u = << Off("HDG") >> \/ u = << Off("VT") >>
    BY <2>1, <2>2, Zenon DEF Off
  <2>4. \A d : Off(d).enable = FALSE
    BY DEF Off, Set
  <2> HIDE DEF u, follower
  <2> QED BY <2>3, <2>4
<1> HIDE DEF u
<1> QED BY <1>1, <1>2, <1>3

(* What each node wants does not depend on the subtype of go2point.        *)
LEMMA OthersSubtype ==
  ASSUME NEW n \in Nodes, n # "go2point", NEW s, NEW ua, NEW ub
  PROVE  Enabling(n, s, ua) = Enabling(n, s, ub)
BY DEF Nodes, Enabling, Update

(* A private controller that is not called is not enabled.                 *)
LEMMA NotCalledIsOff ==
  ASSUME NEW n \in Nodes, NEW q \in Seq(Item), NEW s, NEW ua \in BOOLEAN, NEW en, NEW ub \in BOOLEAN,
         Fits(n, q, s, ua, en), NoCalls(q), ub = ua \/ s = {},
         NEW c \in Private(n), c \notin Called(n, ub)
  PROVE  c \notin en
<1>1. NotCalled(q, c)
  BY DEF NoCalls, NotCalled, IsCall
<1>2. c \notin Enabling(n, s, ua)
  BY EnablingIsCalled, NothingEnabled
<1> QED BY <1>1, <1>2 DEF Fits

(* A new plan.                                                             *)
LEMMA FitsReplan ==
  ASSUME NEW n \in Nodes, NEW q \in Seq(Item), NEW s, NEW ua \in BOOLEAN, NEW en,
         Fits(n, q, s, ua, en), NoCalls(q),
         NEW r \in Seq(Item), NEW t, NEW ub \in BOOLEAN, IsPlan(r, n, t, ub), EndsLast(r),
         ub = ua \/ s = {}
  PROVE  Fits(n, r, t, ub, en)
<1>1. \A i \in DOMAIN r : r[i].do = "set" => r[i].controller \in Private(n) \cup {"HDG"}
  BY PrivateControllers DEF IsPlan
<1>2. ASSUME NEW c \in Private(n), NotCalled(r, c)
      PROVE  c \in en <=> c \in Enabling(n, t, ub)
  <2>1. c \notin Called(n, ub)
    BY <1>2 DEF IsPlan
  <2>2. c \notin en
    BY <2>1, NotCalledIsOff
  <2> QED BY <2>1, <2>2, EnablingIsCalled
<1> QED BY <1>1, <1>2 DEF Fits, IsPlan

LEMMA ReasonReplan ==
  ASSUME NEW n \in Nodes, NEW q \in Seq(Item), NEW s, NEW ua \in BOOLEAN,
         NEW c \in Controllers, Reason(n, q, s, ua, c), NoCalls(q),
         NEW r \in Seq(Item), NEW t, NEW ub \in BOOLEAN, IsPlan(r, n, t, ub),
         ub = ua \/ s = {}
  PROVE  Reason(n, r, t, ub, c)
<1>1. \A i \in DOMAIN q : q[i] # Off(c)
  BY DEF NoCalls, Off, Set
<1>2. c \in Enabling(n, s, ua)
  BY <1>1 DEF Reason
<1>3. c \in Called(n, ub)
  BY <1>2, EnablingIsCalled, NothingEnabled
<1> QED BY <1>3 DEF IsPlan, Reason

(* No plan: nothing is called.                                             *)
LEMMA FitsUnplanned ==
  ASSUME NEW n \in Nodes, NEW q, NEW s, NEW ua, NEW en,
         Fits(n, q, s, ua, en), NoCalls(q), NEW r, NoCalls(r), EndsLast(r)
  PROVE  Fits(n, r, s, ua, en)
BY DEF Fits, NoCalls, NotCalled, IsCall, LastAgrees, UndoneLater

LEMMA ReasonUnplanned ==
  ASSUME NEW n \in Nodes, NEW q, NEW s, NEW ua, NEW c,
         Reason(n, q, s, ua, c), NoCalls(q), NEW r
  PROVE  Reason(n, r, s, ua, c)
BY DEF Reason, NoCalls, Off, Set

(* The first thing is done.                                                *)
LEMMA LastOfTail ==
  ASSUME NEW q \in Seq(Item), q # <<>>, EndsLast(q)
  PROVE  EndsLast(Tail(q))
<1> DEFINE t == Tail(q)
<1>1. \A i \in DOMAIN t : i + 1 \in DOMAIN q /\ t[i] = q[i + 1] /\ i \in Int
  BY TailItems
<1> HIDE DEF t
<1> QED BY <1>1 DEF EndsLast, t

LEMMA FitsPart ==
  ASSUME NEW n \in Nodes, NEW q \in Seq(Item), NEW s, NEW ua \in BOOLEAN, NEW en,
         Fits(n, q, s, ua, en), q # <<>>, Head(q).do # "set"
  PROVE  Fits(n, Tail(q), s, ua, en)
<1>1. \A i \in DOMAIN Tail(q) : i + 1 \in DOMAIN q /\ Tail(q)[i] = q[i + 1]
  BY TailItems
<1>2. \A i \in DOMAIN Tail(q) :
        Tail(q)[i].do = "set" => Tail(q)[i].controller \in Private(n) \cup {"HDG"}
  BY <1>1 DEF Fits
<1>3. \A c \in Controllers : LastAgrees(Tail(q), c, Enabling(n, s, ua))
                              /\ UndoneLater(Tail(q), c, Enabling(n, s, ua))
  BY TailAgrees DEF Fits
<1>4. \A c \in Private(n) : NotCalled(Tail(q), c) => NotCalled(q, c)
  BY PrivateControllers, TailAgrees DEF IsCall
<1>5. EndsLast(Tail(q))
  BY LastOfTail DEF Fits
<1> QED BY <1>2, <1>3, <1>4, <1>5 DEF Fits

Switched(en, call) == IF call.enable THEN en \cup {call.controller} ELSE en \ {call.controller}

LEMMA FitsCall ==
  ASSUME NEW n \in Nodes, NEW q \in Seq(Item), NEW s, NEW ua \in BOOLEAN, NEW en,
         Fits(n, q, s, ua, en), q # <<>>, Head(q).do = "set"
  PROVE  Fits(n, Tail(q), s, ua, Switched(en, Head(q)))
<1> DEFINE t == Tail(q)
           call == Head(q)
<1>1. \A i \in DOMAIN t : i + 1 \in DOMAIN q /\ t[i] = q[i + 1]
  BY TailItems
<1>2. \A i \in DOMAIN t : t[i].do = "set" => t[i].controller \in Private(n) \cup {"HDG"}
  BY <1>1 DEF Fits
<1>3. \A c \in Controllers : LastAgrees(t, c, Enabling(n, s, ua))
                              /\ UndoneLater(t, c, Enabling(n, s, ua))
  BY TailAgrees DEF Fits
<1>4. ASSUME NEW c \in Private(n), NotCalled(t, c)
      PROVE  c \in Switched(en, call) <=> c \in Enabling(n, s, ua)
  <2>1. c \in Controllers
    BY PrivateControllers
  <2>2. CASE call.controller # c
    <3>1. NotCalled(q, c)
      BY <1>4, <2>1, <2>2, TailAgrees DEF IsCall
    <3>2. c \in Switched(en, call) <=> c \in en
      BY <2>2 DEF Switched
    <3> QED BY <3>1, <3>2 DEF Fits
  <2>3. CASE call.controller = c
    <3>1. /\ call = q[1] /\ 1 \in DOMAIN q /\ IsCall(q[1], c)
          /\ \A j \in DOMAIN q : j > 1 => ~IsCall(q[j], c)
      BY <1>4, <2>3, TailItems DEF IsCall, NotCalled
    <3>2. LastAgrees(q, c, Enabling(n, s, ua))
      BY <2>1 DEF Fits
    <3>3. call.enable = TRUE <=> c \in Enabling(n, s, ua)
      BY <3>1, <3>2 DEF LastAgrees
    <3>4. call.enable \in BOOLEAN
      BY TailItems DEF Item, Part
    <3>5. c \in Switched(en, call) <=> call.enable = TRUE
      BY <2>3, <3>4 DEF Switched
    <3> QED BY <3>3, <3>5
  <2> QED BY <2>2, <2>3
<1>5. EndsLast(t)
  BY LastOfTail DEF Fits
<1> QED BY <1>2, <1>3, <1>4, <1>5 DEF Fits

(* A controller that was enabled keeps its reason, and one that is enabled *)
(* now has one.                                                            *)
LEMMA ReasonCall ==
  ASSUME NEW n \in Nodes, NEW q \in Seq(Item), NEW s, NEW ua \in BOOLEAN, NEW en,
         Fits(n, q, s, ua, en), q # <<>>, Head(q).do = "set",
         NEW c \in Controllers, c \in Switched(en, Head(q)),
         Reason(n, q, s, ua, c) \/ c \notin en
  PROVE  Reason(n, Tail(q), s, ua, c)
<1> DEFINE call == Head(q)
<1>1. /\ call = q[1] /\ 1 \in DOMAIN q /\ call \in Item /\ DOMAIN q \subseteq Nat \ {0}
      /\ \A i \in DOMAIN q : i > 1 => i - 1 \in DOMAIN Tail(q) /\ Tail(q)[i - 1] = q[i]
  BY TailItems
<1>2. SUFFICES ASSUME c \notin Enabling(n, s, ua)
               PROVE  \E i \in DOMAIN q : i > 1 /\ q[i] = Off(c)
  BY <1>1 DEF Reason
<1>3. call.enable \in BOOLEAN
  BY <1>1 DEF Item, Part
<1>4. CASE call.controller = c
  <2>1. call.enable = TRUE
    BY <1>3, <1>4 DEF Switched
  <2>2. IsCall(q[1], c) /\ q[1].enable = TRUE
    BY <1>1, <1>4, <2>1 DEF IsCall
  <2>3. UndoneLater(q, c, Enabling(n, s, ua))
    BY DEF Fits
  <2> QED BY <1>1, <1>2, <2>2, <2>3 DEF UndoneLater
<1>5. CASE call.controller # c
  <2>1. c \in en
    BY <1>5 DEF Switched
  <2>2. PICK i \in DOMAIN q : q[i] = Off(c)
    BY <1>2, <2>1 DEF Reason
  <2>3. i # 1
    BY <1>1, <1>5, <2>2 DEF Off, Set
  <2> QED BY <1>1, <2>2, <2>3
<1> QED BY <1>4, <1>5

(* The steps of another node.                                              *)
LEMMA FitsOther ==
  ASSUME NEW n \in Nodes, NEW q, NEW s, NEW ua, NEW en, Fits(n, q, s, ua, en),
         NEW ub, NEW eo, n # "go2point" \/ ub = ua, \A c \in Private(n) : c \in eo <=> c \in en
  PROVE  Fits(n, q, s, ub, eo)
<1>1. Enabling(n, s, ub) = Enabling(n, s, ua)
  BY OthersSubtype
<1> QED BY <1>1 DEF Fits

(* A goal is known while it is active and not being preempted, nothing is  *)
(* wanted without one, and the goal callback starts without one.           *)
Pointing(n) ==
  /\ goal[n] = 0 => on[n] = {}
  /\ \A i \in DOMAIN todo[n] : todo[n][i].do = "goal" => goal[n] = 0
  /\ active[n] => \/ goal[n] = current[n] /\ goal[n] # 0
                  \/ \E i \in DOMAIN todo[n] : todo[n][i].do = "preempted"

FitsAll ==
  /\ \A n \in Nodes : Fits(n, todo[n], on[n], underactuated, enabled)
  /\ \A c \in enabled : \E n \in Nodes : Reason(n, todo[n], on[n], underactuated, c)
FInv == TInv /\ FitsAll /\ \A n \in Nodes : Pointing(n)

(* What a step can be to a node.                                           *)
Replans(n) ==
  /\ enabled' = enabled /\ NoCalls(todo[n])
  /\ IsPlan(todo'[n], n, on'[n], underactuated') /\ EndsLast(todo'[n])
  /\ underactuated' = underactuated \/ (n = "go2point" /\ on[n] = {})
Unplans(n) ==
  /\ enabled' = enabled /\ NoCalls(todo[n]) /\ NoCalls(todo'[n]) /\ EndsLast(todo'[n])
  /\ on'[n] = on[n] /\ underactuated' = underactuated
Proceeds(n) ==
  /\ todo[n] # <<>> /\ todo'[n] = Tail(todo[n])
  /\ on'[n] = on[n] /\ underactuated' = underactuated
  /\ \/ Head(todo[n]).do = "set" /\ enabled' = Switched(enabled, Head(todo[n]))
     \/ Head(todo[n]).do # "set" /\ enabled' = enabled
Stays(n) ==
  /\ todo'[n] = todo[n] /\ on'[n] = on[n] /\ underactuated' = underactuated /\ enabled' = enabled
(* And the other nodes stay as they are.                                   *)
Frame(n) ==
  \A m \in Nodes \ {n} :
    /\ todo'[m] = todo[m] /\ on'[m] = on[m]
    /\ goal'[m] = goal[m] /\ current'[m] = current[m] /\ active'[m] = active[m]
Move(n) ==
  /\ Frame(n) /\ Pointing(n)'
  /\ Replans(n) \/ Unplans(n) \/ Proceeds(n) \/ Stays(n)

LEMMA MoveFits ==
  ASSUME FInv, TInv', NEW n \in Nodes, Move(n)
  PROVE  Fits(n, todo'[n], on'[n], underactuated', enabled')
<1>1. /\ todo[n] \in Seq(Item) /\ todo'[n] \in Seq(Item)
      /\ underactuated \in BOOLEAN /\ underactuated' \in BOOLEAN
      /\ Fits(n, todo[n], on[n], underactuated, enabled)
  BY DEF FInv, TInv, TypeOK, FitsAll
<1>2. CASE Replans(n)
  <2>1. underactuated' = underactuated \/ on[n] = {}
    BY <1>2 DEF Replans
  <2>2. Fits(n, todo'[n], on'[n], underactuated', enabled)
    BY <1>1, <1>2, <2>1, FitsReplan DEF Replans
  <2> QED BY <1>2, <2>2 DEF Replans
<1>3. CASE Unplans(n)
  BY <1>1, <1>3, FitsUnplanned DEF Unplans
<1>4. CASE Proceeds(n)
  <2>1. Fits(n, Tail(todo[n]), on[n], underactuated, enabled')
    BY <1>1, <1>4, FitsCall, FitsPart DEF Proceeds
  <2> QED BY <1>4, <2>1 DEF Proceeds
<1>5. CASE Stays(n)
  BY <1>1, <1>5 DEF Stays
<1> QED BY <1>2, <1>3, <1>4, <1>5 DEF Move

(* A step switches only what its node may call.                            *)
LEMMA MoveSwitches ==
  ASSUME FInv, NEW n \in Nodes, Move(n), NEW m \in Nodes \ {n}, NEW c \in Private(m)
  PROVE  c \in enabled' <=> c \in enabled
<1>1. CASE enabled' = enabled
  BY <1>1
<1>2. CASE enabled' = Switched(enabled, Head(todo[n])) /\ todo[n] # <<>> /\ Head(todo[n]).do = "set"
  <2>1. todo[n] \in Seq(Item) /\ Fits(n, todo[n], on[n], underactuated, enabled)
    BY DEF FInv, TInv, TypeOK, FitsAll
  <2>2. Head(todo[n]) = todo[n][1] /\ 1 \in DOMAIN todo[n]
    BY <1>2, <2>1, TailItems
  <2>3. Head(todo[n]).controller \in Private(n) \cup {"HDG"}
    BY <1>2, <2>1, <2>2 DEF Fits
  <2>4. c # Head(todo[n]).controller
    BY <2>3, PrivateControllers
  <2> QED BY <1>2, <2>4 DEF Switched
<1> QED BY <1>1, <1>2 DEF Move, Replans, Unplans, Proceeds, Stays

LEMMA MoveReasons ==
  ASSUME FInv, TInv', NEW n \in Nodes, Move(n), NEW c \in enabled'
  PROVE  \E m \in Nodes : Reason(m, todo'[m], on'[m], underactuated', c)
<1>1. /\ todo[n] \in Seq(Item) /\ todo'[n] \in Seq(Item) /\ c \in Controllers
      /\ underactuated \in BOOLEAN /\ underactuated' \in BOOLEAN
      /\ Fits(n, todo[n], on[n], underactuated, enabled)
      /\ c \in enabled => \E m \in Nodes : Reason(m, todo[m], on[m], underactuated, c)
  BY DEF FInv, TInv, TypeOK, FitsAll
<1>2. ASSUME Reason(n, todo[n], on[n], underactuated, c)
      PROVE  Reason(n, todo'[n], on'[n], underactuated', c)
  <2>1. CASE Replans(n)
    <3>1. underactuated' = underactuated \/ on[n] = {}
      BY <2>1 DEF Replans
    <3> QED BY <1>1, <1>2, <2>1, <3>1, ReasonReplan DEF Replans
  <2>2. CASE Unplans(n)
    BY <1>2, <2>2, ReasonUnplanned DEF Unplans
  <2>3. CASE Proceeds(n)
    <3>1. CASE Head(todo[n]).do = "set" /\ enabled' = Switched(enabled, Head(todo[n]))
      BY <1>1, <1>2, <2>3, <3>1, ReasonCall DEF Proceeds
    <3>2. CASE Head(todo[n]).do # "set"
      <4>1. todo[n] # <<>>
        BY <2>3 DEF Proceeds
      <4>2. /\ Head(todo[n]) = todo[n][1] /\ DOMAIN todo[n] \subseteq Nat \ {0}
            /\ \A i \in DOMAIN todo[n] :
                 i > 1 => /\ i - 1 \in DOMAIN Tail(todo[n])
                          /\ Tail(todo[n])[i - 1] = todo[n][i]
        BY <1>1, <4>1, TailItems
      <4>3. \A i \in DOMAIN todo[n] : todo[n][i] = Off(c) => i > 1
        BY <3>2, <4>2 DEF Off, Set
      <4> QED BY <1>2, <2>3, <4>2, <4>3 DEF Proceeds, Reason
    <3> QED BY <2>3, <3>1, <3>2 DEF Proceeds
  <2>4. CASE Stays(n)
    BY <1>2, <2>4 DEF Stays
  <2> QED BY <2>1, <2>2, <2>3, <2>4 DEF Move
<1>3. ASSUME NEW m \in Nodes \ {n}, Reason(m, todo[m], on[m], underactuated, c)
      PROVE  \E k \in Nodes : Reason(k, todo'[k], on'[k], underactuated', c)
  <2>1. todo'[m] = todo[m] /\ on'[m] = on[m]
    BY DEF Move, Frame
  <2>2. underactuated' = underactuated \/ m # "go2point"
    BY DEF Move, Replans, Unplans, Proceeds, Stays
  <2>3. Enabling(m, on[m], underactuated') = Enabling(m, on[m], underactuated)
    BY <2>2, OthersSubtype
  <2> QED BY <1>3, <2>1, <2>3 DEF Reason
<1>4. CASE c \in enabled
  BY <1>1, <1>2, <1>3, <1>4
<1>5. CASE c \notin enabled
  <2>1. /\ todo[n] # <<>> /\ todo'[n] = Tail(todo[n]) /\ on'[n] = on[n]
        /\ underactuated' = underactuated
        /\ Head(todo[n]).do = "set" /\ enabled' = Switched(enabled, Head(todo[n]))
    BY <1>5 DEF Move, Replans, Unplans, Proceeds, Stays
  <2>2. Reason(n, Tail(todo[n]), on[n], underactuated, c)
    BY <1>1, <1>5, <2>1, ReasonCall
  <2> QED BY <2>1, <2>2
<1> QED BY <1>4, <1>5

LEMMA MoveKeeps ==
  ASSUME FInv, TInv', NEW n \in Nodes, Move(n)
  PROVE  FInv'
<1>1. ASSUME NEW m \in Nodes PROVE Fits(m, todo'[m], on'[m], underactuated', enabled')
  <2>1. CASE m = n
    BY <2>1, MoveFits
  <2>2. CASE m # n
    <3>1. /\ todo'[m] = todo[m] /\ on'[m] = on[m]
          /\ Fits(m, todo[m], on[m], underactuated, enabled)
      BY <2>2 DEF Move, Frame, FInv, FitsAll
    <3>2. m # "go2point" \/ underactuated' = underactuated
      BY <2>2 DEF Move, Replans, Unplans, Proceeds, Stays
    <3>3. \A c \in Private(m) : c \in enabled' <=> c \in enabled
      BY <2>2, MoveSwitches
    <3> QED BY <3>1, <3>2, <3>3, FitsOther
  <2> QED BY <2>1, <2>2
<1>2. ASSUME NEW m \in Nodes PROVE Pointing(m)'
  BY DEF Move, Frame, FInv, Pointing
<1>3. FitsAll'
  BY <1>1, MoveReasons DEF FitsAll
<1> QED BY <1>2, <1>3 DEF FInv

(* What ends a callback comes last.                                        *)
Inner(q) == \A i \in DOMAIN q : q[i].do \notin {"goal", "succeeded"}

LEMMA UpdateInner ==
  ASSUME NEW n \in Nodes, NEW s, NEW ua \in BOOLEAN
  PROVE  Inner(Update(n, s, ua)) /\ \A i \in DOMAIN Update(n, s, ua) : Update(n, s, ua)[i].do = "set"
BY UpdateType DEF CallsOnce, Inner

LEMMA InnerThenLast ==
  ASSUME NEW q \in Seq(Item), NEW r \in Seq(Item), Inner(q)
  PROVE  /\ EndsLast(r) => EndsLast(q \o r)
         /\ Inner(r) => Inner(q \o r)
<1> DEFINE k == q \o r
<1>1. /\ DOMAIN k = 1 .. Len(q) + Len(r) /\ DOMAIN q = 1 .. Len(q) /\ DOMAIN r = 1 .. Len(r)
      /\ Len(q) \in Nat /\ Len(r) \in Nat
      /\ \A i \in DOMAIN q : k[i] = q[i]
      /\ \A i \in DOMAIN k : i \notin DOMAIN q => i - Len(q) \in DOMAIN r /\ k[i] = r[i - Len(q)]
  BY ConcatProperties
<1> HIDE DEF k
<1>2. ASSUME EndsLast(r) PROVE EndsLast(k)
  <2> SUFFICES ASSUME NEW i \in DOMAIN k, k[i].do \in {"goal", "succeeded"}, NEW j \in DOMAIN k
               PROVE  j <= i
    BY DEF EndsLast
  <2>1. i - Len(q) \in DOMAIN r /\ k[i] = r[i - Len(q)]
    BY <1>1 DEF Inner
  <2>2. \A l \in DOMAIN r : l <= i - Len(q)
    BY <1>2, <2>1 DEF EndsLast
  <2>3. Len(r) <= i - Len(q)
    BY <1>1, <2>1, <2>2
  <2> QED BY <1>1, <2>1, <2>3
<1>3. ASSUME Inner(r) PROVE Inner(k)
  BY <1>1, <1>3 DEF Inner
<1> QED BY <1>2, <1>3 DEF k

LEMMA InnerIsLast ==
  ASSUME NEW q, Inner(q)
  PROVE  EndsLast(q)
BY DEF Inner, EndsLast

LEMMA OneIsLast ==
  ASSUME NEW name \in {"goal", "preempted", "succeeded"}
  PROVE  /\ NoCalls(<<Part(name)>>) /\ EndsLast(<<Part(name)>>)
         /\ <<Part(name)>> \in Seq(Item) /\ <<Part(name)>>[1].do = name
         /\ NoCalls(<<>>) /\ EndsLast(<<>>) /\ <<>> \in Seq(Item)
<1> DEFINE q == <<Part(name)>>
<1>1. DOMAIN q = {1} /\ q[1].do = name
  BY DEF Part
<1>2. q \in Seq(Item) /\ <<>> \in Seq(Item)
  BY PartsAreItems
<1>3. NoCalls(<<>>) /\ EndsLast(<<>>)
  BY DEF NoCalls, EndsLast
<1> HIDE DEF q
<1>4. NoCalls(q) /\ EndsLast(q)
  BY <1>1 DEF NoCalls, EndsLast
<1> QED BY <1>1, <1>2, <1>3, <1>4 DEF q

LEMMA IdleHasNothing ==
  ASSUME NEW n \in Nodes, Idle(n)
  PROVE  NoCalls(todo[n]) /\ \A i \in DOMAIN todo[n] : FALSE
BY DEF Idle, NoCalls

(* When it comes to the end of a callback nothing else is left.            *)
LEMMA LastThingToDo ==
  ASSUME FInv, NEW n \in Nodes, Doing(n, "goal") \/ Doing(n, "succeeded")
  PROVE  /\ NoCalls(todo[n]) /\ todo[n] # <<>> /\ 1 \in DOMAIN todo[n]
         /\ Head(todo[n]) = todo[n][1]
<1>1. todo[n] \in Seq(Item) /\ todo[n] # <<>> /\ EndsLast(todo[n])
  BY DEF FInv, TInv, TypeOK, FitsAll, Fits, Doing, Idle
<1>2. Head(todo[n]) = todo[n][1] /\ 1 \in DOMAIN todo[n] /\ DOMAIN todo[n] \subseteq Nat \ {0}
  BY <1>1, TailItems
<1>3. \A j \in DOMAIN todo[n] : j = 1
  BY <1>1, <1>2 DEF EndsLast, Doing
<1> QED BY <1>1, <1>2, <1>3 DEF NoCalls, Doing

(* The end of onPreempt is a plan, and then parts.                         *)
LEMMA PreemptPlan ==
  ASSUME NEW n \in Nodes, NEW ua \in BOOLEAN, NEW then \in {<<>>, <<Part("goal")>>}
  PROVE  LET q == Update(n, {}, ua) \o <<Part("preempted")>> \o then
         IN /\ IsPlan(q, n, {}, ua) /\ EndsLast(q)
            /\ \E i \in DOMAIN q : q[i].do = "preempted"
<1> DEFINE u == Update(n, {}, ua)
           p == <<Part("preempted")>>
           v == u \o p
<1>1. u \in Seq(Item) /\ IsPlan(u, n, {}, ua) /\ Inner(u)
  BY UpdateItems, UpdateIsPlan, UpdateInner
<1>2. p \in Seq(Item) /\ NoCalls(p) /\ p[1].do = "preempted"
  BY OneIsLast
<1>3. Inner(p)
  BY DEF Inner, Part
<1>4. then \in Seq(Item) /\ NoCalls(then) /\ EndsLast(then)
  BY OneIsLast
<1>5. Len(p) = 1
  OBVIOUS
<1> HIDE DEF u, p
<1>6. v \in Seq(Item) /\ IsPlan(v, n, {}, ua) /\ Inner(v)
  BY <1>1, <1>2, <1>3, PlanThenParts, InnerThenLast
<1>7. Len(u) + 1 \in DOMAIN v /\ v[Len(u) + 1].do = "preempted"
  BY <1>1, <1>2, <1>5, ConcatProperties
<1> HIDE DEF v
<1>8. /\ Len(u) + 1 \in DOMAIN (v \o then) /\ (v \o then)[Len(u) + 1] = v[Len(u) + 1]
      /\ v \o then \in Seq(Item)
  BY <1>4, <1>6, <1>7, ConcatProperties
<1>9. IsPlan(v \o then, n, {}, ua) /\ EndsLast(v \o then)
  BY <1>4, <1>6, PlanThenParts, InnerThenLast
<1>10. \E i \in DOMAIN (v \o then) : (v \o then)[i].do = "preempted"
  BY <1>7, <1>8
<1> QED BY <1>9, <1>10 DEF u, p, v

LEMMA PreemptMoves ==
  ASSUME FInv, NEW n \in Nodes, Idle(n), NEW then \in {<<>>, <<Part("goal")>>}, OnPreempt(n, then),
         UNCHANGED <<enabled, underactuated, active, current>>
  PROVE  Move(n)
<1> DEFINE q == Update(n, {}, underactuated) \o <<Part("preempted")>> \o then
<1>1. /\ IsPlan(q, n, {}, underactuated) /\ EndsLast(q)
      /\ \E i \in DOMAIN q : q[i].do = "preempted"
  BY PreemptPlan DEF FInv, TInv, TypeOK
<1>2. /\ todo' = [todo EXCEPT ![n] = q] /\ goal' = [goal EXCEPT ![n] = 0]
      /\ on' = [on EXCEPT ![n] = {}]
  BY DEF OnPreempt
<1>3. n \in DOMAIN todo /\ n \in DOMAIN goal /\ n \in DOMAIN on
  BY DEF FInv, TInv, TypeOK
<1> HIDE DEF q
<1>4. todo'[n] = q /\ goal'[n] = 0 /\ on'[n] = {}
  BY <1>2, <1>3
<1>5. Frame(n)
  BY <1>2 DEF Frame
<1>6. Pointing(n)'
  BY <1>1, <1>4 DEF Pointing
<1>7. Replans(n)
  BY <1>1, <1>4, IdleHasNothing DEF Replans
<1> QED BY <1>5, <1>6, <1>7 DEF Move

(* An update of what is wanted to nothing.                                 *)
LEMMA OffMoves ==
  ASSUME FInv, NEW n \in Nodes, NoCalls(todo[n]), ~active'[n],
         UNCHANGED <<enabled, underactuated, current>>,
         goal' = [goal EXCEPT ![n] = 0] \/ goal' = goal,
         on' = [on EXCEPT ![n] = {}], active' = active \/ active' = [active EXCEPT ![n] = FALSE],
         todo' = [todo EXCEPT ![n] = Update(n, {}, underactuated)]
  PROVE  Move(n)
<1> DEFINE q == Update(n, {}, underactuated)
<1>1. IsPlan(q, n, {}, underactuated) /\ EndsLast(q) /\ GoalFree(q)
  BY UpdateIsPlan, UpdateInner, InnerIsLast, UpdateGoalFree DEF FInv, TInv, TypeOK
<1>2. todo' = [todo EXCEPT ![n] = q]
  OBVIOUS
<1>3. n \in DOMAIN todo /\ n \in DOMAIN on
  BY DEF FInv, TInv, TypeOK
<1> HIDE DEF q
<1>4. todo'[n] = q /\ on'[n] = {}
  BY <1>2, <1>3
<1>5. Frame(n)
  <2> SUFFICES ASSUME NEW m \in Nodes \ {n}
               PROVE  /\ todo'[m] = todo[m] /\ on'[m] = on[m]
                      /\ goal'[m] = goal[m] /\ current'[m] = current[m] /\ active'[m] = active[m]
    BY DEF Frame
  <2>1. todo'[m] = todo[m] /\ on'[m] = on[m]
    BY <1>2 DEF FInv, TInv, TypeOK
  <2>2. goal'[m] = goal[m] /\ current'[m] = current[m]
    BY DEF FInv, TInv, TypeOK
  <2>3. active'[m] = active[m]
    BY DEF FInv, TInv, TypeOK
  <2> QED BY <2>1, <2>2, <2>3
<1>6. Pointing(n)'
  BY <1>1, <1>4 DEF Pointing, GoalFree
<1>7. Replans(n)
  BY <1>1, <1>4 DEF Replans
<1> QED BY <1>5, <1>6, <1>7 DEF Move

LEMMA SetControllerMoves ==
  ASSUME FInv, NEW n \in Nodes, SetController(n)
  PROVE  Move(n)
<1>1. /\ todo[n] \in Seq(Item) /\ todo[n] # <<>> /\ n \in DOMAIN todo
      /\ Head(todo[n]).do = "set"
  BY DEF SetController, Doing, Idle, FInv, TInv, TypeOK
<1>2. /\ enabled' = Switched(enabled, Head(todo[n]))
      /\ todo' = [todo EXCEPT ![n] = Tail(@)]
      /\ UNCHANGED <<goal, on, underactuated, active, current>>
  <2>1. enabled' = Switched(enabled, Head(todo[n]))
    BY Zenon DEF SetController, Switched
  <2> QED BY <2>1 DEF SetController, server
<1>3. Frame(n)
  BY <1>2 DEF Frame, FInv, TInv, TypeOK
<1>4. /\ Head(todo[n]) = todo[n][1] /\ DOMAIN todo[n] \subseteq Nat \ {0}
      /\ \A i \in DOMAIN todo'[n] : i + 1 \in DOMAIN todo[n] /\ todo'[n][i] = todo[n][i + 1]
      /\ \A i \in DOMAIN todo[n] : i > 1 => i - 1 \in DOMAIN todo'[n] /\ todo'[n][i - 1] = todo[n][i]
  BY <1>1, <1>2, TailItems
<1>5. \A i \in DOMAIN todo[n] : todo[n][i].do = "preempted" => i > 1
  BY <1>1, <1>4
<1>6. Pointing(n)'
  <2>1. Pointing(n)
    BY DEF FInv
  <2>2. \A i \in DOMAIN todo'[n] : todo'[n][i].do = "goal" => goal'[n] = 0
    BY <1>2, <1>4, <2>1 DEF Pointing
  <2>3. (\E i \in DOMAIN todo[n] : todo[n][i].do = "preempted")
          => \E i \in DOMAIN todo'[n] : todo'[n][i].do = "preempted"
    BY <1>4, <1>5
  <2> QED BY <1>2, <2>1, <2>2, <2>3 DEF Pointing
<1>7. Proceeds(n)
  BY <1>1, <1>2 DEF Proceeds
<1> QED BY <1>3, <1>6, <1>7 DEF Move

LEMMA PreemptedMoves ==
  ASSUME FInv, NEW n \in Nodes, Preempted(n)
  PROVE  Move(n)
<1>1. /\ todo[n] \in Seq(Item) /\ todo[n] # <<>> /\ n \in DOMAIN todo /\ n \in DOMAIN active
      /\ Head(todo[n]).do # "set"
  BY DEF Preempted, Doing, Idle, FInv, TInv, TypeOK
<1>2. /\ todo' = [todo EXCEPT ![n] = Tail(@)] /\ active' = [active EXCEPT ![n] = FALSE]
      /\ UNCHANGED <<enabled, goal, on, underactuated, current>>
  BY DEF Preempted
<1>3. Frame(n)
  BY <1>2 DEF Frame, FInv, TInv, TypeOK
<1>4. \A i \in DOMAIN todo'[n] : i + 1 \in DOMAIN todo[n] /\ todo'[n][i] = todo[n][i + 1]
  BY <1>1, <1>2, TailItems
<1>5. Pointing(n)'
  BY <1>1, <1>2, <1>4 DEF Pointing, FInv
<1>6. Proceeds(n)
  BY <1>1, <1>2 DEF Proceeds
<1> QED BY <1>3, <1>5, <1>6 DEF Move

LEMMA SucceededMoves ==
  ASSUME FInv, NEW n \in Nodes, Succeeded(n)
  PROVE  Move(n)
<1>1. NoCalls(todo[n])
  BY LastThingToDo DEF Succeeded
<1>2. /\ active' = [active EXCEPT ![n] = FALSE] /\ goal' = [goal EXCEPT ![n] = 0]
      /\ on' = [on EXCEPT ![n] = {}]
      /\ todo' = [todo EXCEPT ![n] = Update(n, {}, underactuated)]
      /\ UNCHANGED <<enabled, underactuated, current>>
  BY DEF Succeeded
<1>3. ~active'[n]
  BY <1>2 DEF FInv, TInv, TypeOK
<1> QED BY <1>1, <1>2, <1>3, OffMoves

LEMMA StopControllersMoves ==
  ASSUME FInv, NEW n \in Nodes, StopControllers(n)
  PROVE  Move(n)
<1>1. NoCalls(todo[n])
  BY IdleHasNothing DEF StopControllers
<1>2. /\ active' = active /\ ~active[n]
      /\ goal' = [goal EXCEPT ![n] = 0] \/ goal' = goal
      /\ on' = [on EXCEPT ![n] = {}]
      /\ todo' = [todo EXCEPT ![n] = Update(n, {}, underactuated)]
      /\ UNCHANGED <<enabled, underactuated, current>>
  BY DEF StopControllers, server, FInv, TInv, TypeOK
<1> QED BY <1>1, <1>2, OffMoves

(* Nothing that concerns the nodes has changed.                            *)
LEMMA StillMoves ==
  ASSUME FInv, NEW n \in Nodes,
         UNCHANGED <<enabled, goal, on, underactuated, todo, active, current>>
  PROVE  Move(n)
BY DEF Move, Frame, Pointing, Stays, FInv

LEMMA ReceiveGoalMoves ==
  ASSUME FInv, NEW n \in Nodes, ReceiveGoal(n), EstimatesAreFrequent
  PROVE  Move(n)
<1>1. /\ Idle(n) /\ UNCHANGED <<enabled, underactuated, active, current>>
      /\ \/ UNCHANGED <<goal, on, todo>>
         \/ OnPreempt(n, <<Part("goal")>>)
         \/ /\ ~active[n] /\ todo' = [todo EXCEPT ![n] = <<Part("goal")>>]
            /\ UNCHANGED <<goal, on>>
  BY DEF ReceiveGoal, server
<1>2. CASE UNCHANGED <<goal, on, todo>>
  BY <1>1, <1>2, StillMoves
<1>3. CASE OnPreempt(n, <<Part("goal")>>)
  BY <1>1, <1>3, PreemptMoves
<1>4. CASE /\ ~active[n] /\ todo' = [todo EXCEPT ![n] = <<Part("goal")>>]
           /\ UNCHANGED <<goal, on>>
  <2>1. n \in DOMAIN todo
    BY DEF FInv, TInv, TypeOK
  <2>2. todo'[n] = <<Part("goal")>>
    BY <1>4, <2>1
  <2>3. goal[n] = 0
    BY <1>1, <1>4, <2>2 DEF EstimatesAreFrequent
  <2>4. Frame(n)
    BY <1>1, <1>4 DEF Frame, FInv, TInv, TypeOK
  <2>5. Pointing(n)'
    BY <1>1, <1>4, <2>3 DEF Pointing, FInv
  <2>6. Unplans(n)
    BY <1>1, <1>4, <2>2, IdleHasNothing, OneIsLast DEF Unplans
  <2> QED BY <2>4, <2>5, <2>6 DEF Move
<1> QED BY <1>1, <1>2, <1>3, <1>4

LEMMA ReceiveCancelMoves ==
  ASSUME FInv, NEW n \in Nodes, ReceiveCancel(n)
  PROVE  Move(n)
<1>1. /\ Idle(n) /\ UNCHANGED <<enabled, underactuated, active, current>>
      /\ OnPreempt(n, <<>>) \/ UNCHANGED <<goal, on, todo>>
  BY DEF ReceiveCancel
<1> QED BY <1>1, PreemptMoves, StillMoves

LEMMA DockStateHatMoves ==
  ASSUME FInv, DockStateHat
  PROVE  Move("docking")
<1> DEFINE n == "docking"
<1>1. /\ Idle(n) /\ n \in Nodes /\ todo' = [todo EXCEPT ![n] = <<Part("succeeded")>>]
      /\ UNCHANGED <<enabled, goal, on, underactuated, active, current>>
  BY DEF DockStateHat, server, Nodes
<1> HIDE DEF n
<1>2. todo'[n] = <<Part("succeeded")>>
  BY <1>1 DEF FInv, TInv, TypeOK
<1>3. Frame(n)
  BY <1>1 DEF Frame, FInv, TInv, TypeOK
<1>4. Pointing(n)
  BY <1>1 DEF FInv
<1>5. Pointing(n)'
  <2>1. \A i \in DOMAIN todo'[n] : todo'[n][i].do # "goal"
    BY <1>2, PartsGoalFree DEF GoalFree
  <2>2. \A i \in DOMAIN todo[n] : FALSE
    BY <1>1, IdleHasNothing
  <2> QED BY <1>1, <1>4, <2>1, <2>2 DEF Pointing
<1>6. Unplans(n)
  BY <1>1, <1>2, IdleHasNothing, OneIsLast DEF Unplans
<1> QED BY <1>3, <1>5, <1>6 DEF Move, n

LEMMA PointStateHatMoves ==
  ASSUME FInv, PointStateHat
  PROVE  Move("go2point")
<1> DEFINE n == "go2point"
           g == sent[goal[n]]
           s == on[n]
<1>1. PICK h \in Headings, last \in {<<>>, <<Part("succeeded")>>} :
        /\ on' = [on EXCEPT ![n] = Turned(g, s, underactuated, h)]
        /\ todo' = [todo EXCEPT ![n] = TurnCalls(g, s, underactuated, h) \o last]
  BY DEF PointStateHat
<1>2. /\ n \in Nodes /\ Idle(n) /\ active[n]
      /\ UNCHANGED <<enabled, goal, underactuated, active, current>>
  BY DEF PointStateHat, server, Nodes
<1> DEFINE t == Turned(g, s, underactuated, h)
           calls == TurnCalls(g, s, underactuated, h)
<1>3. /\ n \in DOMAIN todo /\ n \in DOMAIN on /\ underactuated \in BOOLEAN /\ s \in SUBSET Controllers
      /\ Pointing(n)
  BY <1>2 DEF FInv, TInv, TypeOK
<1>4. calls \in Seq(Item) /\ GoalFree(calls)
  BY <1>3, TurnTypes, TurnGoalFree
<1>5. last \in Seq(Item) /\ GoalFree(last) /\ NoCalls(last) /\ EndsLast(last)
  BY PartsGoalFree, OneIsLast
<1>6. todo'[n] = calls \o last /\ on'[n] = t
  BY <1>1, <1>3
<1>7. Frame(n)
  BY <1>1, <1>2 DEF Frame, FInv, TInv, TypeOK
<1>8. Pointing(n)'
  <2>1. goal[n] = current[n] /\ goal[n] # 0
    BY <1>2, <1>3, IdleHasNothing DEF Pointing
  <2>2. GoalFree(todo'[n])
    BY <1>4, <1>5, <1>6, ConcatGoalFree
  <2> QED BY <1>2, <2>1, <2>2 DEF Pointing, GoalFree
<1>9. CASE Turns(g, s, underactuated, h)
  <2>1. calls = Update(n, t, underactuated)
    BY <1>9 DEF TurnCalls
  <2> HIDE DEF calls, t
  <2>2. IsPlan(calls, n, t, underactuated) /\ Inner(calls)
    BY <1>2, <1>3, <2>1, UpdateIsPlan, UpdateInner
  <2>3. IsPlan(calls \o last, n, t, underactuated) /\ EndsLast(calls \o last)
    BY <1>2, <1>3, <1>4, <1>5, <2>2, PlanThenParts, InnerThenLast
  <2>4. Replans(n)
    BY <1>2, <1>6, <2>3, IdleHasNothing DEF Replans
  <2> QED BY <1>7, <1>8, <2>4 DEF Move
<1>10. CASE ~Turns(g, s, underactuated, h)
  <2>1. calls = <<>> /\ t = s
    BY <1>10 DEF TurnCalls, Turned
  <2>2. todo'[n] = last
    BY <1>5, <1>6, <2>1
  <2>3. Unplans(n)
    BY <1>2, <1>5, <1>6, <2>1, <2>2, IdleHasNothing DEF Unplans
  <2> QED BY <1>7, <1>8, <2>3 DEF Move
<1> QED BY <1>9, <1>10

(* The goal callback: its calls are a plan for what it leaves in `on'.     *)
LEMMA OnGoalPlans ==
  ASSUME FInv, TInv', NEW n \in Nodes, OnGoal(n), goal[n] = 0, goal_msgs[n] # <<>>
  PROVE  /\ IsPlan(todo'[n], n, on'[n], underactuated') /\ EndsLast(todo'[n])
         /\ underactuated' = underactuated \/ n = "go2point"
         /\ \A m \in Nodes \ {n} : on'[m] = on[m] /\ active'[m] = active[m]
<1> DEFINE g == sent[Head(goal_msgs[n])]
<1>1. /\ n \in DOMAIN todo /\ n \in DOMAIN on /\ n \in DOMAIN active
      /\ \A m \in Nodes : m \in DOMAIN on /\ m \in DOMAIN active
      /\ underactuated \in BOOLEAN /\ underactuated' \in BOOLEAN /\ on[n] \in SUBSET Controllers
  BY DEF FInv, TInv, TypeOK
<1>2. ASSUME NEW s, Accept(n, s, Update(n, s, underactuated))
      PROVE  /\ IsPlan(todo'[n], n, on'[n], underactuated') /\ EndsLast(todo'[n])
             /\ underactuated' = underactuated
             /\ \A m \in Nodes \ {n} : on'[m] = on[m] /\ active'[m] = active[m]
  <2>1. /\ IsPlan(Update(n, s, underactuated), n, s, underactuated)
        /\ EndsLast(Update(n, s, underactuated))
    BY <1>1, UpdateIsPlan, UpdateInner, InnerIsLast
  <2>2. /\ on'[n] = s /\ todo'[n] = Update(n, s, underactuated) /\ underactuated' = underactuated
        /\ \A m \in Nodes \ {n} : on'[m] = on[m] /\ active'[m] = active[m]
    BY <1>1, <1>2 DEF Accept
  <2> QED BY <2>1, <2>2
<1>3. CASE n = "go2point"
  <2>1. PICK h \in Headings : GoToPoint(g, h)
    BY <1>3 DEF OnGoal
  <2> DEFINE ua == ~g.fa
             t == Turned(g, on[n], ua, h)
             s == ForPoint(g, t, h)
             calls == TurnCalls(g, on[n], ua, h)
             u == Update(n, s, ua)
  <2>2. /\ todo' = [todo EXCEPT ![n] = calls \o u] /\ on' = [on EXCEPT ![n] = s]
        /\ active' = [active EXCEPT ![n] = g.valid] /\ underactuated' = ua
    BY <1>3, <2>1 DEF GoToPoint
  <2>3. ua \in BOOLEAN
    OBVIOUS
  <2>4. u \in Seq(Item) /\ IsPlan(u, n, s, ua) /\ Inner(u)
    BY <2>3, UpdateItems, UpdateIsPlan, UpdateInner
  <2>5. calls \in Seq(Item)
    BY <1>1, <2>3, TurnTypes
  <2>6. /\ Inner(calls)
        /\ \A i \in DOMAIN calls : calls[i].do = "set" => calls[i].controller \in Called(n, ua)
    <3>1. CASE calls = <<>>
      BY <3>1 DEF Inner
    <3>2. CASE calls = Update(n, t, ua)
      <4>1. CallsOnce(calls, Called(n, ua))
        BY <2>3, <3>2, UpdateType
      <4> HIDE DEF calls
      <4> QED BY <4>1 DEF CallsOnce, Inner
    <3> QED BY <1>3, <3>1, <3>2 DEF TurnCalls
  <2> HIDE DEF u, calls, s, ua
  <2>7. IsPlan(calls \o u, n, s, ua) /\ EndsLast(calls \o u)
    BY <2>3, <2>4, <2>5, <2>6, CallsThenPlan, InnerThenLast, InnerIsLast
  <2> QED BY <1>1, <1>3, <2>2, <2>7
<1>4. CASE n = "dynamic_positioning"
  <2> DEFINE s == Where("FADP", g.xy)
  <2>1. Accept(n, s, Update(n, s, underactuated))
    BY <1>4 DEF OnGoal, HoldPosition, Update
  <2> HIDE DEF s
  <2> QED BY <1>2, <2>1
<1>5. CASE n = "docking"
  <2>1. Accept(n, {}, Update(n, {}, underactuated))
    BY <1>5 DEF OnGoal, DockMussel, Update
  <2> QED BY <1>2, <2>1
<1>6. CASE n = "track_diver"
  <2>1. Accept(n, {"VT"}, Update(n, {"VT"}, underactuated))
    BY <1>6 DEF OnGoal, TrackDiver, Update
  <2> QED BY <1>2, <2>1
<1> QED BY <1>3, <1>4, <1>5, <1>6 DEF Nodes

LEMMA OnGoalMoves ==
  ASSUME FInv, TInv', NEW n \in Nodes, OnGoal(n)
  PROVE  Move(n)
<1> DEFINE id == Head(goal_msgs[n])
<1>1. goal_msgs[n] # <<>>
  BY GoalIsThere DEF OnGoal, FInv
<1>2. id # 0
  BY <1>1, NodeTypes, HeadTailProperties DEF FInv, TInv
<1>3. NoCalls(todo[n]) /\ goal[n] = 0 /\ on[n] = {}
  BY LastThingToDo DEF OnGoal, FInv, Pointing, Doing
<1>4. /\ IsPlan(todo'[n], n, on'[n], underactuated') /\ EndsLast(todo'[n])
      /\ underactuated' = underactuated \/ n = "go2point"
      /\ \A m \in Nodes \ {n} : on'[m] = on[m] /\ active'[m] = active[m]
  BY <1>1, <1>3, OnGoalPlans
<1>5. GoalFree(todo'[n]) /\ \A m \in Nodes \ {n} : todo'[m] = todo[m]
  BY <1>1, OnGoalFree DEF FInv, TInv
<1>6. /\ current' = [current EXCEPT ![n] = id] /\ goal' = [goal EXCEPT ![n] = id]
      /\ enabled' = enabled
  BY DEF OnGoal
<1> HIDE DEF id
<1>7. goal'[n] = id /\ current'[n] = id
  BY <1>6 DEF FInv, TInv, TypeOK
<1>8. Frame(n)
  <2>1. \A m \in Nodes \ {n} : goal'[m] = goal[m] /\ current'[m] = current[m]
    BY <1>6 DEF FInv, TInv, TypeOK
  <2> QED BY <1>4, <1>5, <2>1 DEF Frame
<1>9. Pointing(n)'
  BY <1>2, <1>5, <1>7 DEF Pointing, GoalFree
<1>10. Replans(n)
  BY <1>3, <1>4, <1>6 DEF Replans
<1> QED BY <1>8, <1>9, <1>10 DEF Move

-----------------------------------------------------------------------------
(* The theorems.                                                           *)

LEMMA FrequentInit ==
  Init => FInv
<1> SUFFICES ASSUME Init PROVE FInv
  OBVIOUS
<1>1. TInv
  BY TypesInit
<1>2. /\ \A n \in Nodes : todo[n] = <<>> /\ on[n] = {} /\ goal[n] = 0 /\ ~active[n]
      /\ enabled = {} /\ underactuated = FALSE
  BY DEF Init
<1>3. ASSUME NEW n \in Nodes PROVE Fits(n, <<>>, {}, FALSE, {})
  <2> DEFINE q == <<>>
             w == Enabling(n, {}, FALSE)
  <2>1. w = {}
    BY NothingEnabled
  <2>2. DOMAIN q = {}
    OBVIOUS
  <2> HIDE DEF q, w
  <2>3. EndsLast(q) /\ \A c \in Controllers : LastAgrees(q, c, w) /\ UndoneLater(q, c, w)
    BY <2>2 DEF EndsLast, LastAgrees, UndoneLater
  <2>4. Fits(n, q, {}, FALSE, {})
    BY <2>1, <2>2, <2>3 DEF Fits, w
  <2> QED BY <2>4 DEF q
<1>4. FitsAll
  BY <1>2, <1>3 DEF FitsAll
<1>5. \A n \in Nodes : Pointing(n)
  BY <1>2 DEF Pointing
<1> QED BY <1>1, <1>4, <1>5 DEF FInv

LEMMA FrequentStep ==
  FInv /\ [FrequentNext]_vars => FInv'
<1> SUFFICES ASSUME FInv, [FrequentNext]_vars PROVE FInv'
  OBVIOUS
<1>1. TInv'
  BY TypesStep DEF FInv, FrequentNext
<1>2. ASSUME NEW n \in Nodes, Callback(n) PROVE Move(n)
  BY <1>1, <1>2, SetControllerMoves, PreemptedMoves, OnGoalMoves, SucceededMoves DEF Callback
<1>3. ASSUME NEW n \in Nodes, Serve(n), EstimatesAreFrequent PROVE Move(n)
  BY <1>3, ReceiveGoalMoves, ReceiveCancelMoves, StopControllersMoves DEF Serve
<1>4. ASSUME Client \/ UNCHANGED vars PROVE Move("docking")
  <2>1. UNCHANGED <<enabled, goal, on, underactuated, todo, active, current>>
    BY <1>4 DEF Client, Start, Leave, vars, server
  <2>2. "docking" \in Nodes
    BY DEF Nodes
  <2> QED BY <2>1, <2>2, StillMoves
<1>5. "docking" \in Nodes /\ "go2point" \in Nodes
  BY DEF Nodes
<1>6. \E n \in Nodes : Move(n)
  BY <1>2, <1>3, <1>4, <1>5, PointStateHatMoves, DockStateHatMoves DEF FrequentNext, Next
<1> QED BY <1>1, <1>6, MoveKeeps

LEMMA FrequentInvariant ==
  FrequentSafety => []FInv
BY FrequentInit, FrequentStep, PTL DEF FrequentSafety

LEMMA WantedIsEnabling ==
  ASSUME NEW n \in Nodes
  PROVE  Wanted(n) = Enabling(n, on[n], underactuated)
BY DEF Wanted, Enabling

(* No controller is forgotten: whatever the order of goals, cancels, turns *)
(* and ends, one that is enabled is wanted by a node or is about to be     *)
(* disabled by a callback that runs.                                       *)
THEOREM PrimitivesNoneForgotten == FrequentSafety => []NoneForgotten
<1>1. FInv => NoneForgotten
  <2> SUFFICES ASSUME FInv, NEW c \in enabled
               PROVE  \E n \in Nodes : c \in Wanted(n) \/ Set(c, FALSE) \in ToSet(todo[n])
    BY DEF NoneForgotten
  <2>1. PICK n \in Nodes : Reason(n, todo[n], on[n], underactuated, c)
    BY DEF FInv, FitsAll
  <2>2. c \in Wanted(n) \/ Off(c) \in ToSet(todo[n])
    BY <2>1, WantedIsEnabling DEF Reason, ToSet
  <2> QED BY <2>2, Zenon DEF Off
<1> QED BY <1>1, FrequentInvariant, PTL

(* Between callbacks the controllers that only one node uses are as it     *)
(* wants them, and a node wants nothing without a goal.                    *)
THEOREM PrimitivesPrivateAsWanted == FrequentSafety => []PrivateAsWanted
<1>1. FInv => PrivateAsWanted
  <2> SUFFICES ASSUME FInv, NEW n \in Nodes, Idle(n)
               PROVE  /\ enabled \cap Private(n) = Wanted(n) \ {"HDG"}
                      /\ goal[n] = 0 => Wanted(n) = {}
    BY DEF PrivateAsWanted
  <2>1. /\ underactuated \in BOOLEAN /\ Fits(n, todo[n], on[n], underactuated, enabled)
        /\ Pointing(n)
    BY DEF FInv, TInv, TypeOK, FitsAll
  <2>2. \A c \in Private(n) : NotCalled(todo[n], c)
    BY IdleHasNothing DEF NotCalled
  <2>3. \A c \in Private(n) : c \in enabled <=> c \in Wanted(n)
    BY <2>1, <2>2, WantedIsEnabling DEF Fits
  <2>4. Wanted(n) \subseteq Private(n) \cup {"HDG"} /\ "HDG" \notin Private(n)
    BY <2>1, WantedIsEnabling, EnablingIsCalled, PrivateControllers
  <2>5. goal[n] = 0 => Wanted(n) = {}
    BY <2>1, WantedIsEnabling, NothingEnabled DEF Pointing
  <2> QED BY <2>3, <2>4, <2>5
<1> QED BY <1>1, FrequentInvariant, PTL

(* onStateHat finds the goal behind its pointer whenever a goal is active. *)
THEOREM PrimitivesGoalBehindPointer == FrequentSafety => []GoalBehindPointer
<1>1. FInv => GoalBehindPointer
  BY IdleHasNothing DEF FInv, Pointing, GoalBehindPointer
<1> QED BY <1>1, FrequentInvariant, PTL

-----------------------------------------------------------------------------
(* How a goal ends.                                                        *)

(* Goals wait in their order and later than the accepted one; the cancels  *)
(* that wait are of earlier primitives; what is being preempted is not the *)
(* running primitive's; and the goal callback follows the preempt callback.*)
Ordered(n) ==
  /\ \A i \in DOMAIN goal_msgs[n] :
       /\ current[n] < goal_msgs[n][i]
       /\ \A j \in DOMAIN goal_msgs[n] : i < j => goal_msgs[n][i] < goal_msgs[n][j]
  /\ \A i \in DOMAIN cancel_msgs[n] : running = 0 \/ cancel_msgs[n][i] < running
Ending(n) ==
  \A i \in DOMAIN todo[n] :
    /\ todo[n][i].do = "preempted" => running = 0 \/ current[n] < running
    /\ todo[n][i].do = "goal" =>
         ~active[n] \/ \E j \in DOMAIN todo[n] : j < i /\ todo[n][j].do = "preempted"
EInv == TInv /\ running \in {0, Len(sent)} /\ \A n \in Nodes : Ordered(n) /\ Ending(n)

(* A step of a node.                                                       *)
Local(n) ==
  /\ running' = running /\ sent' = sent
  /\ \A m \in Nodes \ {n} :
       /\ goal_msgs'[m] = goal_msgs[m] /\ cancel_msgs'[m] = cancel_msgs[m]
       /\ current'[m] = current[m] /\ todo'[m] = todo[m] /\ active'[m] = active[m]

LEMMA LocalKeeps ==
  ASSUME EInv, TInv', NEW n \in Nodes, Local(n), Ordered(n)', Ending(n)'
  PROVE  EInv'
<1>1. ASSUME NEW m \in Nodes PROVE Ordered(m)' /\ Ending(m)'
  <2>1. CASE m = n
    BY <2>1
  <2>2. CASE m # n
    BY <2>2 DEF Local, EInv, Ordered, Ending
  <2> QED BY <2>1, <2>2
<1> QED BY <1>1 DEF EInv, Local

LEMMA TailAscends ==
  ASSUME NEW S \in SUBSET Nat, NEW q \in Seq(S), q # <<>>
  PROVE  /\ Head(q) = q[1] /\ 1 \in DOMAIN q /\ DOMAIN q \subseteq Nat \ {0}
         /\ \A i \in DOMAIN Tail(q) : i \in Nat /\ i + 1 \in DOMAIN q /\ Tail(q)[i] = q[i + 1] /\ 1 < i + 1
BY HeadTailProperties

LEMMA EndsInit ==
  Init => EInv
<1> SUFFICES ASSUME Init PROVE EInv
  OBVIOUS
<1>1. TInv
  BY TypesInit
<1>2. running = 0
  BY DEF Init
<1>3. ASSUME NEW n \in Nodes PROVE Ordered(n) /\ Ending(n)
  <2>1. goal_msgs[n] = <<>> /\ cancel_msgs[n] = <<>> /\ todo[n] = <<>>
    BY DEF Init
  <2> QED BY <2>1 DEF Ordered, Ending
<1> QED BY <1>1, <1>2, <1>3 DEF EInv

(* A callback's step: what it takes away is no preemption that a goal      *)
(* callback still waits for.                                               *)
LEMMA ProceedEnds ==
  ASSUME EInv, NEW n \in Nodes, todo[n] # <<>>, todo'[n] = Tail(todo[n]),
         UNCHANGED <<current, running>>,
         ~active'[n] \/ (active'[n] = active[n] /\ Head(todo[n]).do # "preempted")
  PROVE  Ending(n)'
<1>1. todo[n] \in Seq(Item) /\ Ending(n)
  BY DEF EInv, TInv, TypeOK
<1>2. /\ Head(todo[n]) = todo[n][1] /\ DOMAIN todo[n] \subseteq Nat \ {0}
      /\ \A i \in DOMAIN todo'[n] : i + 1 \in DOMAIN todo[n] /\ todo'[n][i] = todo[n][i + 1]
      /\ \A i \in DOMAIN todo[n] : i > 1 => i - 1 \in DOMAIN todo'[n] /\ todo'[n][i - 1] = todo[n][i]
  BY <1>1, TailItems
<1>3. DOMAIN todo'[n] \subseteq Nat
  BY <1>1, TailItems
<1> SUFFICES ASSUME NEW i \in DOMAIN todo'[n]
             PROVE  /\ todo'[n][i].do = "preempted" => running' = 0 \/ current'[n] < running'
                    /\ todo'[n][i].do = "goal" =>
                         ~active'[n] \/ \E j \in DOMAIN todo'[n] : j < i /\ todo'[n][j].do = "preempted"
  BY DEF Ending
<1>4. todo'[n][i].do = "preempted" => running' = 0 \/ current'[n] < running'
  BY <1>1, <1>2 DEF Ending
<1>5. ASSUME todo'[n][i].do = "goal", active'[n]
      PROVE  \E j \in DOMAIN todo'[n] : j < i /\ todo'[n][j].do = "preempted"
  <2>1. active[n] /\ Head(todo[n]).do # "preempted"
    BY <1>5
  <2>2. PICK j \in DOMAIN todo[n] : j < i + 1 /\ todo[n][j].do = "preempted"
    BY <1>1, <1>2, <1>5, <2>1 DEF Ending
  <2>3. j > 1
    BY <1>2, <2>1, <2>2
  <2>4. j - 1 \in DOMAIN todo'[n] /\ j - 1 < i /\ todo'[n][j - 1].do = "preempted"
    BY <1>2, <1>3, <2>2, <2>3
  <2> QED BY <2>4
<1> QED BY <1>4, <1>5

(* A callback that is not onPreempt begins or is replaced.                 *)
LEMMA CalmEnds ==
  ASSUME NEW n \in Nodes, \A i \in DOMAIN todo'[n] : todo'[n][i].do \notin {"preempted", "goal"}
  PROVE  Ending(n)'
BY DEF Ending

LEMMA PreemptEnds ==
  ASSUME EInv, NEW n \in Nodes, NEW then \in {<<>>, <<Part("goal")>>}, OnPreempt(n, then),
         UNCHANGED <<current, running>>, running = 0 \/ current[n] < running
  PROVE  Ending(n)' /\ \A m \in Nodes \ {n} : todo'[m] = todo[m]
<1> DEFINE u == Update(n, {}, underactuated)
           p == <<Part("preempted")>>
           v == u \o p
           q == v \o then
<1>1. u \in Seq(Item) /\ AllCalls(u)
  BY UpdateItems, UpdateAllCalls DEF EInv, TInv, TypeOK
<1>2. p \in Seq(Item) /\ p[1].do = "preempted" /\ then \in Seq(Item)
  BY OneIsLast
<1>3. Len(p) = 1
  OBVIOUS
<1>4. todo' = [todo EXCEPT ![n] = q]
  BY DEF OnPreempt
<1> HIDE DEF u, p
<1>5. /\ v \in Seq(Item) /\ Len(v) = Len(u) + 1 /\ Len(u) \in Nat /\ Len(u) + 1 \in DOMAIN v
      /\ v[Len(u) + 1].do = "preempted"
      /\ \A i \in DOMAIN v : i <= Len(u) => v[i].do = "set"
  <2>1. /\ v \in Seq(Item) /\ Len(v) = Len(u) + 1 /\ Len(u) \in Nat
        /\ DOMAIN v = 1 .. Len(v) /\ DOMAIN u = 1 .. Len(u)
        /\ \A i \in DOMAIN u : v[i] = u[i]
        /\ v[Len(u) + 1] = p[1]
    BY <1>1, <1>2, <1>3, ConcatProperties
  <2> HIDE DEF v
  <2> QED BY <1>1, <1>2, <2>1 DEF AllCalls
<1> HIDE DEF v
<1>6. /\ q \in Seq(Item) /\ DOMAIN q \subseteq Nat \ {0}
      /\ \A i \in DOMAIN v : i \in DOMAIN q /\ q[i] = v[i]
      /\ \A i \in DOMAIN q : i <= Len(v) => i \in DOMAIN v
  BY <1>2, <1>5, ConcatProperties
<1> HIDE DEF q
<1>7. todo'[n] = q /\ \A m \in Nodes \ {n} : todo'[m] = todo[m]
  BY <1>4 DEF EInv, TInv, TypeOK
<1>8. \A i \in DOMAIN q : q[i].do = "goal" => Len(u) + 1 < i
  BY <1>5, <1>6
<1>9. Ending(n)'
  BY <1>5, <1>6, <1>7, <1>8 DEF Ending
<1> QED BY <1>7, <1>9

LEMMA ProceedsLocal ==
  ASSUME EInv, TInv', NEW n \in Nodes, SetController(n) \/ Preempted(n)
  PROVE  EInv'
<1>1. /\ todo[n] # <<>> /\ todo'[n] = Tail(todo[n])
      /\ UNCHANGED <<current, goal_msgs, cancel_msgs, sent, running>>
      /\ ~active'[n] \/ (active'[n] = active[n] /\ Head(todo[n]).do # "preempted")
      /\ \A m \in Nodes \ {n} : todo'[m] = todo[m] /\ active'[m] = active[m]
  BY DEF SetController, Preempted, Doing, Idle, server, msgs, client, EInv, TInv, TypeOK
<1>2. Ending(n)'
  BY <1>1, ProceedEnds
<1>3. Ordered(n)' /\ Local(n)
  BY <1>1 DEF EInv, Ordered, Local
<1> QED BY <1>2, <1>3, LocalKeeps

LEMMA CalmLocal ==
  ASSUME EInv, TInv', NEW n \in Nodes, NEW q, todo' = [todo EXCEPT ![n] = q],
         \A i \in DOMAIN q : q[i].do \notin {"preempted", "goal"},
         active' = active \/ active' = [active EXCEPT ![n] = FALSE],
         UNCHANGED <<current, goal_msgs, cancel_msgs, sent, running>>
  PROVE  EInv'
<1>1. todo'[n] = q /\ \A m \in Nodes \ {n} : todo'[m] = todo[m] /\ active'[m] = active[m]
  BY DEF EInv, TInv, TypeOK
<1>2. Ending(n)'
  BY <1>1, CalmEnds
<1>3. Ordered(n)' /\ Local(n)
  BY <1>1 DEF EInv, Ordered, Local
<1> QED BY <1>2, <1>3, LocalKeeps

LEMMA UpdateLocal ==
  ASSUME EInv, TInv', NEW n \in Nodes, Succeeded(n) \/ StopControllers(n)
  PROVE  EInv'
<1>1. /\ todo' = [todo EXCEPT ![n] = Update(n, {}, underactuated)]
      /\ active' = active \/ active' = [active EXCEPT ![n] = FALSE]
      /\ UNCHANGED <<current, goal_msgs, cancel_msgs, sent, running>>
  BY DEF Succeeded, StopControllers, server, msgs, client
<1>2. AllCalls(Update(n, {}, underactuated))
  BY UpdateAllCalls DEF EInv, TInv, TypeOK
<1> QED BY <1>1, <1>2, CalmLocal DEF AllCalls

LEMMA EstimateLocal ==
  ASSUME EInv, TInv', PointStateHat \/ DockStateHat
  PROVE  EInv'
<1>0. UNCHANGED <<active, current, goal_msgs, cancel_msgs, sent, running>>
  BY DEF PointStateHat, DockStateHat, server, msgs, client
<1>1. CASE PointStateHat
  <2> DEFINE n == "go2point"
             g == sent[goal[n]]
  <2>1. PICK h \in Headings, last \in {<<>>, <<Part("succeeded")>>} :
          todo' = [todo EXCEPT ![n] = TurnCalls(g, on[n], underactuated, h) \o last]
    BY <1>1 DEF PointStateHat
  <2> DEFINE calls == TurnCalls(g, on[n], underactuated, h)
             q == calls \o last
  <2>2. n \in Nodes /\ on[n] \in SUBSET Controllers /\ underactuated \in BOOLEAN
    BY DEF Nodes, EInv, TInv, TypeOK
  <2>3. calls \in Seq(Item) /\ AllCalls(calls)
    BY <2>2, TurnTypes, TurnAllCalls
  <2>4. last \in Seq(Item) /\ \A i \in DOMAIN last : last[i].do \notin {"preempted", "goal"}
    <3>1. \A i \in DOMAIN <<Part("succeeded")>> : <<Part("succeeded")>>[i].do = "succeeded"
      BY DEF Part
    <3>2. \A i \in DOMAIN <<>> : FALSE
      OBVIOUS
    <3> QED BY <3>1, <3>2, OneIsLast
  <2> HIDE DEF calls
  <2>5. \A i \in DOMAIN q : q[i].do \notin {"preempted", "goal"}
    BY <2>3, <2>4, ConcatProperties DEF AllCalls
  <2>6. todo' = [todo EXCEPT ![n] = q]
    BY <2>1 DEF calls
  <2> HIDE DEF q, n
  <2> QED BY <1>0, <2>2, <2>5, <2>6, CalmLocal
<1>2. CASE DockStateHat
  <2> DEFINE q == <<Part("succeeded")>>
  <2>1. "docking" \in Nodes /\ todo' = [todo EXCEPT !["docking"] = q]
    BY <1>2 DEF DockStateHat, Nodes
  <2>2. \A i \in DOMAIN q : q[i].do \notin {"preempted", "goal"}
    BY DEF Part
  <2> HIDE DEF q
  <2> QED BY <1>0, <2>1, <2>2, CalmLocal
<1> QED BY <1>1, <1>2

(* The first goal is taken away, to be accepted or to be dropped.          *)
LEMMA FirstTakenAway ==
  ASSUME EInv, NEW n \in Nodes, goal_msgs[n] # <<>>, goal_msgs'[n] = Tail(goal_msgs[n]),
         UNCHANGED <<cancel_msgs, running>>, current'[n] \in {current[n], Head(goal_msgs[n])}
  PROVE  Ordered(n)'
<1>1. Ids \ {0} \in SUBSET Nat /\ goal_msgs[n] \in Seq(Ids \ {0}) /\ Ordered(n)
  <2>1. Ids \ {0} \in SUBSET Nat
    BY DEF Ids
  <2> QED BY <2>1, NodeTypes DEF EInv, TInv
<1>2. /\ Head(goal_msgs[n]) = goal_msgs[n][1] /\ 1 \in DOMAIN goal_msgs[n]
      /\ \A i \in DOMAIN goal_msgs'[n] :
           /\ i \in Nat /\ i + 1 \in DOMAIN goal_msgs[n]
           /\ goal_msgs'[n][i] = goal_msgs[n][i + 1] /\ 1 < i + 1
  BY <1>1, TailAscends
<1>3. \A i \in DOMAIN goal_msgs'[n] : current'[n] < goal_msgs'[n][i]
  BY <1>1, <1>2 DEF Ordered
<1>4. ASSUME NEW i \in DOMAIN goal_msgs'[n], NEW j \in DOMAIN goal_msgs'[n], i < j
      PROVE  goal_msgs'[n][i] < goal_msgs'[n][j]
  <2>1. i + 1 < j + 1
    BY <1>2, <1>4
  <2>2. goal_msgs[n][i + 1] < goal_msgs[n][j + 1]
    BY <1>1, <1>2, <2>1 DEF Ordered
  <2> QED BY <1>2, <2>2
<1> QED BY <1>1, <1>3, <1>4 DEF Ordered

LEMMA OnGoalActive ==
  ASSUME TInv, NEW n \in Nodes, OnGoal(n)
  PROVE  \A m \in Nodes \ {n} : active'[m] = active[m]
<1>1. n = "go2point" => \E h \in Headings : GoToPoint(sent[Head(goal_msgs[n])], h)
  BY DEF OnGoal
<1>2. n # "go2point" => \E s, calls : Accept(n, s, calls)
  <2>1. n # "go2point" => \/ HoldPosition(sent[Head(goal_msgs[n])]) /\ n = "dynamic_positioning"
                          \/ DockMussel /\ n = "docking"
                          \/ TrackDiver /\ n = "track_diver"
    BY DEF OnGoal, Nodes
  <2> QED BY <2>1 DEF HoldPosition, DockMussel, TrackDiver
<1>3. \E b : active' = [active EXCEPT ![n] = b]
  BY <1>1, <1>2 DEF GoToPoint, Accept
<1> QED BY <1>3 DEF TInv, TypeOK

LEMMA OnGoalLocal ==
  ASSUME EInv, TInv', NEW n \in Nodes, OnGoal(n)
  PROVE  EInv'
<1>1. goal_msgs[n] # <<>>
  BY GoalIsThere DEF OnGoal, EInv
<1>2. AllCalls(todo'[n]) /\ \A m \in Nodes \ {n} : todo'[m] = todo[m]
  BY <1>1, OnGoalCalls DEF EInv, TInv
<1>3. /\ goal_msgs' = [goal_msgs EXCEPT ![n] = Tail(@)]
      /\ current' = [current EXCEPT ![n] = Head(goal_msgs[n])]
      /\ UNCHANGED <<cancel_msgs, sent, running>>
  BY DEF OnGoal, client
<1>4. \A m \in Nodes \ {n} : active'[m] = active[m]
  BY OnGoalActive DEF EInv
<1>5. /\ goal_msgs'[n] = Tail(goal_msgs[n]) /\ current'[n] = Head(goal_msgs[n])
      /\ \A m \in Nodes \ {n} : goal_msgs'[m] = goal_msgs[m] /\ current'[m] = current[m]
  BY <1>3 DEF EInv, TInv, TypeOK
<1>6. Ordered(n)'
  BY <1>1, <1>3, <1>5, FirstTakenAway
<1>7. Ending(n)'
  BY <1>2, CalmEnds DEF AllCalls
<1>8. Local(n)
  BY <1>2, <1>3, <1>4, <1>5 DEF Local
<1> QED BY <1>6, <1>7, <1>8, LocalKeeps

LEMMA ReceiveGoalLocal ==
  ASSUME EInv, TInv', NEW n \in Nodes, ReceiveGoal(n)
  PROVE  EInv'
<1>1. /\ Idle(n) /\ goal_msgs[n] # <<>>
      /\ UNCHANGED <<active, current, cancel_msgs, sent, running>>
  BY DEF ReceiveGoal, server, client
<1>2. CASE Head(goal_msgs[n]) <= lastCancel[n]
  <2>1. goal_msgs' = [goal_msgs EXCEPT ![n] = Tail(@)] /\ todo' = todo
    BY <1>2 DEF ReceiveGoal
  <2>2. /\ goal_msgs'[n] = Tail(goal_msgs[n])
        /\ \A m \in Nodes \ {n} : goal_msgs'[m] = goal_msgs[m]
    BY <2>1 DEF EInv, TInv, TypeOK
  <2>3. Ordered(n)'
    BY <1>1, <2>2, FirstTakenAway
  <2>4. Ending(n)'
    BY <1>1, <2>1, IdleHasNothing DEF Ending
  <2>5. Local(n)
    BY <1>1, <2>1, <2>2 DEF Local
  <2> QED BY <2>3, <2>4, <2>5, LocalKeeps
<1>3. CASE ~(Head(goal_msgs[n]) <= lastCancel[n])
  <2>1. /\ goal_msgs' = goal_msgs
        /\ \/ OnPreempt(n, <<Part("goal")>>)
           \/ ~active[n] /\ todo' = [todo EXCEPT ![n] = <<Part("goal")>>]
    BY <1>3 DEF ReceiveGoal
  <2>2. Ordered(n)'
    BY <1>1, <2>1 DEF EInv, Ordered
  <2>3. CASE OnPreempt(n, <<Part("goal")>>)
    <3>1. running = 0 \/ current[n] < running
      <4>1. goal_msgs[n] \in Seq(Ids \ {0}) /\ Ordered(n) /\ running \in {0, Len(sent)}
        BY DEF EInv, TInv, TypeOK
      <4>2. 1 \in DOMAIN goal_msgs[n] /\ goal_msgs[n][1] \in Ids
        BY <1>1, <4>1, HeadTailProperties
      <4>3. current[n] < goal_msgs[n][1] /\ goal_msgs[n][1] <= Len(sent)
        BY <4>1, <4>2 DEF Ordered, Ids
      <4>4. current[n] \in Nat /\ Len(sent) \in Nat /\ goal_msgs[n][1] \in Nat
        BY <4>2 DEF EInv, TInv, TypeOK, Ids
      <4> QED BY <4>1, <4>3, <4>4
    <3>2. Ending(n)' /\ \A m \in Nodes \ {n} : todo'[m] = todo[m]
      BY <1>1, <2>3, <3>1, PreemptEnds
    <3>3. Local(n)
      BY <1>1, <2>1, <3>2 DEF Local
    <3> QED BY <2>2, <3>2, <3>3, LocalKeeps
  <2>4. CASE ~active[n] /\ todo' = [todo EXCEPT ![n] = <<Part("goal")>>]
    <3>1. /\ todo'[n] = <<Part("goal")>> /\ ~active'[n]
          /\ \A m \in Nodes \ {n} : todo'[m] = todo[m]
      BY <1>1, <2>4 DEF EInv, TInv, TypeOK
    <3>2. \A i \in DOMAIN todo'[n] : todo'[n][i].do # "preempted"
      BY <3>1 DEF Part
    <3>3. Ending(n)'
      BY <3>1, <3>2 DEF Ending
    <3>4. Local(n)
      BY <1>1, <2>1, <3>1 DEF Local
    <3> QED BY <2>2, <3>3, <3>4, LocalKeeps
  <2> QED BY <2>1, <2>3, <2>4
<1> QED BY <1>2, <1>3

LEMMA ReceiveCancelLocal ==
  ASSUME EInv, TInv', NEW n \in Nodes, ReceiveCancel(n)
  PROVE  EInv'
<1> DEFINE stamp == Head(cancel_msgs[n])
<1>1. /\ Idle(n) /\ cancel_msgs[n] # <<>> /\ cancel_msgs' = [cancel_msgs EXCEPT ![n] = Tail(@)]
      /\ UNCHANGED <<active, current, goal_msgs, sent, running>>
      /\ (OnPreempt(n, <<>>) /\ current[n] <= stamp) \/ todo' = todo
  <2>1. /\ Idle(n) /\ cancel_msgs[n] # <<>> /\ cancel_msgs' = [cancel_msgs EXCEPT ![n] = Tail(@)]
        /\ UNCHANGED <<active, current, goal_msgs, sent, running>>
    BY DEF ReceiveCancel, client
  <2>2. (OnPreempt(n, <<>>) /\ current[n] <= stamp) \/ todo' = todo
    BY DEF ReceiveCancel
  <2> QED BY <2>1, <2>2
<1>2. Ids \ {0} \in SUBSET Nat /\ cancel_msgs[n] \in Seq(Ids \ {0}) /\ Ordered(n)
  <2>1. Ids \ {0} \in SUBSET Nat
    BY DEF Ids
  <2> QED BY <2>1, NodeTypes DEF EInv, TInv
<1>3. /\ cancel_msgs'[n] = Tail(cancel_msgs[n])
      /\ \A m \in Nodes \ {n} : cancel_msgs'[m] = cancel_msgs[m]
  BY <1>1 DEF EInv, TInv, TypeOK
<1>4. /\ stamp = cancel_msgs[n][1] /\ 1 \in DOMAIN cancel_msgs[n]
      /\ \A i \in DOMAIN cancel_msgs'[n] :
           i + 1 \in DOMAIN cancel_msgs[n] /\ cancel_msgs'[n][i] = cancel_msgs[n][i + 1]
  <2>1. cancel_msgs[n] # <<>>
    BY <1>1
  <2>2. /\ stamp = cancel_msgs[n][1] /\ 1 \in DOMAIN cancel_msgs[n]
        /\ \A i \in DOMAIN Tail(cancel_msgs[n]) :
             i + 1 \in DOMAIN cancel_msgs[n] /\ Tail(cancel_msgs[n])[i] = cancel_msgs[n][i + 1]
    BY <1>2, <2>1, TailAscends
  <2> HIDE DEF stamp
  <2> QED BY <1>3, <2>2
<1>5. Ordered(n)'
  BY <1>1, <1>2, <1>4 DEF Ordered
<1>6. CASE todo' = todo
  <2>1. Ending(n)'
    BY <1>1, <1>6, IdleHasNothing DEF Ending
  <2>2. Local(n)
    BY <1>1, <1>3, <1>6 DEF Local
  <2> QED BY <1>5, <2>1, <2>2, LocalKeeps
<1>7. CASE OnPreempt(n, <<>>) /\ current[n] <= stamp
  <2>1. running = 0 \/ stamp < running
    BY <1>2, <1>4 DEF Ordered
  <2>2. stamp \in Nat /\ current[n] \in Nat /\ running \in Nat
    BY <1>1, <1>2, HeadTailProperties DEF EInv, TInv, TypeOK, Ids
  <2>3. running = 0 \/ current[n] < running
    BY <1>7, <2>1, <2>2
  <2>4. Ending(n)' /\ \A m \in Nodes \ {n} : todo'[m] = todo[m]
    BY <1>1, <1>7, <2>3, PreemptEnds
  <2>5. Local(n)
    BY <1>1, <1>3, <2>4 DEF Local
  <2> QED BY <1>5, <2>4, <2>5, LocalKeeps
<1> QED BY <1>1, <1>6, <1>7

LEMMA AppendLast ==
  ASSUME NEW S, NEW q \in Seq(S), NEW x \in S
  PROVE  /\ DOMAIN q \subseteq Nat
         /\ \A i \in DOMAIN Append(q, x) :
              \/ i \in DOMAIN q /\ Append(q, x)[i] = q[i]
              \/ Append(q, x)[i] = x /\ \A j \in DOMAIN Append(q, x) : j <= i
BY AppendProperties

LEMMA StartLocal ==
  ASSUME EInv, TInv', NEW g \in Goals, Start(g)
  PROVE  EInv'
<1> DEFINE k == Len(sent) + 1
<1>1. /\ running' = k /\ Len(sent') = k /\ running = 0 /\ Len(sent) \in Nat
      /\ goal_msgs' = [goal_msgs EXCEPT ![g.node] = Append(@, k)]
      /\ UNCHANGED <<todo, current, active, cancel_msgs>>
  BY DEF Start, server, EInv, TInv, TypeOK
<1>2. g.node \in Nodes /\ k \in Nat
  BY <1>1, GoalsAssumption DEF Goal
<1>3. \A i \in Ids : i \in Nat /\ i < k
  BY <1>1 DEF Ids
<1> HIDE DEF k
<1>4. ASSUME NEW n \in Nodes PROVE Ordered(n)' /\ Ending(n)'
  <2>1. /\ goal_msgs[n] \in Seq(Ids \ {0}) /\ cancel_msgs[n] \in Seq(Ids \ {0})
        /\ current[n] \in Ids /\ Ordered(n) /\ Ending(n)
    BY DEF EInv, TInv, TypeOK
  <2>2. /\ \A i \in DOMAIN cancel_msgs[n] : cancel_msgs[n][i] \in Ids
        /\ \A i \in DOMAIN goal_msgs[n] : goal_msgs[n][i] \in Ids
    BY <2>1, ElementOfSeq
  <2>3. Ending(n)'
    BY <1>1, <1>3, <2>1 DEF Ending
  <2>4. \A i \in DOMAIN cancel_msgs'[n] : cancel_msgs'[n][i] < running'
    BY <1>1, <1>3, <2>2
  <2>5. CASE n # g.node
    <3>1. goal_msgs'[n] = goal_msgs[n]
      BY <1>1, <2>5 DEF EInv, TInv, TypeOK
    <3> QED BY <1>1, <2>1, <2>3, <2>4, <3>1 DEF Ordered
  <2>6. CASE n = g.node
    <3> DEFINE q == goal_msgs[n]
               r == Append(q, k)
    <3>1. goal_msgs'[n] = r
      BY <1>1, <2>6 DEF EInv, TInv, TypeOK
    <3>2. q \in Seq(Nat)
      <4>1. Ids \ {0} \subseteq Nat
        BY <1>3
      <4> QED BY <2>1, <4>1
    <3>3. /\ DOMAIN q \subseteq Nat
          /\ \A i \in DOMAIN r : \/ i \in DOMAIN q /\ r[i] = q[i]
                                 \/ r[i] = k /\ \A j \in DOMAIN r : j <= i
      BY <1>2, <3>2, AppendLast
    <3>4. DOMAIN r \subseteq Nat
      BY <1>2, <3>2, AppendProperties
    <3> HIDE DEF r
    <3>5. \A i \in DOMAIN r : current[n] < r[i]
      BY <1>3, <2>1, <3>3 DEF Ordered
    <3>6. ASSUME NEW i \in DOMAIN r, NEW j \in DOMAIN r, i < j PROVE r[i] < r[j]
      <4>1. i \in DOMAIN q /\ r[i] = q[i] /\ q[i] \in Ids
        BY <2>2, <3>3, <3>4, <3>6
      <4>2. CASE j \in DOMAIN q /\ r[j] = q[j]
        BY <2>1, <3>6, <4>1, <4>2 DEF Ordered
      <4>3. CASE r[j] = k
        BY <1>3, <4>1, <4>3
      <4> QED BY <3>3, <4>2, <4>3
    <3> QED BY <1>1, <2>3, <2>4, <3>1, <3>5, <3>6 DEF Ordered
  <2> QED BY <2>5, <2>6
<1> QED BY <1>1, <1>4 DEF EInv

LEMMA LeaveLocal ==
  ASSUME EInv, TInv', Leave
  PROVE  EInv'
<1>1. running' = 0 /\ sent' = sent /\ UNCHANGED <<todo, current, active, goal_msgs>>
  BY DEF Leave, server
<1>2. ASSUME NEW n \in Nodes PROVE Ordered(n)' /\ Ending(n)'
  BY <1>1 DEF EInv, Ordered, Ending
<1> QED BY <1>1, <1>2 DEF EInv

LEMMA EndsStep ==
  EInv /\ [Next]_vars => EInv'
<1> SUFFICES ASSUME EInv, [Next]_vars PROVE EInv'
  OBVIOUS
<1>1. TInv'
  BY TypesStep DEF EInv
<1>2. ASSUME NEW n \in Nodes, Callback(n) PROVE EInv'
  BY <1>1, <1>2, ProceedsLocal, OnGoalLocal, UpdateLocal DEF Callback
<1>3. ASSUME NEW n \in Nodes, Serve(n) PROVE EInv'
  BY <1>1, <1>3, ReceiveGoalLocal, ReceiveCancelLocal, UpdateLocal DEF Serve
<1>4. ASSUME Client PROVE EInv'
  BY <1>1, <1>4, StartLocal, LeaveLocal DEF Client
<1>5. CASE UNCHANGED vars
  BY <1>1, <1>5 DEF vars, server, msgs, client, EInv, Ordered, Ending
<1> QED BY <1>1, <1>2, <1>3, <1>4, <1>5, EstimateLocal DEF Next

(* The goal of the running primitive is ended by nothing but its success.  *)
THEOREM PrimitivesEndBySuccess == Safety => EndsBySuccess
<1> DEFINE Ends == \A n \in Nodes :
                     (active[n] /\ ~active'[n] /\ current[n] = running /\ running # 0) => Succeeded(n)
<1>1. EInv /\ [Next]_vars => [Ends]_vars
  <2> SUFFICES ASSUME EInv, Next, NEW n \in Nodes,
                      active[n], ~active'[n], current[n] = running, running # 0
               PROVE  Succeeded(n)
    OBVIOUS
  <2>1. current[n] \in Nat /\ Ending(n)
    BY DEF EInv, TInv, TypeOK, Ids
  <2>2. ASSUME NEW k \in Nodes, Preempted(k) PROVE FALSE
    <3>1. k = n
      BY <2>2 DEF Preempted, EInv, TInv, TypeOK
    <3>2. todo[n] \in Seq(Item) /\ todo[n] # <<>> /\ Head(todo[n]).do = "preempted"
      BY <2>2, <3>1 DEF Preempted, Doing, Idle, EInv, TInv, TypeOK
    <3>3. Head(todo[n]) = todo[n][1] /\ 1 \in DOMAIN todo[n]
      BY <3>2, TailItems
    <3>4. running = 0 \/ current[n] < running
      BY <2>1, <3>2, <3>3 DEF Ending
    <3> QED BY <2>1, <3>4
  <2>3. ASSUME NEW k \in Nodes, OnGoal(k) PROVE FALSE
    <3>1. k = n
      <4>1. k # n => active'[n] = active[n]
        BY <2>3, OnGoalActive DEF EInv
      <4> QED BY <4>1
    <3>2. todo[n] \in Seq(Item) /\ todo[n] # <<>> /\ Head(todo[n]).do = "goal"
      BY <2>3, <3>1 DEF OnGoal, Doing, Idle, EInv, TInv, TypeOK
    <3>3. Head(todo[n]) = todo[n][1] /\ 1 \in DOMAIN todo[n] /\ DOMAIN todo[n] \subseteq Nat \ {0}
      BY <3>2, TailItems
    <3>4. ~active[n] \/ \E j \in DOMAIN todo[n] : j < 1
      BY <2>1, <3>2, <3>3 DEF Ending
    <3> QED BY <3>3, <3>4
  <2>4. ASSUME NEW k \in Nodes, Succeeded(k) PROVE Succeeded(n)
    <3>1. k = n
      BY <2>4 DEF Succeeded, EInv, TInv, TypeOK
    <3> QED BY <2>4, <3>1
  <2>5. \E k \in Nodes : Preempted(k) \/ OnGoal(k) \/ Succeeded(k)
    <3>1. active' # active
      OBVIOUS
    <3>2. ~Client /\ ~PointStateHat /\ ~DockStateHat
      BY <3>1 DEF Client, Start, Leave, PointStateHat, DockStateHat, server
    <3>3. \A k \in Nodes : ~SetController(k) /\ ~Serve(k)
      BY <3>1 DEF SetController, Serve, ReceiveGoal, ReceiveCancel, StopControllers, server
    <3> QED BY <3>2, <3>3 DEF Next, Callback
  <2> QED BY <2>2, <2>3, <2>4, <2>5
<1> QED BY <1>1, EndsInit, EndsStep, PTL DEF Safety, EndsBySuccess
=============================================================================
