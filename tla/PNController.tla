------------------------------ MODULE PNController ------------------------------
(***************************************************************************)
(* The execution controller of labust_execution: controllers register the  *)
(* degrees of freedom (DOFs) and the lower-level controllers they use, and *)
(* a Petri net decides which of them may run.  A place per DOF holds a     *)
(* token while the DOF is free, a place per controller holds one while the *)
(* controller runs; enable_t of a controller takes a token from everything *)
(* it uses, disable_t gives them back.                                     *)
(*                                                                         *)
(* The node has one thread (ros::spin), so a callback runs alone.  The     *)
(* loops of its two callbacks are steps here: pc says where the callback   *)
(* is, and no other callback starts until it returns.                      *)
(***************************************************************************)
EXTENDS Integers, FiniteSets, Sequences, SequencesExt

CONSTANTS
  NDof,       \* number of DOF places (6 in the code: X, Y, Z, K, M, N)
  Requests    \* the registration requests that may arrive

Dofs == 0 .. NDof - 1

(* A request uses something, and names a used controller once.  The code   *)
(* does not check it; see the hazards about faulty registrations.          *)
ASSUME NDofAssumption == NDof \in Nat \ {0}
ASSUME RequestsAssumption ==
  \A r \in Requests :
    /\ r.dofs \subseteq Dofs
    /\ r.cnts \in Seq({q.name : q \in Requests})
    /\ r.dofs # {} \/ r.cnts # <<>>
    /\ IsInjective(r.cnts)

VARIABLES
  registry,      \* the registered controllers, in order: name and used places
  dep_resource,  \* DOFs a controller's place depends on, directly or not
  marking,       \* tokens of every place
  pc,            \* where the running callback is
  target,        \* place last asked for (des_place), or NoPlace
  m,             \* marking the firing loop works on
  firing_seq,    \* transitions still to be fired
  pass,          \* transitions of firing_seq not yet visited in this pass
  rem,           \* transitions fired in this pass
  count,         \* transitions found not enabled so far
  maxcount,      \* how many of them are tolerated
  all_markings,  \* vertices of the reachability graph
  new_markings   \* its vertices whose successors are not yet computed

net == <<registry, dep_resource>>
firing == <<m, firing_seq, pass, rem, count, maxcount>>
rgraph == <<all_markings, new_markings>>
vars == <<registry, dep_resource, marking, pc, target, m, firing_seq, pass,
          rem, count, maxcount, all_markings, new_markings>>

-----------------------------------------------------------------------------
(* The net.  Controller k has place NDof + k - 1, the even transition      *)
(* 2(k - 1) enables it and the odd one after it disables it.               *)

NoPlace == -1
Controllers == 1 .. Len(registry)
Place(k) == NDof + k - 1
Places == 0 .. NDof + Len(registry) - 1
Transitions == 0 .. 2 * Len(registry) - 1

EnableT(k) == 2 * (k - 1)
DisableT(k) == 2 * (k - 1) + 1
ControllerOf(t) == t \div 2 + 1
IsEnable(t) == t % 2 = 0
Pair(t) == IF IsEnable(t) THEN t + 1 ELSE t - 1

Used(k) == registry[k].dofs \cup Range(registry[k].cnts)

Inputs(t) ==
  IF IsEnable(t) THEN Used(ControllerOf(t)) ELSE {Place(ControllerOf(t))}
Outputs(t) ==
  IF IsEnable(t) THEN {Place(ControllerOf(t))} ELSE Used(ControllerOf(t))

(* The test m^T Dm(t) = sum of Dm(t): the tokens on the input places are   *)
(* counted together and compared with the number of input places.          *)
TokensOn(S, mk) == UNION {{p} \X (1 .. mk[p]) : p \in S}
(* Seeded fault: one token on one of the input places is enough.           *)
AnyToken(t, mk) == TokensOn(Inputs(t), mk) # {}

IsEnabled(t, mk) == Cardinality(TokensOn(Inputs(t), mk)) = Cardinality(Inputs(t))

Weight(p, S) == IF p \in S THEN 1 ELSE 0

(* Seeded fault: a disabled controller gives back its DOFs only.           *)
FireGivingDofsBack(t, mk) ==
  LET given == IF IsEnable(t) THEN Outputs(t) ELSE Outputs(t) \cap Dofs
  IN  [p \in Places |-> mk[p] + Weight(p, given) - Weight(p, Inputs(t))]

Fire(t, mk) ==
  [p \in Places |-> mk[p] + Weight(p, Outputs(t)) - Weight(p, Inputs(t))]

-----------------------------------------------------------------------------
(* The search of get_firing_pn: breadth-first over the places and          *)
(* transitions of the net, following the out-edges in insertion order.     *)

PVertex(p) == <<"p", p>>
TVertex(t) == <<"t", t>>
Vertices == {PVertex(p) : p \in Places} \cup {TVertex(t) : t \in Transitions}

Successors(x) ==
  IF x[1] = "p" THEN {TVertex(t) : t \in {u \in Transitions : x[2] \in Inputs(u)}}
                ELSE {PVertex(p) : p \in Outputs(x[2])}

(* A superset of them in the order of addToPNGraph.  The edges out of a    *)
(* place come with their transitions, those out of a transition lead to    *)
(* DOFs first and to the used controllers as the request names them.       *)
Order(x) ==
  LET entry  == registry[ControllerOf(x[2])]
      places == [i \in 1 .. NDof |-> i - 1] \o entry.cnts \o <<Place(ControllerOf(x[2]))>>
  IN  IF x[1] = "p" THEN [i \in 1 .. 2 * Len(registry) |-> TVertex(i - 1)]
                    ELSE [i \in DOMAIN places |-> PVertex(places[i])]

(* The elements of S in the order of the sequence s.                       *)
Filter(s, S) ==
  LET kept[i \in 0 .. Len(s)] ==
        IF i = 0 THEN <<>>
        ELSE IF s[i] \in S THEN Append(kept[i - 1], s[i]) ELSE kept[i - 1]
  IN  kept[Len(s)]

(* A visit to the first vertex of the queue, which discovers some of its   *)
(* successors.  A vertex keeps the predecessor it was found from, so the   *)
(* path to it is known at once.                                            *)
Visit(b, order, fresh) ==
  [queue |-> Tail(b.queue) \o Filter(order, fresh),
   path  |-> [x \in DOMAIN b.path \cup fresh |->
                IF x \in fresh THEN b.path[Head(b.queue)] \cup {x} ELSE b.path[x]]]

(* The search after one more visit, as a one-element set.                  *)
Discover(b) ==
  IF b.queue = <<>> THEN {b} ELSE
    LET u == Head(b.queue)
    IN  {Visit(b, order, fresh) :
           order \in {Order(u)}, fresh \in {Successors(u) \ DOMAIN b.path}}

(* bfs[n]: the state of the search once n vertices have been visited.      *)
Searched(src) ==
  LET bfs[n \in 0 .. Cardinality(Vertices)] ==
        IF n = 0 THEN {[queue |-> <<src>>, path |-> [x \in {src} |-> {}]]}
                 ELSE UNION {Discover(b) : b \in bfs[n - 1]}
  IN  bfs[Cardinality(Vertices)]

(* Transitions on the shortest path from a marked place to v; none when v  *)
(* is not reachable or is the place itself.                                *)
PathTransitions(src, v) ==
  UNION {{t \in Transitions : v \in DOMAIN b.path /\ TVertex(t) \in b.path[v]} :
           b \in Searched(src)}

(* Seeded fault: T-invariants are not ignored.                             *)
PairsAccepted(S) == FALSE

(* A path through both transitions of a controller (a T-invariant) is      *)
(* ignored; the others are merged into one set.                            *)
HasPair(S) == \E t \in S : Pair(t) \in S

(* Seeded fault: the search starts from free DOFs only.                    *)
FromDofsOnly(place, mk) ==
  LET paths == {PathTransitions(PVertex(p), PVertex(place)) :
                  p \in {q \in Dofs : mk[q] # 0}}
  IN  UNION {S \in paths : ~HasPair(S)}

FiringSet(place, mk) ==
  LET paths == {PathTransitions(PVertex(p), PVertex(place)) :
                  p \in {q \in Places : mk[q] # 0}}
  IN  UNION {S \in paths : ~HasPair(S)}

(* `marked' of the vertex: set for the DOFs when the net is created and    *)
(* never updated afterwards.                                               *)
MarkedFlag(p) == p \in Dofs

-----------------------------------------------------------------------------
Init ==
  /\ registry = <<>>
  /\ dep_resource = [p \in Dofs |-> {}]
  /\ marking = [p \in Dofs |-> 1]
  /\ pc = "idle"
  /\ target = NoPlace
  /\ m = marking
  /\ firing_seq = {} /\ pass = {} /\ rem = {}
  /\ count = 0 /\ maxcount = 0
  /\ all_markings = {} /\ new_markings = {}

IsRegistered(name) == \E k \in Controllers : registry[k].name = name
PlaceNamed(name) == Place(CHOOSE k \in Controllers : registry[k].name = name)

(* onRegisterController: a known name or a missing dependency is refused,  *)
(* otherwise addToGraph and addToPNGraph extend the net with an unmarked   *)
(* place and addToRGraph follows.                                          *)
RegisterController(req) ==
  LET used == [i \in DOMAIN req.cnts |-> PlaceNamed(req.cnts[i])]
      new  == NDof + Len(registry)
  IN  /\ pc = "idle"
      /\ ~IsRegistered(req.name)
      /\ \A i \in DOMAIN req.cnts : IsRegistered(req.cnts[i])
      /\ registry' = Append(registry,
                            [name |-> req.name, dofs |-> req.dofs, cnts |-> used])
      /\ marking' = [p \in 0 .. new |-> IF p = new THEN 0 ELSE marking[p]]
      /\ dep_resource' =
           [p \in 0 .. new |->
              IF p = new
              THEN req.dofs \cup UNION {dep_resource[q] : q \in Range(used)}
              ELSE dep_resource[p]]
      /\ m' = marking'
      /\ pc' = "seed_rgraph"
      /\ UNCHANGED <<target, firing_seq, pass, rem, count, maxcount, rgraph>>

(* A marking of the net before the last registration, in the new net.      *)
Extend(mk) ==
  [p \in Places |-> IF p = NDof + Len(registry) - 1 THEN 0 ELSE mk[p]]

(* Seeded fault: the markings found before are forgotten.                  *)
SeedFromFree ==
  LET extended == {[p \in Places |-> Weight(p, Dofs)]}
      enable   == EnableT(Len(registry))
      fired    == {Fire(enable, mk) : mk \in {x \in extended : IsEnabled(enable, x)}}
  IN  /\ pc = "seed_rgraph"
      /\ all_markings' = extended \cup fired
      /\ new_markings' = fired
      /\ pc' = "expand_rgraph"
      /\ UNCHANGED <<net, marking, target, firing>>

(* addToRGraph, first part: the known markings get the new place, unmarked,*)
(* and those that enable the new controller lead to new markings.          *)
SeedRGraph ==
  LET known    == IF all_markings = {} THEN {[p \in Dofs |-> 1]} ELSE all_markings
      extended == {Extend(mk) : mk \in known}
      enable   == EnableT(Len(registry))
      fired    == {Fire(enable, mk) : mk \in {x \in extended : IsEnabled(enable, x)}}
  IN  /\ pc = "seed_rgraph"
      /\ all_markings' = extended \cup fired
      /\ new_markings' = fired
      /\ pc' = "expand_rgraph"
      /\ UNCHANGED <<net, marking, target, firing>>

(* addToRGraph, the loop over the queue of new markings, one layer of the  *)
(* breadth-first search at a time.                                         *)
ExpandRGraph ==
  LET found == UNION {{Fire(t, mk) : t \in {u \in Transitions : IsEnabled(u, mk)}} :
                        mk \in new_markings}
  IN  /\ pc = "expand_rgraph"
      /\ all_markings' = all_markings \cup found
      /\ new_markings' = found \ all_markings
      /\ pc' = IF new_markings = {} THEN "idle" ELSE pc
      /\ UNCHANGED <<net, marking, target, firing>>

(* onActivateController with the name of a controller or of a DOF; other   *)
(* names are ignored.                                                      *)
ActivateController(p) ==
  /\ pc = "idle"
  /\ target' = p
  /\ pc' = "search"
  /\ UNCHANGED <<net, marking, firing, rgraph>>

(* get_firing_pn returns at once when the vertex says it is marked.        *)
AlreadyMarked ==
  /\ pc = "search"
  /\ MarkedFlag(target)
  /\ pc' = "idle"
  /\ UNCHANGED <<net, marking, target, firing, rgraph>>

(* get_firing_pn, the search for the transitions to fire.                  *)
Search ==
  /\ pc = "search"
  /\ ~MarkedFlag(target)
  /\ m' = marking
  /\ \E fs \in {FiringSet(target, marking)} :
       /\ firing_seq' = fs
       /\ pass' = fs
       /\ rem' = {}
       /\ count' = 0
       /\ maxcount' = Cardinality(fs) + 1
       /\ pc' = IF fs = {} THEN "idle" ELSE "fire"
  /\ UNCHANGED <<net, marking, target, rgraph>>

(* get_firing_pn, one iteration of the for loop over firing_seq, which is  *)
(* visited in ascending order.                                             *)
IsNext(t) == t \in pass /\ \A u \in pass : t <= u

(* Seeded fault: fires without the test.                                   *)
FireUnchecked ==
  /\ pc = "fire"
  /\ \E t \in pass :
       /\ IsNext(t)
       /\ m' = Fire(t, m)
       /\ rem' = rem \cup {t}
       /\ pass' = pass \ {t}
  /\ UNCHANGED <<net, marking, pc, target, firing_seq, count, maxcount, rgraph>>

FireNext ==
  /\ pc = "fire"
  /\ \E t \in pass :
       /\ IsNext(t)
       /\ IsEnabled(t, m)
       /\ m' = Fire(t, m)
       /\ rem' = rem \cup {t}
       /\ pass' = pass \ {t}
  /\ UNCHANGED <<net, marking, pc, target, firing_seq, count, maxcount, rgraph>>

(* Seeded fault: passes without progress are not counted.                  *)
SkipUncounted ==
  /\ pc = "fire"
  /\ \E t \in pass :
       /\ IsNext(t)
       /\ ~IsEnabled(t, m)
       /\ count' = count
       /\ pass' = pass \ {t}
  /\ UNCHANGED <<net, marking, pc, target, m, firing_seq, rem, maxcount, rgraph>>

SkipNext ==
  /\ pc = "fire"
  /\ \E t \in pass :
       /\ IsNext(t)
       /\ ~IsEnabled(t, m)
       /\ count' = count + 1
       /\ pass' = pass \ {t}
  /\ UNCHANGED <<net, marking, pc, target, m, firing_seq, rem, maxcount, rgraph>>

(* The end of a pass: what fired is removed, and the while loop goes on    *)
(* unless nothing is left or too many transitions were not enabled.  The   *)
(* marking reached is kept in both cases; in the second get_firing_pn      *)
(* calls itself again.                                                     *)
EndPass ==
  LET left  == firing_seq \ rem
      stuck == count > maxcount
  IN  /\ pc = "fire"
      /\ pass = {}
      /\ IF stuck \/ left = {}
         THEN /\ marking' = m
              /\ firing_seq' = {} /\ pass' = {} /\ rem' = {}
              /\ count' = 0 /\ maxcount' = 0
              /\ pc' = IF stuck THEN "search" ELSE "idle"
         ELSE /\ firing_seq' = left
              /\ pass' = left
              /\ rem' = {}
              /\ UNCHANGED <<marking, count, maxcount, pc>>
      /\ UNCHANGED <<net, target, m, rgraph>>

Callback == SeedRGraph \/ ExpandRGraph \/ AlreadyMarked \/ Search
              \/ FireNext \/ SkipNext \/ EndPass

Next ==
  \/ \E req \in Requests : RegisterController(req)
  \/ \E p \in Places : ActivateController(p)
  \/ Callback

(* A callback that has started keeps running.                              *)
Spec == Init /\ [][Next]_vars
FairSpec == Spec /\ WF_vars(Callback)

-----------------------------------------------------------------------------
(* Properties.                                                             *)

(* Types of the controller's state (the members of PNController.hpp and    *)
(* the locals of get_firing_pn).                                           *)
TypeOK ==
  /\ registry \in Seq([name : {r.name : r \in Requests},
                       dofs : SUBSET Dofs, cnts : Seq(Places)])
  /\ dep_resource \in [Places -> SUBSET Dofs]
  /\ marking \in [Places -> Nat]
  /\ m \in [Places -> Nat]
  /\ pc \in {"idle", "seed_rgraph", "expand_rgraph", "search", "fire"}
  /\ target \in Places \cup {NoPlace}
  /\ firing_seq \subseteq Transitions /\ pass \subseteq Transitions
  /\ rem \subseteq Transitions
  /\ count \in Nat /\ maxcount \in Nat

(* What a token on a place stands for: a DOF place for the DOF itself, a   *)
(* controller's place for every DOF it depends on.                         *)
Holds(p) == IF p \in Dofs THEN {p} ELSE dep_resource[p]
Holders(d, mk) == {p \in DOMAIN mk : mk[p] > 0 /\ d \in Holds(p)}

(* No place ever has two tokens.                                           *)
IsSafe(mk) == \A p \in DOMAIN mk : mk[p] \in {0, 1}
(* No DOF is lost and none is commanded by two controllers.                *)
IsExclusive(mk) == \A d \in Dofs : \E p \in DOMAIN mk : Holders(d, mk) = {p}

(* Arbitration: at every moment, also between the firings of an activation *)
(* and after one that was broken off half way, each DOF is either free or  *)
(* in the hands of exactly one active controller.  The code keeps it only  *)
(* through the token game of get_firing_pn.                                *)
ExclusiveOwnership ==
  \A mk \in {marking, m} : IsSafe(mk) /\ IsExclusive(mk)

(* The test m^T Dm(t) = sum of Dm(t) adds the tokens of all input places;  *)
(* it is the firing rule of a Petri net (every input place has a token)    *)
(* only as long as no place can have two.                                  *)
FiringRule ==
  pc # "seed_rgraph" =>
    \A mk \in {marking, m} \cup all_markings, t \in Transitions :
      IsEnabled(t, mk) <=> \A p \in Inputs(t) : mk[p] > 0

(* The incremental reachability graph is complete after each registration: *)
(* it has the markings the new net can reach, the current one among them,  *)
(* although addToRGraph only looks at successors of markings that the new  *)
(* controller makes possible.                                              *)
RGraphComplete ==
  (pc \notin {"seed_rgraph", "expand_rgraph"} /\ registry # <<>>) =>
    /\ marking \in all_markings
    /\ \A mk \in all_markings, t \in Transitions :
         IsEnabled(t, mk) => Fire(t, mk) \in all_markings

(* When get_firing_pn returns, the controller asked for is active.  It has *)
(* no check of that at the end: an empty or wrong set of transitions would *)
(* return just the same.                                                   *)
ControllerGranted ==
  (pc = "idle" /\ target \in Places \ Dofs) => marking[target] = 1

(* What ControllerGranted hangs on: the search finds a way to every        *)
(* controller that is not active.                                          *)
SearchFinds ==
  (pc = "search" /\ target \notin Dofs /\ FiringSet(target, marking) = {}) =>
    marking[target] = 1

(* The Petri net implements an arbiter (module Arbiter): the owner of a    *)
(* DOF is the place that holds it in the marking the firing loop works on, *)
(* and a request lasts from onActivateController until get_firing_pn       *)
(* returns.  So no firing hands a controller half of its DOFs or moves two *)
(* controllers; one that shares no DOF with the controller asked for is    *)
(* not disabled, not even for a moment, whatever the search put on its     *)
(* paths; and no request returns before the controller is active.          *)
OwnerIn(d, mk) == CHOOSE p \in DOMAIN mk : d \in Holds(p) /\ mk[p] > 0

Abstract == INSTANCE Arbiter WITH
  Dofs <- Dofs,
  Nobody <- NoPlace,
  deps <- [p \in Places |-> Holds(p)],
  owner <- [d \in Dofs |-> OwnerIn(d, m)],
  asked <- IF pc \in {"search", "fire"} THEN target ELSE NoPlace

Arbitrates == Abstract!Spec

(* Asking for a controller that is already active changes nothing.  Its    *)
(* vertex never says `marked', so this hangs on the search finding no path *)
(* without a T-invariant.                                                  *)
ActiveStaysActive ==
  [][ (pc = "search" /\ marking[target] > 0) => pc' = "idle" ]_vars

(* Every callback returns: get_firing_pn, which calls itself as long as it *)
(* fails, succeeds in the end.  This depends on the registered controllers;*)
(* there are nets, of sound controllers too, on which it goes on for ever. *)
CallbackReturns == (pc # "idle") ~> (pc = "idle")

-----------------------------------------------------------------------------
(* The inductive invariant behind ExclusiveOwnership and FiringRule.       *)

(* A controller uses places registered before it, at least one of them,    *)
(* and depends on what they depend on.                                     *)
NetOK ==
  /\ DOMAIN dep_resource = Places
  /\ \A k \in Controllers :
       /\ Used(k) \subseteq 0 .. Place(k) - 1
       /\ Used(k) # {}
       /\ dep_resource[Place(k)] = UNION {Holds(q) : q \in Used(k)}
  /\ \A p \in Places : Holds(p) # {} /\ Holds(p) \subseteq Dofs

(* A set of places is closed if the controllers in it use only places of   *)
(* it, and no two of the places that one of them uses share a DOF.  A      *)
(* controller outside every closed set can never be enabled; one inside    *)
(* gives back every DOF to a single place when it is disabled.             *)
DisjointUse(k) ==
  \A q, r \in Used(k) : q # r => Holds(q) \cap Holds(r) = {}
IsClosed(S) ==
  \A k \in Controllers : Place(k) \in S => Used(k) \subseteq S /\ DisjointUse(k)
CleanPlaces == UNION {S \in SUBSET Places : IsClosed(S)}

GoodMarking(mk) ==
  /\ mk \in [Places -> {0, 1}]
  /\ IsExclusive(mk)
  /\ \A p \in Places : mk[p] = 1 => p \in CleanPlaces

IInv ==
  /\ TypeOK
  /\ NetOK
  /\ GoodMarking(marking)
  /\ GoodMarking(m)
  /\ pc \in {"search", "fire"} => target \in Places
  /\ pc # "fire" => m = marking
  /\ pc \in {"seed_rgraph", "expand_rgraph"} => Len(registry) > 0
  /\ pc # "seed_rgraph" => \A mk \in all_markings : GoodMarking(mk)
  /\ pc = "seed_rgraph" => \A mk \in all_markings : GoodMarking(Extend(mk))
  /\ all_markings = {} => \/ Len(registry) = 0
                          \/ Len(registry) = 1 /\ pc = "seed_rgraph"
  /\ new_markings \subseteq all_markings

=============================================================================
