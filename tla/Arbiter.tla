------------------------------- MODULE Arbiter -------------------------------
(***************************************************************************)
(* What the execution controller promises, without its Petri net: an       *)
(* arbiter of degrees of freedom (DOFs).  Every DOF has one owner, itself  *)
(* while it is free or a controller; a controller owns all the DOFs it     *)
(* depends on or none of them.  While a controller is asked for, DOFs      *)
(* change hands one controller at a time, and only those of owners that    *)
(* are in the way; the request returns when the controller owns its DOFs.  *)
(*                                                                         *)
(* PNController implements this specification.                             *)
(***************************************************************************)
EXTENDS Integers

CONSTANTS
  Dofs,        \* degrees of freedom
  Nobody       \* not a DOF or controller

VARIABLES
  deps,        \* the DOFs each controller depends on; a DOF depends on itself
  owner,       \* the owner of each DOF
  asked        \* the controller or DOF asked for, or Nobody

vars == <<deps, owner, asked>>

Owned(p, o) == {d \in Dofs : o[d] = p}

\* Nobody owns half of what it depends on.
Whole(o) == \A d \in Dofs : Owned(o[d], o) = deps[o[d]]

Init ==
  /\ deps = [d \in Dofs |-> {d}]
  /\ owner = [d \in Dofs |-> d]
  /\ asked = Nobody

\* A new controller; its DOFs are those of what it uses.
Register ==
  /\ asked = Nobody
  /\ \E p \in DOMAIN deps' \ DOMAIN deps :
       /\ DOMAIN deps' = DOMAIN deps \cup {p}
       /\ deps'[p] \in (SUBSET Dofs) \ {{}}
       /\ \A q \in DOMAIN deps : deps'[q] = deps[q]
  /\ UNCHANGED <<owner, asked>>

Ask ==
  /\ asked = Nobody
  /\ asked' \in DOMAIN deps
  /\ UNCHANGED <<deps, owner>>

InTheWay(p) == deps[p] \cap deps[asked] # {}

\* One controller takes its DOFs or gives them back, all at once.
HandOver ==
  /\ asked \in DOMAIN deps \ Dofs
  /\ owner' \in [Dofs -> DOMAIN deps] /\ Whole(owner')
  /\ \E c \in DOMAIN deps \ Dofs :
       /\ {d \in Dofs : owner'[d] # owner[d]} = deps[c]
       /\ Owned(c, owner) = deps[c] \/ Owned(c, owner') = deps[c]
  /\ \A d \in Dofs : owner'[d] # owner[d] => InTheWay(owner[d])
  /\ UNCHANGED <<deps, asked>>

\* The request is over.
Leave ==
  /\ asked # Nobody
  /\ asked' = Nobody
  /\ UNCHANGED <<deps, owner>>

\* Asking for a DOF changes nothing.
Granted == asked \notin Dofs => Owned(asked, owner) = deps[asked]

Return == Leave /\ Granted

Next == Register \/ Ask \/ HandOver \/ Return

Spec == Init /\ [][Next]_vars

\* The same, without the guarantee that a request succeeds.
BestEffort == Init /\ [][Register \/ Ask \/ HandOver \/ Leave]_vars
==============================================================================
