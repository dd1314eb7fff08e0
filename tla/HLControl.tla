------------------------------ MODULE HLControl ------------------------------
(***************************************************************************)
(* The high-level controllers: HLControl.hpp, the template every one of    *)
(* them is built from, with the policy that enables it through a service   *)
(* (EnablePolicy.hpp), and the step() of the heading, altitude, depth,     *)
(* pitch and dynamic-positioning controllers.  A controller is a process   *)
(* with one thread; it is enabled or disabled by a service, receives its   *)
(* reference and the estimates of the vehicle's state on topics, and       *)
(* answers an estimate with a request for body velocities.                 *)
(*                                                                         *)
(* The control law is abstracted: a request says which axes it drives.     *)
(* The requester's name is kept, because the merger of the requests        *)
(* (AsyncMerger) tells the controllers apart by it.                        *)
(***************************************************************************)
EXTENDS ControlData

CONSTANTS Controllers    \* the controllers running

ASSUME ControllersAreKnown ==
         Controllers \subseteq {"hdg", "alt", "depth", "pitch", "fadp"}

VARIABLES
  enable,      \* the controllers that are enabled
  refOk,       \* the controllers that have got a reference
  ref          \* what the reference of each controller asks for

hlVars == <<enable, refOk, ref>>

(***************************************************************************)
(* A reference either gives the quantity the controller governs, or -1 in  *)
(* its place: nothing asked for.                                           *)
(***************************************************************************)
Asked == {"value", "minus one"}

\* A request with the axes it does not disable and the values for them.
Request(name, axes) == [requester |-> name, nu |-> [a \in axes |-> Wish]]

------------------------------------------------------------------------------
(* step() of each controller.                                              *)

HDGStep(asked)   == Request("hdg_controller", {"yaw"})
PitchStep(asked) == Request("pitch_controller", {"pitch"})
FADPStep(asked)  == Request("fadp_controller", {"surge", "sway"})

DepthStep(asked) ==
  Request("depth_controller", IF asked = "minus one" THEN {} ELSE {"heave"})

\* Without a reference the altitude controller goes by another name.
ALTStep(asked) ==
  IF asked = "minus one" THEN Request("altitude_controller", {})
                         ELSE Request("alt_controller", {"heave"})

ControllerStep(c, asked) ==
  CASE c = "hdg"   -> HDGStep(asked)
    [] c = "alt"   -> ALTStep(asked)
    [] c = "depth" -> DepthStep(asked)
    [] c = "pitch" -> PitchStep(asked)
    [] c = "fadp"  -> FADPStep(asked)

------------------------------------------------------------------------------
HLInit ==
  /\ enable = {}
  /\ refOk = {}
  /\ ref = [c \in Controllers |-> "value"]

onEnableControl(c, on) ==
  /\ enable' = IF on THEN enable \cup {c} ELSE enable \ {c}
  /\ UNCHANGED <<refOk, ref>>

onRef(c, asked) ==
  /\ refOk' = refOk \cup {c}
  /\ ref' = [ref EXCEPT ![c] = asked]
  /\ UNCHANGED enable

\* The controllers that answer the next estimate with a request, which is
\* ControllerStep(c, ref[c]).
Speaking == enable \cap refOk

\* A disabled controller idles and forgets that it had a reference; it
\* does so only when an estimate comes, not when it is disabled.
onEstimate(c) ==
  /\ refOk' = IF c \in enable THEN refOk ELSE refOk \ {c}
  /\ UNCHANGED <<enable, ref>>
==============================================================================
