-------------------------- MODULE MCMissionExecution --------------------------
(* Instances of MissionExecution for TLC.                                  *)
EXTENDS MissionExecution

P(kind, timeout, targets) == [kind |-> kind, timeout |-> timeout, next |-> targets]

(* Go to a point until it is reached, too much time has passed or one of   *)
(* two events comes, of which one ends the mission; wait there.            *)
Transect ==
  << P("go2point", TRUE, <<2, 3>>), P("dynamic_positioning", FALSE, <<>>) >>
(* A mission without events: go to a point and wait there.                 *)
Plain == << P("go2point", TRUE, <<>>), P("dynamic_positioning", TRUE, <<>>) >>
(* Go to a point before a timeout; dock, unless an event says that this is *)
(* not needed.                                                             *)
Leg == << P("go2point", TRUE, <<>>) >>
Dock == << P("docking", FALSE, <<2>>) >>
(* A placeholder and a follow, which start no action.                      *)
Idle == << P("placeholder", FALSE, <<2>>), P("follow", FALSE, <<3>>) >>

PlainOnly == {Plain}
TransectOnly == {Transect}
AnyFile == {Idle, Leg, Dock, NoMission}
=============================================================================
