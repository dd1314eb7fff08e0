---------------------------- MODULE MCPrimitives ----------------------------
(* Instances of Primitives for TLC.                                        *)
EXTENDS Primitives

G(node, fa, xy, z, valid) == [node |-> node, fa |-> fa, xy |-> xy, z |-> z, valid |-> valid]

Across == G("go2point", TRUE, TRUE, FALSE, TRUE)        \* fully actuated
Forward == G("go2point", FALSE, TRUE, TRUE, TRUE)       \* underactuated, at a depth
NoSpeed == G("go2point", TRUE, TRUE, TRUE, FALSE)       \* aborted
Hold == G("dynamic_positioning", TRUE, TRUE, FALSE, TRUE)
Dock == G("docking", TRUE, TRUE, FALSE, TRUE)
Track == G("track_diver", TRUE, TRUE, TRUE, TRUE)

AllGoals == {Across, Forward, NoSpeed, Hold, Dock, Track}
PointsAndHold == {Across, Forward, Hold}
=============================================================================
