----------------------------- MODULE MCPNController -----------------------------
(* Instances of PNController for TLC.  The requests are those of           *)
(* test_exec.cpp, restricted to the DOFs X, Y and N (0, 1, 2).             *)
EXTENDS PNController

CONSTANTS MaxControllers  \* bound on the number of registered controllers

Req(name, dofs, cnts) == [name |-> name, dofs |-> dofs, cnts |-> cnts]

Basics == { Req("surge", {0}, <<>>), Req("sway", {1}, <<>>),
            Req("yaw_rate", {2}, <<>>) }
Manual == { Req("manualX", {0}, <<>>), Req("manual_r", {}, <<"yaw_rate">>) }
Pose   == { Req("heading", {}, <<"yaw_rate">>),
            Req("fadp", {}, <<"sway", "surge">>) }
Follow == { Req("uadp", {}, <<"surge", "heading">>),
            Req("ualf", {}, <<"surge", "yaw_rate">>),
            Req("falf", {}, <<"surge", "sway", "heading">>) }


(* Controllers that use a DOF twice: one names a DOF of a controller it    *)
(* uses, the other uses two controllers of the same DOF.  They can never   *)
(* run.                                                                    *)
Faulty == { Req("clash", {0}, <<"surge">>), Req("twice", {}, <<"surge", "manualX">>) }

MCRequests == Basics \cup Manual \cup Pose \cup Follow \cup Faulty

(* The registration order of test_exec.cpp.                                *)
TestOrder ==
  << Req("surge", {0}, <<>>), Req("manualX", {0}, <<>>),
     Req("sway", {1}, <<>>),
     Req("fadp", {}, <<"sway", "surge">>), Req("yaw_rate", {2}, <<>>),
     Req("manual_r", {}, <<"yaw_rate">>), Req("heading", {}, <<"yaw_rate">>),
     Req("uadp", {}, <<"surge", "heading">>),
     Req("vt", {}, <<"surge", "yaw_rate">>),
     Req("falf", {}, <<"surge", "sway", "heading">>) >>
TestRequests == Range(TestOrder)

BoundedNext == Next /\ Len(registry') <= MaxControllers
OrdersSpec == Init /\ [][BoundedNext]_vars

InTestOrder ==
  Len(registry') > Len(registry) =>
    registry'[Len(registry')].name = TestOrder[Len(registry')].name
TestNext == Next /\ InTestOrder
TestSpec == Init /\ [][TestNext]_vars /\ WF_vars(Callback)
=============================================================================
