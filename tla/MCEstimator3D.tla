----------------------------- MODULE MCEstimator3D -----------------------------
(* Instances of Estimator3D for TLC.                                       *)
EXTENDS Estimator3D

VARIABLE source   \* (bound) topics that somebody publishes on in this run

PositionTopics ==
  {"KFmode", "gps", "local_position_in", "quad_delta_pos", "usbl_fix", "remote_position", "imu"}
AltitudeTopics ==
  {"reset_nav_covariance", "dvl", "use_alt_sampling", "alt_n_samples", "altitude"}
AllTopics == PositionTopics \cup AltitudeTopics

(* The two halves of the estimator share no variable that either reads,    *)
(* save the reset: each is run in all its ways while the other hears       *)
(* nothing.  (bound) The half of the altitude gets one message less from the *)
(* operator.                                                               *)
HalfInit ==
  /\ Init
  /\ source \in {PositionTopics, AltitudeTopics}
  /\ source = PositionTopics => nsamples = 1 /\ altSample
  /\ source = AltitudeTopics => ~modePast
HalfNext ==
  /\ Next
  /\ UNCHANGED source
  /\ source = AltitudeTopics => ops' < MaxOps
  /\ last' # last /\ last' # 0 => Order[last'] \in source
HalfSpec == HalfInit /\ [][HalfNext]_<<vars, source>> /\ WF_vars(step)
================================================================================
