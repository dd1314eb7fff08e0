----------------------------- MODULE AsyncMerger -----------------------------
(***************************************************************************)
(* The merger of velocity requests: AsyncMerger.cpp and AsyncMerger.hpp.   *)
(* High-level controllers drive different axes of the vehicle and publish  *)
(* on one topic; the merger collects one message of each, publishes the    *)
(* union and starts over.  It knows the controllers by the messages that   *)
(* came: a new requester joins with its first message, and one that has    *)
(* not come by the time a timer ends the round is forgotten.               *)
(*                                                                         *)
(* One thread (ros::spin) runs both callbacks.  Time is counted in ticks;  *)
(* the timer fires every Ts ticks.  A duration of exactly Ts ticks may be  *)
(* a little more or a little less than the sampling time, so the timer's   *)
(* test may go either way then.                                            *)
(***************************************************************************)
EXTENDS ControlData

CONSTANTS
  Requesters,    \* names a message may carry
  Ts             \* sampling_time, in ticks

ASSUME TsAssumption == Ts \in Nat \ {0}

VARIABLES
  controllers,   \* requesters known
  arrived,       \* those of them heard in this round
  outval,        \* what the round has collected for each axis
  sinceAll,      \* ticks since lastAll, the last complete round
  timer,         \* ticks until checkArrived runs
  out,           \* message published on "out" (queue of one), or NoMessage
  heard          \* (history) ticks since each requester's last message, up to Ts

mergerVars == <<controllers, arrived, outval, sinceAll, timer, out, heard>>

NoMessage == [a \in {} |-> Filler]

Longer(n) == IF n < Ts THEN n + 1 ELSE n

\* A zero does not grow old before it is sent.
OlderVelocity(x) == IF x.own THEN [x EXCEPT !.age = Aged(x.age)] ELSE x

AfterLongSilence == Ts + 1

------------------------------------------------------------------------------
MergerInit ==
  /\ controllers = {}
  /\ arrived = {}
  /\ outval = [a \in Axes |-> Filler]
  /\ sinceAll = AfterLongSilence       \* lastAll is the epoch
  /\ timer = Ts
  /\ out = NoMessage
  /\ heard = [q \in Requesters |-> Ts]

(* Seeded fault: nobody is ever forgotten.                                 *)
EndRoundKeepingAll(collected, come) ==
  /\ out' = collected
  /\ controllers' = controllers \cup come
  /\ arrived' = {}
  /\ outval' = [a \in Axes |-> Filler]

(* Seeded fault: the flags of the round stay set.                          *)
EndRoundWithFlags(collected, come) ==
  /\ out' = collected
  /\ controllers' = come
  /\ arrived' = come
  /\ outval' = [a \in Axes |-> Filler]

(* Seeded fault: the axes are not reset.                                   *)
EndRoundWithAxes(collected, come) ==
  /\ out' = collected
  /\ controllers' = come
  /\ arrived' = {}
  /\ outval' = collected

\* publishFinal followed by clearAll: only the requesters that have come
\* are still known.
EndRound(collected, come) ==
  /\ out' = collected
  /\ controllers' = come
  /\ arrived' = {}
  /\ outval' = [a \in Axes |-> Filler]

(* Seeded fault: the end of the round is not noted.                        *)
AllArrivedUntimed(collected, come) ==
  /\ EndRound(collected, come)
  /\ UNCHANGED sinceAll

AllArrived(collected, come) ==
  /\ EndRound(collected, come)
  /\ sinceAll' = 0

(* Seeded fault: a new requester is not entered.                           *)
KnownBefore(m) == controllers

Known(m) == controllers \cup {m.requester}

onTopic(m) ==
  LET collected == [a \in Axes |-> IF a \in DOMAIN m.nu THEN m.nu[a] ELSE outval[a]]
      come == arrived \cup {m.requester}
  IN  /\ IF come = Known(m)
           THEN AllArrived(collected, come)
           ELSE /\ outval' = collected
                /\ controllers' = Known(m)
                /\ arrived' = come
                /\ UNCHANGED <<out, sinceAll>>
      /\ heard' = [heard EXCEPT ![m.requester] = 0]
      /\ UNCHANGED timer

\* The timer: a round that has taken longer than Ts is ended with what has
\* come.  lastAll is left alone.
checkArrived ==
  /\ timer = 0
  /\ timer' = Ts
  /\ \/ /\ sinceAll >= Ts
        /\ controllers # {}
        /\ EndRound(outval, arrived)
     \/ /\ sinceAll <= Ts \/ controllers = {}
        /\ UNCHANGED <<controllers, arrived, outval, out>>
  /\ UNCHANGED <<sinceAll, heard>>

\* The subscriber of "out" takes the message.
Taken == out' = NoMessage /\ UNCHANGED <<controllers, arrived, outval, sinceAll, timer, heard>>

MergerTick ==
  /\ timer > 0
  /\ timer' = timer - 1
  /\ sinceAll' = IF sinceAll < AfterLongSilence THEN sinceAll + 1 ELSE sinceAll
  /\ heard' = [q \in Requesters |-> Longer(heard[q])]
  /\ outval' = [a \in Axes |-> OlderVelocity(outval[a])]
  /\ out' = [a \in DOMAIN out |-> OlderVelocity(out[a])]
  /\ UNCHANGED <<controllers, arrived>>

\* Messages: any requester, any axes.
Messages == [requester : Requesters,
             nu : UNION {[driven -> Velocities] : driven \in SUBSET Axes}]

MergerNext ==
  \/ \E m \in Messages : onTopic(m)
  \/ checkArrived
  \/ Taken
  \/ MergerTick

MergerSpec == MergerInit /\ [][MergerNext]_mergerVars

------------------------------------------------------------------------------
MergerTypeOK ==
  /\ controllers \subseteq Requesters
  /\ arrived \subseteq controllers
  /\ outval \in [Axes -> Velocities]
  /\ sinceAll \in 0..AfterLongSilence
  /\ timer \in 0..Ts
  /\ out = NoMessage \/ out \in [Axes -> Velocities]
  /\ heard \in [Requesters -> 0..Ts]

(***************************************************************************)
(* The merger forgets a requester only after a silence of a whole sampling *)
(* time, however its messages fall between the timer's ticks, the messages *)
(* of the other requesters and the rounds these end.                       *)
(***************************************************************************)
OnlySilentRemoved ==
  [][\A q \in controllers : q \notin controllers' => heard[q] >= Ts]_mergerVars

\* Where the proof of OnlySilentRemoved comes from: who is missing in this
\* round has been silent since the round began, that is since the last
\* complete round or the timer's last tick, whichever is later.
MissingIsSilent ==
  \A q \in controllers \ arrived : heard[q] >= sinceAll \/ heard[q] + timer >= Ts
==============================================================================
