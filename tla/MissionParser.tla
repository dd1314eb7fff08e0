----------------------------- MODULE MissionParser -----------------------------
(***************************************************************************)
(* The mission parser of labust_mission, a member of the mission execution *)
(* node: it holds the XML document of the mission and answers requests for *)
(* its primitives by number.  It has no next-state relation of its own:    *)
(* its operations are the callbacks that MissionExecution runs.            *)
(***************************************************************************)
EXTENDS Integers, Sequences

CONSTANTS
  Missions,    \* the mission files that may arrive: sequences of primitives,
               \* or NoMission for a file that cannot be parsed
  NoMission    \* an empty XML document

VARIABLES
  doc,            \* the loaded mission (xmlDoc), or NoMission
  parser_active   \* missionActive of the parser

parser == <<doc, parser_active>>

(* A primitive: its kind, whether it has a timeout, and the numbers of the *)
(* primitives its events lead to (onEventNext), first event first.         *)
NoPrimitive == [kind |-> "none", timeout |-> FALSE, next |-> <<>>]

ParserInit ==
  /\ doc = NoMission
  /\ parser_active = FALSE

ResetParser ==
  /\ doc' = NoMission
  /\ parser_active' = FALSE

(* onReceiveMission: the operator's mission file.  A file that cannot be   *)
(* parsed leaves an empty document behind.                                 *)
ReceiveMission(mission) ==
  /\ doc' = mission
  /\ parser_active' = (mission # NoMission)

(* parseMission looks for the root element of the document and uses it     *)
(* without a check: with an empty document the node is lost.               *)
CanParse == doc # NoMission

(* requestPrimitive: the primitive with that number; none when there is no *)
(* such primitive; the number 0 is not looked up at all.                   *)
Requested(id) == IF CanParse /\ id \in DOMAIN doc THEN doc[id] ELSE NoPrimitive
=============================================================================
