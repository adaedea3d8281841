------------------------------ MODULE MCPackets ------------------------------
(***************************************************************************)
(* The packets for TLC: the sessions of PacketTransfer and the records of  *)
(* PlayerList and GameRecords that packets fill.  These have no state in   *)
(* common, so a behaviour works on one part and leaves the others as they  *)
(* are initially.                                                          *)
(***************************************************************************)
EXTENDS PacketTransfer, PlayerList, GameRecords

VARIABLE part   \* what this behaviour is about

PacketsInit ==
  /\ part \in {"session", "list", "modes", "map"}
  /\ part # "list" => listVersion = 775
  /\ part # "map" => mapVersion = 47
  /\ part # "session" => version = 775 /\ reactor = "status"
  /\ ListInit
  /\ ModeInit
  /\ MapInit
  /\ TransferInit

PacketsNext ==
  \/ /\ part = "session"
     /\ TransferNext
     /\ UNCHANGED <<part, listVars, modeVars, mapVars>>
  \/ /\ part = "list"
     /\ ListNext
     /\ UNCHANGED <<part, allVars, modeVars, mapVars>>
  \/ /\ part = "modes"
     /\ ModeNext
     /\ UNCHANGED <<part, allVars, listVars, mapVars>>
  \/ /\ part = "map"
     /\ UpdateMap
     /\ UNCHANGED <<part, allVars, listVars, modeVars>>

PacketsSpec ==
  PacketsInit /\ [][PacketsNext]_<<part, allVars, listVars, modeVars, mapVars>>
==============================================================================
