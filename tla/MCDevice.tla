------------------------------ MODULE MCDevice ------------------------------
(***************************************************************************)
(* The devices, the event loop of the host, the tables of the GPU stack,   *)
(* what a packet is made of and the buffer a TCP sender keeps it in, on    *)
(* small instances.  They share no state; part says which of them a        *)
(* behaviour is about, so that one run checks them side by side without    *)
(* multiplying their states.  All but the GPU device may stop, so only     *)
(* this device is checked for deadlock.                                    *)
(***************************************************************************)
EXTENDS NetDevice, PacketPool, Bridge, HostScheduler, P2pLink, PacketBuffer, PacketTags,
  ByteTags, DeviceTables, TxScoreboard, MCLookahead

CONSTANTS c1      \* a client

MCSizeOf == [c \in Clients |-> IF c = c1 THEN 1 ELSE 3]
MCBytes == <<2, 3, 4, 4, 2, 4, 3>>

VARIABLE part

gpuVars == <<vars, poolVars, bridgeVars, ipTableVars>>
cpuVars == <<schedVars, p2pVars, bufferVars, tagVars, byteTagVars, txVars>>
allVars == <<part, gpuVars, cpuVars, laVars>>

DeviceInit ==
  /\ part \in {"device", "pool", "bridge", "tables", "scheduler", "link", "buffer", "tags",
               "bytetags", "scoreboard", "lookahead"}
  /\ TxInit /\ (part # "scoreboard" => snd.sack)
  /\ part # "lookahead" => devLookahead = CHOOSE f \in DeviceLookaheads : TRUE
  /\ Init /\ PoolInit /\ BridgeInit /\ TablesInit
  /\ SchedInit /\ P2pInit /\ BufferInit /\ TagsInit /\ ByteTagInit /\ LaInit

GpuNext ==
  \/ part = "device" /\ Next /\ UNCHANGED <<poolVars, bridgeVars, ipTableVars>>
  \/ part = "pool" /\ PoolNext /\ UNCHANGED <<vars, bridgeVars, ipTableVars>>
  \/ part = "bridge" /\ BridgeNext /\ UNCHANGED <<vars, poolVars, ipTableVars>>
  \/ part = "tables" /\ TablesNext /\ UNCHANGED <<vars, poolVars, bridgeVars>>

CpuNext ==
  \/ part = "scheduler" /\ SchedNext
     /\ UNCHANGED <<p2pVars, bufferVars, tagVars, byteTagVars, txVars>>
  \/ part = "link" /\ P2pNext
     /\ UNCHANGED <<schedVars, bufferVars, tagVars, byteTagVars, txVars>>
  \/ part = "buffer" /\ BufferNext
     /\ UNCHANGED <<schedVars, p2pVars, tagVars, byteTagVars, txVars>>
  \/ part = "tags" /\ TagsNext
     /\ UNCHANGED <<schedVars, p2pVars, bufferVars, byteTagVars, txVars>>
  \/ part = "bytetags" /\ ByteTagNext
     /\ UNCHANGED <<schedVars, p2pVars, bufferVars, tagVars, txVars>>
  \/ part = "scoreboard" /\ TxNext
     /\ UNCHANGED <<schedVars, p2pVars, bufferVars, tagVars, byteTagVars>>

DeviceNext ==
  \/ GpuNext /\ UNCHANGED <<part, cpuVars, laVars>>
  \/ CpuNext /\ UNCHANGED <<part, gpuVars, laVars>>
  \/ part = "lookahead" /\ LaNext /\ UNCHANGED <<part, gpuVars, cpuVars>>
  \/ part # "device" /\ UNCHANGED allVars

DeviceSpec == DeviceInit /\ [][DeviceNext]_allVars

\* The type invariants of the parts that have one of their own.
DeviceTypesOK ==
  /\ PoolTypeOK
  /\ BridgeTypeOK
  /\ SchedTypeOK
  /\ P2pTypeOK
  /\ TxTypeOK
  /\ ByteTagTypeOK

\* The tags of a packet, those of its bytes included.
AllTagsSound ==
  /\ TagsSound
  /\ ByteTagsSound
=============================================================================
