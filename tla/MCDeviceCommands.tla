-------------------------- MODULE MCDeviceCommands --------------------------
(***************************************************************************)
(* An instance of DeviceCommands with a request of every kind, malformed   *)
(* ones included.  They share three keys and one commandId, which only     *)
(* their receipts carry.                                                   *)
(***************************************************************************)
EXTENDS DeviceCommands, TLC

CONSTANTS i1, i2, k1, k2, k3

\* Requests are named after what they ask for.
MCRequests == {"on", "off", "stopAll", "beyond", "ota", "level",
               "upsert1", "upsert2", "upsert0", "upsertLong", "stop", "delete1",
               "deleteLong"}
MCCommands == {"c"}
MCCommandOf == [r \in Requests |-> "c"]
MCKeys == {k1, k2, k3}
MCKeyOf == [r \in Requests |->
    CASE r \in {"on", "upsert1", "beyond", "ota"} -> k1
      [] r \in {"off", "upsert2", "stop", "level"} -> k2
      [] OTHER -> k3]
MCExpirable == {"on"}

MCActionOf == [r \in Requests |->
    CASE r = "on" -> "setPowerOn"
      [] r \in {"off", "beyond"} -> "setPowerOff"
      [] r = "stopAll" -> "emergencyStop"
      [] r \in {"upsert1", "upsert2", "upsert0", "upsertLong"} -> "upsertRoutine"
      [] r = "stop" -> "stopRoutine"
      [] r \in {"delete1", "deleteLong"} -> "deleteRoutine"
      [] r = "ota" -> "otaUpdate"
      [] r = "level" -> "unsupported"]

\* The device has two channels; the service accepts indexes up to 16.
MCChannelOf == [r \in Requests |->
    CASE r \in {"stopAll", "upsert0", "delete1", "deleteLong"} -> 0
      [] r = "beyond" -> 3
      [] OTHER -> 1]

MCRoutineIds == {i1, i2}
MCRoutineOf == [r \in Requests |->
    CASE r = "upsert2" -> i2
      [] r \in {"upsertLong", "deleteLong"} -> NoRoutineId
      [] OTHER -> i1]
MCRoutineChannel == [i \in RoutineIds |-> IF i = i1 THEN 1 ELSE 2]

\* No action reads the histories, and no invariant says more of them than their
\* type: states that differ in them only are one.
MCView == <<boardVars, ring, task, current, cursor, verdict, wireVars>>
=============================================================================
