--------------------------- MODULE EnergyTelemetry ---------------------------
(***************************************************************************)
(* The energy of one channel, from its meter to the aggregate of its hour: *)
(* the telemetry of DeviceEventTelemetryIngestionService, EnergyService    *)
(* and the repositories under it.  A reading carries the meter's total and *)
(* a sequence number; what a reading adds is reckoned from the total the   *)
(* service keeps in RAM.  Readings may be lost, late or reordered, and     *)
(* both sides restart.  The readings of the model fall into one hour; the  *)
(* day's aggregate is kept in the same way.  Voltages, thresholds, alerts, *)
(* automations and the outbox row of a reading are left out.               *)
(***************************************************************************)
EXTENDS Naturals, Handlers

CONSTANTS
  MaxEnergy,     \* bound: energy the meter counts between two restarts of it
  MaxReadings,   \* bound: sequence numbers
  MaxFaults      \* bound: restarts, and writes that fail

ASSUME EnergyAssumption == MaxEnergy \in Nat /\ MaxReadings \in Nat /\ MaxFaults \in Nat

VARIABLES
  meter,       \* the device: its total and the number of its last reading
  air,         \* readings on their way
  lastSeq,     \* _telemetryLastSeqByDevice (RAM)
  held,        \* _deviceStateCache: the last reading, number 0 without one (RAM)
  bucket,      \* telemetry_aggregates: energy and samples of the hour
  rows,        \* rows in device_telemetry_measurements
  energyCall,  \* the reading each caller handles
  faults,      \* restarts and failures so far
  consumed,    \* history: what has been consumed in all
  forked,      \* history: two readings were reckoned from one total
  overtaken,   \* history: two readings were added to one bucket at a time
  unadded,     \* history: a reading was cut before it was added
  restarted,   \* history: the backend has restarted
  meterReset,  \* history: the device has
  outlived     \* history: ... while readings were on their way

energyVars == <<meter, air, lastSeq, held, bucket, rows, energyCall, faults, consumed, forked,
                overtaken, unadded, restarted, meterReset, outlived>>

Totals == 0..MaxEnergy
Seqs == 0..MaxReadings
MeterReadings == [seq : Seqs, total : Totals]
NoReading == [seq |-> 0, total |-> 0]
NoBucket == [energy |-> 0, samples |-> 0]
EnergyMemo(pc, r, delta, seen) == [pc |-> pc, r |-> r, delta |-> delta, seen |-> seen]
EnergyIdle == EnergyMemo("idle", NoReading, 0, NoBucket)

EnergyTypeOK ==
  /\ meter \in MeterReadings /\ air \subseteq MeterReadings
  /\ lastSeq \in Seqs /\ held \in MeterReadings
  /\ bucket \in [energy : Nat, samples : Nat] /\ rows \in Nat /\ consumed \in Nat
  /\ energyCall \in [Callers -> [pc : {"idle", "seen", "store", "bucket", "add"}, r : MeterReadings,
                                 delta : Totals, seen : [energy : Nat, samples : Nat]]]
  /\ faults \in 0..MaxFaults
  /\ {forked, overtaken, unadded, restarted, meterReset, outlived} \subseteq BOOLEAN

EnergyInit ==
  /\ meter = NoReading /\ air = {} /\ lastSeq = 0 /\ held = NoReading
  /\ bucket = NoBucket /\ rows = 0
  /\ energyCall = [c \in Callers |-> EnergyIdle]
  /\ faults = 0 /\ consumed = 0
  /\ forked = FALSE /\ overtaken = FALSE /\ unadded = FALSE
  /\ restarted = FALSE /\ meterReset = FALSE /\ outlived = FALSE

BackendStays == UNCHANGED <<lastSeq, held, bucket, rows, energyCall, forked, overtaken, unadded,
                            restarted>>

(* The meter counts, and the device publishes the total.  It leaves the    *)
(* interval energy and the flags 0.                                        *)
Meter ==
  \E used \in 0..1 :
    /\ meter.total + used <= MaxEnergy /\ meter.seq < MaxReadings
    /\ meter' = [seq |-> meter.seq + 1, total |-> meter.total + used]
    /\ air' = air \cup {meter'}
    /\ consumed' = consumed + used
    /\ UNCHANGED <<faults, meterReset, outlived>> /\ BackendStays

(* A device that restarts begins both numbers again. *)
MeterRestarts ==
  /\ faults < MaxFaults /\ faults' = faults + 1
  /\ meter' = NoReading /\ meterReset' = TRUE /\ outlived' = (outlived \/ air # {})
  /\ UNCHANGED <<air, consumed>> /\ BackendStays

ReadingLost ==
  \E r \in air :
    /\ air' = air \ {r}
    /\ UNCHANGED <<meter, faults, consumed, meterReset, outlived>> /\ BackendStays

EnergyGoto(c, from, m) ==
  /\ energyCall[c].pc = from
  /\ energyCall' = [energyCall EXCEPT ![c] = m]
  /\ UNCHANGED <<meter, consumed, restarted, meterReset, outlived>>

(* handleTelemetry drops a number it has passed, and keeps the others'.    *)
Arrive(c) ==
  \E r \in air :
    /\ air' = air \ {r}
    /\ IF r.seq > lastSeq
       THEN EnergyGoto(c, "idle", EnergyMemo("seen", r, 0, NoBucket)) /\ lastSeq' = r.seq
       ELSE EnergyGoto(c, "idle", EnergyIdle) /\ UNCHANGED lastSeq
    /\ UNCHANGED <<held, bucket, rows, faults, forked, overtaken, unadded>>

\* Mutant: a total that is held is not taken off.
Delta_Whole(total) == total

(* What a reading adds: the whole total if none is held; next to nothing   *)
(* when the total has gone down, which is taken for a restart.             *)
Delta(total) ==
  IF held.seq = 0 THEN total
  ELSE IF total < held.total THEN 0 ELSE total - held.total

(* ingestTelemetry looks at the reading it holds, and stores the row.      *)
Reckon(c) ==
  LET r == energyCall[c].r
  IN  /\ EnergyGoto(c, "seen", IF held.seq # 0 /\ r.seq <= held.seq THEN EnergyIdle
                               ELSE EnergyMemo("store", r, Delta(r.total), NoBucket))
      /\ forked' = (forked \/ \E d \in Callers \ {c} : energyCall[d].pc = "store")
      /\ UNCHANGED <<air, lastSeq, held, bucket, rows, faults, overtaken, unadded>>

StoreReading(c) ==
  /\ EnergyGoto(c, "store", [energyCall[c] EXCEPT !.pc = "bucket"])
  /\ rows' = rows + 1
  /\ held' = energyCall[c].r
  /\ UNCHANGED <<air, lastSeq, bucket, faults, forked, overtaken, unadded>>

(* The insert throws, and nothing of the reading is kept but its number. *)
StoreThrows(c) ==
  /\ faults < MaxFaults /\ faults' = faults + 1
  /\ EnergyGoto(c, "store", EnergyIdle)
  /\ UNCHANGED <<air, lastSeq, held, bucket, rows, forked, overtaken, unadded>>

(* _updateAggregates reads the aggregate and writes it back. *)
ReadBucket(c) ==
  /\ EnergyGoto(c, "bucket", [energyCall[c] EXCEPT !.pc = "add", !.seen = bucket])
  /\ overtaken' = (overtaken \/ \E d \in Callers : energyCall[d].pc = "add")
  /\ UNCHANGED <<air, lastSeq, held, bucket, rows, faults, forked, unadded>>

AddToBucket(c) ==
  LET m == energyCall[c]
  IN  /\ EnergyGoto(c, "add", EnergyIdle)
      /\ bucket' = [energy |-> m.seen.energy + m.delta, samples |-> m.seen.samples + 1]
      /\ UNCHANGED <<air, lastSeq, held, rows, faults, forked, overtaken, unadded>>

AddThrows(c) ==
  /\ faults < MaxFaults /\ faults' = faults + 1
  /\ EnergyGoto(c, "add", EnergyIdle)
  /\ unadded' = TRUE
  /\ UNCHANGED <<air, lastSeq, held, bucket, rows, forked, overtaken>>

RestartEnergy ==
  /\ faults < MaxFaults /\ faults' = faults + 1
  /\ lastSeq' = 0 /\ held' = NoReading
  /\ energyCall' = [c \in Callers |-> EnergyIdle]
  /\ unadded' = (unadded \/ \E c \in Callers : energyCall[c].pc \in {"bucket", "add"})
  /\ restarted' = TRUE
  /\ UNCHANGED <<meter, air, bucket, rows, consumed, forked, overtaken, meterReset,
                 outlived>>

EnergyStep(c) ==
  \/ Arrive(c) \/ Reckon(c) \/ StoreReading(c) \/ StoreThrows(c) \/ ReadBucket(c)
  \/ AddToBucket(c) \/ AddThrows(c)

EnergyNext ==
  \/ \E c \in Callers : EnergyStep(c)
  \/ Meter \/ MeterRestarts \/ ReadingLost \/ RestartEnergy

EnergySpec == EnergyInit /\ [][EnergyNext]_energyVars

-----------------------------------------------------------------------------
(* No energy is counted that was not consumed, whatever is lost, late,     *)
(* dropped or fails and however often the device restarts, unless two      *)
(* readings were reckoned from one total, the backend has restarted, or a  *)
(* reading was still on its way when the device restarted.                 *)
NotOvercounted == (~forked /\ ~restarted /\ ~outlived) => bucket.energy <= consumed

(* A reading that is held has been added with all that came before it:     *)
(* what lost readings and failed inserts left out, the next one brings.    *)
(* (Not across a restart, nor when two updates of the aggregate overlap or *)
(* one fails.)                                                             *)
CaughtUp ==
  (~forked /\ ~overtaken /\ ~unadded /\ ~restarted /\ ~meterReset
     /\ \A c \in Callers : energyCall[c].pc \notin {"bucket", "add"}) =>
    bucket = [energy |-> held.total, samples |-> rows]

EnergyCounted == NotOvercounted /\ CaughtUp
=============================================================================
