------------------------ MODULE CommandPipeline_proofs ------------------------
(***************************************************************************)
(* Proofs about CommandService, DeviceCommands and CommandPipeline, for    *)
(* every set of requests, every way of giving them commandIds and keys,    *)
(* every number of channels, every size of the ring and the table, and     *)
(* every bound.                                                            *)
(*                                                                         *)
(* Of the device alone, RingDistinct is not inductive: a key is recorded   *)
(* several steps after the ring was searched for it.  DeviceInv adds that  *)
(* the key of the command being handled is still not there when it is      *)
(* recorded.                                                               *)
(*                                                                         *)
(* Of the service alone, DispatchedOnce and PublishedIsDurable are not     *)
(* inductive: they speak of requests already published, and what makes     *)
(* them true happens before, in the steps between recordCommand and the    *)
(* publish.  OutboxInv says what the store holds for a request at each of  *)
(* those steps.                                                            *)
(*                                                                         *)
(* CommandPipeline implements CommandService, so what is proved of the     *)
(* service in front of an arbitrary device holds of it in front of the     *)
(* firmware; and it implements CommandLifecycle, for clients that make one *)
(* commandId for each key.  Both rest on ChannelsInv: what travels in      *)
(* either direction, or is being handled by the device, was put there by   *)
(* the other side.                                                         *)
(***************************************************************************)
EXTENDS CommandPipeline, SequenceTheorems, FiniteSetTheorems, TLAPS

-----------------------------------------------------------------------------
(* The firmware's command handler                                          *)

\* The device handles a command from its dispatch to the record of its key.
Busy == task \in {"dispatch", "receipt", "record"}

InRing(k) == \E i \in DOMAIN ring : ring[i] = k

\* What the device handles is a request whose key the ring does not hold.
HandlesFreshKey == Busy => current \in Requests /\ ~InRing(KeyOf[current])

DeviceInv ==
    DeviceTypeOK /\ HandlesFreshKey /\ RingDistinct /\ IsFiniteSet(routines)
        /\ TableBounded

USE RequestsAssumption, WireAssumption, DeviceAssumption

-----------------------------------------------------------------------------
(* The ring                                                                *)

\* The ring after k is recorded in s.
Recorded(s, k) ==
    LET longer == Append(s, k)
    IN  IF Len(longer) > RingSize THEN Tail(longer) ELSE longer

\* Recording a key that is not in the ring keeps its size and its keys apart,
\* and holds the key and others it held before.
LEMMA RecordedRing ==
  ASSUME NEW s \in Seq(Keys), Len(s) <= RingSize, NEW k \in Keys,
         \A i, j \in DOMAIN s : s[i] = s[j] => i = j,
         \A i \in DOMAIN s : s[i] # k
  PROVE  /\ Recorded(s, k) \in Seq(Keys)
         /\ Len(Recorded(s, k)) <= RingSize
         /\ \A i, j \in DOMAIN Recorded(s, k) :
               Recorded(s, k)[i] = Recorded(s, k)[j] => i = j
         /\ \A i \in DOMAIN Recorded(s, k) :
               \/ Recorded(s, k)[i] = k
               \/ \E j \in DOMAIN s : s[j] = Recorded(s, k)[i]
<1> DEFINE longer == Append(s, k)
<1>1. /\ longer \in Seq(Keys) /\ Len(longer) = Len(s) + 1
      /\ \A i \in 1..Len(s) : longer[i] = s[i]
      /\ longer[Len(s) + 1] = k
  BY AppendProperties
<1>2. Len(s) \in Nat /\ DOMAIN s = 1..Len(s) /\ DOMAIN longer = 1..Len(s) + 1
  BY <1>1, LenProperties
<1>3. \A i, j \in DOMAIN longer : longer[i] = longer[j] => i = j
  <2>1. \A i \in DOMAIN longer : i \in DOMAIN s \/ i = Len(s) + 1 BY <1>2
  <2> HIDE DEF longer
  <2> QED BY <1>1, <1>2, <2>1
<1>4. \A i \in DOMAIN longer : longer[i] = k \/ \E j \in DOMAIN s : s[j] = longer[i]
  <2>1. \A i \in DOMAIN longer : i \in DOMAIN s \/ i = Len(s) + 1 BY <1>2
  <2> HIDE DEF longer
  <2> QED BY <1>1, <1>2, <2>1
<1>5. CASE Len(longer) > RingSize
  <2>1. longer # <<>>
    <3> HIDE DEF longer
    <3> QED BY <1>1, <1>2, EmptySeq
  <2>2. /\ Tail(longer) \in Seq(Keys) /\ Len(Tail(longer)) = Len(longer) - 1
        /\ \A i \in 1..Len(Tail(longer)) : Tail(longer)[i] = longer[i + 1]
    BY <1>1, <2>1, HeadTailProperties
  <2>3. DOMAIN Tail(longer) = 1..Len(s) BY <1>1, <1>2, <2>2, LenProperties
  <2>4. Recorded(s, k) = Tail(longer) BY <1>5 DEF Recorded
  <2> HIDE DEF longer
  <2>5. \A i \in DOMAIN Tail(longer) :
           i + 1 \in DOMAIN longer /\ Tail(longer)[i] = longer[i + 1]
    BY <1>1, <1>2, <2>2, <2>3
  <2>6. \A i, j \in DOMAIN Tail(longer) : Tail(longer)[i] = Tail(longer)[j] => i = j
    BY <1>2, <1>3, <2>3, <2>5
  <2>7. \A i \in DOMAIN Tail(longer) :
           Tail(longer)[i] = k \/ \E j \in DOMAIN s : s[j] = Tail(longer)[i]
    BY <1>4, <2>5
  <2>8. Len(Tail(longer)) <= RingSize BY <1>1, <1>2, <2>2
  <2> QED BY <2>2, <2>4, <2>6, <2>7, <2>8
<1>6. CASE ~(Len(longer) > RingSize)
  <2>1. Recorded(s, k) = longer BY <1>6 DEF Recorded
  <2>2. Len(longer) <= RingSize BY <1>1, <1>2, <1>6
  <2> HIDE DEF longer
  <2> QED BY <1>1, <1>3, <1>4, <2>1, <2>2
<1> QED BY <1>5, <1>6

\* While there is room, recording a key forgets none.
LEMMA RecordedForgetsNone ==
  ASSUME NEW s \in Seq(Keys), Len(s) < RingSize, NEW k \in Keys
  PROVE  /\ \E i \in DOMAIN Recorded(s, k) : Recorded(s, k)[i] = k
         /\ \A j \in DOMAIN s : \E i \in DOMAIN Recorded(s, k) : Recorded(s, k)[i] = s[j]
<1> DEFINE longer == Append(s, k)
<1>1. /\ longer \in Seq(Keys) /\ Len(longer) = Len(s) + 1
      /\ \A i \in 1..Len(s) : longer[i] = s[i]
      /\ longer[Len(s) + 1] = k
  BY AppendProperties
<1>2. Len(s) \in Nat /\ DOMAIN s = 1..Len(s) /\ DOMAIN longer = 1..Len(s) + 1
  BY <1>1, LenProperties
<1>3. ~(Len(longer) > RingSize)
  <2> HIDE DEF longer
  <2> QED BY <1>1, <1>2
<1>4. Recorded(s, k) = longer BY <1>3 DEF Recorded
<1> HIDE DEF longer
<1> QED BY <1>1, <1>2, <1>4

-----------------------------------------------------------------------------
(* DeviceInv is inductive                                                  *)

LEMMA DeviceStart == DeviceInit => DeviceInv
<1> SUFFICES ASSUME DeviceInit PROVE DeviceInv OBVIOUS
<1>1. <<>> \in Seq(Keys) /\ Len(<<>>) = 0 BY EmptySeq
<1>2. DeviceTypeOK BY <1>1 DEF DeviceInit, DeviceTypeOK, ReceiptStatus, Channels
<1>3. IsFiniteSet(routines) /\ TableBounded
  BY FS_EmptySet DEF DeviceInit, TableBounded
<1> QED BY <1>2, <1>3 DEF DeviceInit, DeviceInv, HandlesFreshKey, Busy, RingDistinct

\* Taking a command dispatches one whose key the ring does not hold, or leaves
\* all but the receipts as it was.
LEMMA TakingKeeps ==
  ASSUME DeviceInv, NEW r \in Requests,
         DropMalformed(r) \/ ReceiptExpired(r) \/ ReceiptDuplicate(r) \/ Dispatch(r)
  PROVE  DeviceInv'
<1> USE DEF DeviceInv, DeviceTypeOK, HandlesFreshKey, InRing, RingDistinct,
        TableBounded, boardVars, TakeCommand
<1>1. CommandOf[r] \in Commands /\ KeyOf[r] \in Keys OBVIOUS
<1>2. CASE DropMalformed(r) BY <1>2 DEF DropMalformed, deviceVars, Busy
<1>3. CASE ReceiptExpired(r)
  BY <1>1, <1>3 DEF ReceiptExpired, PublishReceipt, Receipts, ReceiptStatus, Busy
<1>4. CASE ReceiptDuplicate(r)
  BY <1>1, <1>4 DEF ReceiptDuplicate, PublishReceipt, Receipts, ReceiptStatus, Busy
<1>5. CASE Dispatch(r)
  <2>1. acts' \in [Keys -> 0..MaxActs] BY <1>1, <1>5 DEF Dispatch
  <2> QED BY <1>5, <2>1 DEF Dispatch, IsDuplicate
<1> QED BY <1>2, <1>3, <1>4, <1>5

\* A step of a command's action leaves the ring and the history alone.
LEMMA ActLeaves ==
  ASSUME DeviceInv, Act
  PROVE  /\ Busy /\ Busy'
         /\ UNCHANGED <<ring, current, sent, acts, misjudged>>
         /\ task' \in {"dispatch", "receipt"}
         /\ verdict' \in {verdict, "APPLIED", "FAILED"}
         /\ cursor' \in 0..NumChannels + 1
<1> USE DEF Act, DisarmAll, SwitchOffNext, EmergencyStopped, StopRoutine,
        UpsertRoutine, DeleteRoutine, SwitchOn, SwitchOff, OtaUpdate, Unsupported,
        Concludes
<1>1. task = "dispatch" /\ task' \in {"dispatch", "receipt"} BY DEF Handling
<1>2. UNCHANGED <<ring, current, sent, acts, misjudged>> BY DEF historyVars
<1>3. verdict' \in {verdict, "APPLIED", "FAILED"} OBVIOUS
<1>4. cursor' \in 0..NumChannels + 1
  <2>1. CASE SwitchOffNext BY <2>1 DEF Channels
  <2>2. CASE ~SwitchOffNext
    <3>1. cursor' = 0 \/ cursor' = 1 BY <2>2
    <3> QED BY <3>1
  <2> QED BY <2>1, <2>2
<1> QED BY <1>1, <1>2, <1>3, <1>4 DEF Busy

LEMMA ActBoard ==
  ASSUME DeviceInv, Act
  PROVE  /\ relay' \in [Channels -> BOOLEAN]
         /\ routines' \subseteq RoutineIds
         /\ running' \subseteq routines'
         /\ IsFiniteSet(routines') /\ Cardinality(routines') <= RoutineSlots
<1> USE DEF DeviceInv, DeviceTypeOK, TableBounded, boardVars, StopRoutines, SetPower
<1>1. CASE UpsertRoutine
  <2>1. /\ current \in Requests
        /\ RoutineOf[current] # NoRoutineId => RoutineOf[current] \in RoutineIds
    BY <1>1 DEF UpsertRoutine, Handling, HandlesFreshKey, Busy
  <2>2. CASE UNCHANGED <<routines, running>> BY <1>1, <2>2 DEF UpsertRoutine
  <2>3. CASE /\ RoutineOf[current] # NoRoutineId
             /\ RoutineOf[current] \in routines \/ Cardinality(routines) < RoutineSlots
             /\ routines' = routines \union {RoutineOf[current]}
             /\ running' = running \ {RoutineOf[current]}
    <3>1. IsFiniteSet(routines')
          /\ Cardinality(routines')
               = IF RoutineOf[current] \in routines THEN Cardinality(routines)
                                                    ELSE Cardinality(routines) + 1
      BY <2>3, FS_AddElement
    <3>2. Cardinality(routines) \in Nat BY FS_CardinalityType
    <3> QED BY <1>1, <2>1, <2>3, <3>1, <3>2 DEF UpsertRoutine
  <2> QED BY <1>1, <2>2, <2>3 DEF UpsertRoutine
<1>2. CASE DeleteRoutine
  <2>1. IsFiniteSet(routines') /\ Cardinality(routines') <= Cardinality(routines)
    BY <1>2, FS_Subset DEF DeleteRoutine
  <2>2. Cardinality(routines) \in Nat /\ Cardinality(routines') \in Nat
    BY <2>1, FS_CardinalityType
  <2> QED BY <1>2, <2>1, <2>2 DEF DeleteRoutine
<1>3. CASE DisarmAll \/ SwitchOffNext \/ EmergencyStopped \/ StopRoutine
           \/ SwitchOn \/ SwitchOff \/ OtaUpdate \/ Unsupported
  BY <1>3 DEF DisarmAll, SwitchOffNext, EmergencyStopped, StopRoutine, SwitchOn,
     SwitchOff, OtaUpdate, Unsupported
<1> QED BY <1>1, <1>2, <1>3 DEF Act

\* The key recorded is not in the ring yet, so RecordedRing applies.
LEMMA RecordKeyRing ==
  ASSUME DeviceInv, RecordKey
  PROVE  /\ KeyOf[current] \in Keys /\ ring' = Recorded(ring, KeyOf[current])
         /\ ring' \in Seq(Keys) /\ Len(ring') <= RingSize /\ RingDistinct'
         /\ \A i \in DOMAIN ring' : ring'[i] = KeyOf[current] \/ InRing(ring'[i])
<1> DEFINE k == KeyOf[current]
<1>1. k \in Keys /\ ~InRing(k)
  BY DEF RecordKey, DeviceInv, HandlesFreshKey, Busy
<1>2. ring \in Seq(Keys) /\ Len(ring) <= RingSize
  BY DEF DeviceInv, DeviceTypeOK
<1>3. \A i, j \in DOMAIN ring : ring[i] = ring[j] => i = j
  BY DEF DeviceInv, RingDistinct
<1>4. \A i \in DOMAIN ring : ring[i] # k BY <1>1 DEF InRing
<1>5. ring' = Recorded(ring, k) BY DEF RecordKey, Recorded
<1> HIDE DEF k
<1>6. /\ Recorded(ring, k) \in Seq(Keys) /\ Len(Recorded(ring, k)) <= RingSize
      /\ \A i, j \in DOMAIN Recorded(ring, k) :
            Recorded(ring, k)[i] = Recorded(ring, k)[j] => i = j
      /\ \A i \in DOMAIN Recorded(ring, k) :
            \/ Recorded(ring, k)[i] = k
            \/ \E j \in DOMAIN ring : ring[j] = Recorded(ring, k)[i]
  BY <1>1, <1>2, <1>3, <1>4, RecordedRing
<1>7. RingDistinct' BY <1>5, <1>6 DEF RingDistinct
<1>8. \A i \in DOMAIN ring' : ring'[i] = k \/ InRing(ring'[i])
  BY <1>5, <1>6 DEF InRing
<1> QED BY <1>1, <1>5, <1>6, <1>7, <1>8 DEF k

LEMMA RecordKeeps == ASSUME DeviceInv, RecordKey PROVE DeviceInv'
<1>1. ring' \in Seq(Keys) /\ Len(ring') <= RingSize /\ RingDistinct'
  BY RecordKeyRing
<1> QED BY <1>1 DEF RecordKey, boardVars, historyVars, HandlesFreshKey, Busy,
           TableBounded, ReceiptStatus, DeviceInv, DeviceTypeOK

LEMMA DeviceStep == DeviceInv /\ DeviceNext => DeviceInv'
<1> SUFFICES ASSUME DeviceInv, DeviceNext PROVE DeviceInv' OBVIOUS
<1> USE DEF DeviceInv
<1>1. CASE Act
  <2>1. DeviceTypeOK'
    BY <1>1, ActLeaves, ActBoard DEF DeviceTypeOK, ReceiptStatus
  <2> QED BY <1>1, <2>1, ActLeaves, ActBoard
          DEF HandlesFreshKey, InRing, RingDistinct, TableBounded
<1>2. CASE Receipt
  <2>1. <<CommandOf[current], verdict>> \in Receipts
    BY <1>2 DEF Receipt, HandlesFreshKey, Busy, Receipts, DeviceTypeOK
  <2> QED BY <1>2, <2>1 DEF Receipt, PublishReceipt, DeviceTypeOK, boardVars,
             HandlesFreshKey, Busy, InRing, RingDistinct, TableBounded
<1>3. CASE RecordKey BY <1>3, RecordKeeps
<1>4. CASE MqttTask BY <1>1, <1>2, <1>3, <1>4, TakingKeeps DEF MqttTask
<1>5. CASE \E i \in RoutineIds : RoutineStarts(i) \/ RoutineEnds(i)
  <2>1. UNCHANGED <<routines, ring, task, current, cursor, verdict, sent, acts, misjudged>>
    BY <1>5 DEF RoutineStarts, RoutineEnds, boardVars, historyVars
  <2>2. relay' \in [Channels -> BOOLEAN] /\ running' \subseteq routines
    BY <1>5 DEF RoutineStarts, RoutineEnds, boardVars, DeviceTypeOK, SetPower
  <2> QED BY <2>1, <2>2 DEF DeviceTypeOK, HandlesFreshKey, Busy, InRing, RingDistinct,
             TableBounded
<1>6. CASE Reboots /\ Reboot
  <2>1. <<>> \in Seq(Keys) /\ Len(<<>>) = 0 BY EmptySeq
  <2>2. DeviceTypeOK'
    <3>1. relay' \in [Channels -> BOOLEAN] /\ routines' \subseteq RoutineIds
      BY <1>6 DEF Reboot, Tables
    <3>2. UNCHANGED <<sent, acts, misjudged>> /\ running' = {} /\ ring' = <<>>
          /\ task' = "idle" /\ current' = NoRequest /\ cursor' = 0
          /\ verdict' = "APPLIED"
      BY <1>6 DEF Reboot, historyVars
    <3> QED BY <2>1, <3>1, <3>2 DEF DeviceTypeOK, ReceiptStatus
  <2>3. HandlesFreshKey' /\ RingDistinct'
    BY <1>6 DEF Reboot, HandlesFreshKey, Busy, RingDistinct
  <2> QED BY <1>6, <2>2, <2>3 DEF Reboot, Tables, TableBounded
<1> QED BY <1>4, <1>5, <1>6 DEF DeviceNext

\* DeviceInv speaks of the device's variables only.
LEMMA DeviceFrame == DeviceInv /\ UNCHANGED deviceVars => DeviceInv'
  BY DEF DeviceInv, deviceVars, DeviceTypeOK, HandlesFreshKey, Busy, InRing,
     RingDistinct, TableBounded

LEMMA AloneDeviceStep ==
  [AloneNext]_<<deviceVars, wireVars>> => DeviceNext \/ UNCHANGED deviceVars
  BY DEF AloneNext, CloudSends

THEOREM DeviceInvariant == AloneSpec => []DeviceInv
<1>1. AloneInit => DeviceInv BY DeviceStart DEF AloneInit
<1>2. DeviceInv /\ [AloneNext]_<<deviceVars, wireVars>> => DeviceInv'
  BY DeviceStep, DeviceFrame, AloneDeviceStep
<1> QED BY <1>1, <1>2, PTL DEF AloneSpec

\* The firmware's state has its type, whatever is sent to it and in any order.
THEOREM DeviceTypeCorrect == AloneSpec => []DeviceTypeOK
<1>1. DeviceInv => DeviceTypeOK BY DEF DeviceInv
<1> QED BY <1>1, DeviceInvariant, PTL

\* No key takes two slots of the idempotency ring, whatever its size.
THEOREM RingDistinctAlways == AloneSpec => []RingDistinct
<1>1. DeviceInv => RingDistinct BY DEF DeviceInv
<1> QED BY <1>1, DeviceInvariant, PTL

\* Upserts and deletes never overfill a routine table of any size.
THEOREM TableBoundedAlways == AloneSpec => []TableBounded
<1>1. DeviceInv => TableBounded BY DEF DeviceInv
<1> QED BY <1>1, DeviceInvariant, PTL

\* Both tables hold, whatever their sizes.
THEOREM TablesHoldAlways == AloneSpec => []TablesHold
<1>1. DeviceInv => TablesHold BY DEF DeviceInv, TablesHold
<1> QED BY <1>1, DeviceInvariant, PTL

-----------------------------------------------------------------------------
(* A key is dispatched once while the device stays up                      *)

RoomForAll == IsFiniteSet(Keys) /\ Cardinality(Keys) <= RingSize

\* The ring and the command being handled hold every key ever dispatched.
OnceInv ==
    \A k \in Keys :
        /\ acts[k] <= 1
        /\ acts[k] > 0 => InRing(k) \/ (Busy /\ KeyOf[current] = k)

\* The keys of the ring and the fresh one are distinct: one more than are in the
\* ring, and no more than there are.
LEMMA RingHasRoom ==
  ASSUME RoomForAll, DeviceInv, Busy
  PROVE  Len(ring) < RingSize
<1> DEFINE k == KeyOf[current]
           others == Keys \ {k}
<1>1. k \in Keys /\ ~InRing(k) /\ ring \in Seq(Keys)
  BY DEF DeviceInv, HandlesFreshKey, DeviceTypeOK
<1>2. Len(ring) \in Nat /\ DOMAIN ring = 1..Len(ring) BY <1>1, LenProperties
<1>3. IsFiniteSet(others) /\ Cardinality(others) = Cardinality(Keys) - 1
  BY <1>1, FS_RemoveElement DEF RoomForAll
<1>4. ring \in Injection(1..Len(ring), others)
  <2>1. ring \in [1..Len(ring) -> others]
    BY <1>1, <1>2, SeqDef DEF InRing
  <2> QED BY <1>2, <2>1 DEF Injection, IsInjective, DeviceInv, RingDistinct
<1>5. Cardinality(1..Len(ring)) <= Cardinality(others)
  BY <1>3, <1>4, FS_Injection
<1>6. Cardinality(1..Len(ring)) = Len(ring)
  <2>1. 1 \in Int /\ Len(ring) \in Int
    BY <1>2
  <2>2. Cardinality(1..Len(ring)) = IF 1 > Len(ring) THEN 0 ELSE Len(ring) - 1 + 1
    BY ONLY <2>1, FS_Interval
  <2> QED
    BY <1>2, <2>2
<1>7. Cardinality(Keys) \in Nat BY FS_CardinalityType DEF RoomForAll
<1> HIDE DEF others
<1> QED BY <1>2, <1>3, <1>5, <1>6, <1>7 DEF RoomForAll

LEMMA OnceStep ==
  ASSUME ~Reboots, RoomForAll, DeviceInv, OnceInv, DeviceNext
  PROVE  OnceInv'
<1> USE DEF OnceInv, InRing
<1>1. CASE Act BY <1>1, ActLeaves
<1>2. CASE Receipt BY <1>2 DEF Receipt, PublishReceipt, Busy
<1>3. CASE RecordKey
  <2>1. Busy /\ ~Busy' /\ ring' = Recorded(ring, KeyOf[current]) /\ acts' = acts
    BY <1>3, RecordKeyRing DEF RecordKey, Busy, historyVars
  <2>2. ring \in Seq(Keys) /\ KeyOf[current] \in Keys
    BY <1>3, RecordKeyRing DEF DeviceInv, DeviceTypeOK
  <2>3. /\ \E i \in DOMAIN ring' : ring'[i] = KeyOf[current]
        /\ \A j \in DOMAIN ring : \E i \in DOMAIN ring' : ring'[i] = ring[j]
    <3>1. Len(ring) < RingSize BY <2>1, RingHasRoom
    <3> QED BY <2>1, <2>2, <3>1, RecordedForgetsNone
  <2> QED BY <2>1, <2>3
<1>4. ASSUME NEW r \in Requests,
             DropMalformed(r) \/ ReceiptExpired(r) \/ ReceiptDuplicate(r)
      PROVE  OnceInv'
  <2>1. UNCHANGED <<ring, task, current, acts>>
    BY <1>4 DEF DropMalformed, ReceiptExpired, ReceiptDuplicate, deviceVars
  <2> QED BY <2>1 DEF Busy
<1>5. ASSUME NEW r \in Requests, Dispatch(r) PROVE OnceInv'
  <2>1. /\ Busy' /\ current' = r /\ ring' = ring /\ ~InRing(KeyOf[r]) /\ ~Busy
        /\ acts' = [acts EXCEPT ![KeyOf[r]] = IF @ < MaxActs THEN @ + 1 ELSE @]
    BY <1>5 DEF Dispatch, TakeCommand, IsDuplicate, Busy
  <2>2. KeyOf[r] \in Keys /\ acts \in [Keys -> 0..MaxActs]
    BY DEF DeviceInv, DeviceTypeOK
  <2>3. acts[KeyOf[r]] = 0 BY <2>1, <2>2
  <2>4. \A k \in Keys : acts'[k] <= 1 /\ (k # KeyOf[r] => acts'[k] = acts[k])
    BY <2>1, <2>2, <2>3
  <2> QED BY <2>1, <2>4
<1>6. CASE \E i \in RoutineIds : RoutineStarts(i) \/ RoutineEnds(i)
  <2>1. UNCHANGED <<ring, task, current, acts>>
    BY <1>6 DEF RoutineStarts, RoutineEnds, historyVars
  <2> QED BY <2>1 DEF Busy
<1> QED BY <1>1, <1>2, <1>3, <1>4, <1>5, <1>6 DEF DeviceNext, MqttTask

LEMMA OnceStart == DeviceInit => OnceInv
  BY DEF DeviceInit, OnceInv

LEMMA OnceFrame == OnceInv /\ UNCHANGED deviceVars => OnceInv'
  BY DEF OnceInv, InRing, Busy, deviceVars

\* A device that does not reboot, with a ring that has room for every key,
\* dispatches no key twice, however often and in whatever order it is sent.
THEOREM DispatchedOncePerKeyAlways ==
  ~Reboots /\ RoomForAll => (AloneSpec => []DispatchedOncePerKey)
<1> SUFFICES ASSUME ~Reboots, RoomForAll PROVE AloneSpec => []DispatchedOncePerKey
  OBVIOUS
<1>1. AloneInit => OnceInv BY OnceStart DEF AloneInit
<1>2. DeviceInv /\ OnceInv /\ [AloneNext]_<<deviceVars, wireVars>> => OnceInv'
  BY OnceStep, OnceFrame, AloneDeviceStep
<1>3. OnceInv => DispatchedOncePerKey BY DEF OnceInv, DispatchedOncePerKey
<1> QED BY <1>1, <1>2, <1>3, DeviceInvariant, PTL DEF AloneSpec

-----------------------------------------------------------------------------
(* What the receipts say is true                                           *)

\* The key was dispatched (nothing is said when no history is kept).
Acted(k) == acts[k] > 0 \/ MaxActs = 0

\* Keys the device remembers or is handling were dispatched, and the receipts
\* published say what happened.
TruthInv ==
    /\ \A i \in DOMAIN ring : Acted(ring[i])
    /\ Busy => Acted(KeyOf[current])
    /\ verdict # "EXPIRED"
    /\ \A c \in Commands : <<c, "APPLIED">> \in sent =>
          \E r \in Requests : CommandOf[r] = c /\ Acted(KeyOf[r])
    /\ \A c \in Commands : <<c, "EXPIRED">> \in sent =>
          c \in misjudged \/ \E r \in expired : CommandOf[r] = c

LEMMA TruthStart == DeviceInit => TruthInv
  BY DEF DeviceInit, TruthInv, Busy

LEMMA TruthFrame ==
  TruthInv /\ UNCHANGED deviceVars /\ expired \subseteq expired' => TruthInv'
  BY DEF TruthInv, Acted, Busy, deviceVars

\* Taking a command reports what is known of it, or dispatches it.
LEMMA TakingTruth ==
  ASSUME DeviceInv, TruthInv, NEW r \in Requests,
         DropMalformed(r) \/ ReceiptExpired(r) \/ ReceiptDuplicate(r) \/ Dispatch(r)
  PROVE  TruthInv'
<1> USE DEF TruthInv, Acted, Busy, TakeCommand
<1>1. CASE DropMalformed(r) BY <1>1 DEF DropMalformed, deviceVars
<1>2. CASE ReceiptExpired(r)
  <2>1. /\ r \in expired \/ CommandOf[r] \in misjudged'
        /\ misjudged \subseteq misjudged'
        /\ sent' = sent \union {<<CommandOf[r], "EXPIRED">>}
        /\ UNCHANGED <<ring, task, current, verdict, acts, expired>>
    BY <1>2 DEF ReceiptExpired, ParsedExpired, PublishReceipt
  <2> QED BY <2>1
<1>3. CASE ReceiptDuplicate(r)
  <2>1. Acted(KeyOf[r]) /\ sent' = sent \union {<<CommandOf[r], "APPLIED">>}
        /\ UNCHANGED <<ring, task, current, verdict, acts, misjudged, expired>>
    BY <1>3 DEF ReceiptDuplicate, IsDuplicate, PublishReceipt
  <2> QED BY <2>1
<1>4. CASE Dispatch(r)
  <2>1. /\ current' = r /\ UNCHANGED <<ring, verdict, sent, misjudged, expired>>
        /\ acts' = [acts EXCEPT ![KeyOf[r]] = IF @ < MaxActs THEN @ + 1 ELSE @]
    BY <1>4 DEF Dispatch
  <2>2. KeyOf[r] \in Keys /\ acts \in [Keys -> 0..MaxActs] /\ ring \in Seq(Keys)
    BY DEF DeviceInv, DeviceTypeOK
  <2>3. /\ acts'[KeyOf[r]] > 0 \/ MaxActs = 0
        /\ \A k \in Keys : acts[k] > 0 => acts'[k] > 0
    BY <2>1, <2>2
  <2>4. \A i \in DOMAIN ring : ring[i] \in Keys BY <2>2, ElementOfSeq, LenProperties
  <2> QED BY <2>1, <2>3, <2>4
<1> QED BY <1>1, <1>2, <1>3, <1>4

LEMMA DeviceLeavesExpired == DeviceNext => expired' = expired
  BY DEF DeviceNext, MqttTask, DropMalformed, ReceiptExpired, ReceiptDuplicate, Dispatch,
     Act, DisarmAll, SwitchOffNext, EmergencyStopped, StopRoutine, UpsertRoutine,
     DeleteRoutine, SwitchOn, SwitchOff, OtaUpdate, Unsupported, Concludes, Receipt,
     RecordKey, RoutineStarts, RoutineEnds, Reboot, wireVars

LEMMA TruthStep ==
  ASSUME DeviceInv, TruthInv, DeviceNext
  PROVE  TruthInv'
<1> USE DEF TruthInv, Acted
<1>1. expired' = expired BY DeviceLeavesExpired
<1>2. CASE Act
  <2>1. verdict' # "EXPIRED" BY <1>2, ActLeaves
  <2> QED BY <1>1, <1>2, <2>1, ActLeaves
<1>3. CASE Receipt
  <2>1. /\ Busy /\ UNCHANGED <<ring, current, verdict, acts, misjudged>>
        /\ sent' = sent \union {<<CommandOf[current], verdict>>}
    BY <1>3 DEF Receipt, PublishReceipt, Busy
  <2>2. current \in Requests BY <2>1 DEF DeviceInv, HandlesFreshKey
  <2> QED BY <1>1, <2>1, <2>2
<1>4. CASE RecordKey
  <2>1. /\ Busy /\ ~Busy' /\ UNCHANGED <<acts, sent, misjudged>> /\ verdict' = "APPLIED"
    BY <1>4 DEF RecordKey, Busy, historyVars
  <2>2. \A i \in DOMAIN ring' : ring'[i] = KeyOf[current] \/ InRing(ring'[i])
    BY <1>4, RecordKeyRing
  <2>3. \A i \in DOMAIN ring' : acts'[ring'[i]] > 0 \/ MaxActs = 0
    BY <2>1, <2>2 DEF InRing
  <2> QED BY <1>1, <2>1, <2>3
<1>5. CASE \E i \in RoutineIds : RoutineStarts(i) \/ RoutineEnds(i)
  <2>1. UNCHANGED <<ring, task, current, verdict, sent, acts, misjudged>>
    BY <1>5 DEF RoutineStarts, RoutineEnds, historyVars
  <2> QED BY <1>1, <2>1 DEF Busy
<1>6. CASE Reboot
  BY <1>1, <1>6 DEF Reboot, historyVars, Busy
<1> QED BY <1>2, <1>3, <1>4, <1>5, <1>6, TakingTruth DEF DeviceNext, MqttTask

-----------------------------------------------------------------------------
(* The service                                                             *)

HIDE DeviceAssumption

\* The request owns its command's outbox row: it inserted it, and is on its way
\* to the broker or has been there.
Owns(r) == pc[r] \in {"publish", "puback", "audit"} \/ r \in published

\* device_commands has a row with the request's key.
KeyStored(r) == \E c \in Commands : Exists(c) /\ KeyOf[row[c]] = KeyOf[r]

\* The record the request holds is of its key, and not older than the row.
RecordKept(r) ==
    /\ found[r].id \in Commands
    /\ Exists(found[r].id)
    /\ KeyOf[row[found[r].id]] = KeyOf[r]
    /\ status[found[r].id] = "CREATED" => found[r].status = "CREATED"

RowIsOfItsCommand ==
    \A c \in Commands : Exists(c) => row[c] \in Requests /\ CommandOf[row[c]] = c

RecordsAreKept ==
    \A r \in Requests :
        /\ pc[r] = "outbox" \/ reply[r] = "REPLAY" => RecordKept(r)
        /\ reply[r] = "REPLAY" => pc[r] = "done"

OwnersAreStored ==
    \A r \in Requests : Owns(r) => KeyStored(r) /\ CommandOf[r] \in outbox

OwnersAreUnique ==
    \A r1, r2 \in Requests :
        Owns(r1) /\ Owns(r2) /\ CommandOf[r1] = CommandOf[r2] => r1 = r2

OutboxInv ==
    TypeOK /\ RowIsOfItsCommand /\ RecordsAreKept /\ OwnersAreStored /\ OwnersAreUnique

-----------------------------------------------------------------------------
(* Type correctness                                                        *)

LEMMA TypedInit == Init => Typed
  BY DEF Init, WireInit, ServiceInit, Typed, WireTypeOK, Steps, Replies, Statuses,
         Records, NoRecord, Receipts

\* A receipt sent or taken leaves the counters in range.
LEMMA ReceiptCounters ==
  ASSUME toCloud \in [Receipts -> 0..MaxCopies], NEW c \in Commands,
         NEW s \in ReceiptStatus, SendReceipt(c, s) \/ TakeReceipt(c, s)
  PROVE  toCloud' \in [Receipts -> 0..MaxCopies]
  BY DEF SendReceipt, TakeReceipt, Receipts

LEMMA RequestTyped ==
  ASSUME Typed, NEW r \in Requests, RequestStep(r)
  PROVE  Typed'
<1> USE DEF Typed, WireTypeOK, Steps, Replies, Goto, Answer, storeVars, wireVars
<1>1. CASE RejectExpired(r) BY <1>1 DEF RejectExpired
<1>2. CASE Submit(r) BY <1>2 DEF Submit
<1>3. CASE PreCheck(r) BY <1>3 DEF PreCheck
<1>4. CASE RecordFinds(r) BY <1>4 DEF RecordFinds, RowsWithKeyOf, Records
<1>5. CASE RecordMisses(r) BY <1>5 DEF RecordMisses
<1>6. CASE InsertCommand(r) BY <1>6 DEF InsertCommand, Records, Statuses
<1>7. CASE InsertConflicts(r) BY <1>7 DEF InsertConflicts
<1>8. CASE Enqueue(r) BY <1>8 DEF Enqueue
<1>9. CASE EnqueueConflicts(r) BY <1>9 DEF EnqueueConflicts
<1>10. CASE Publish(r) BY <1>10 DEF Publish, SendCommand
<1>11. CASE Republish(r) BY <1>11 DEF Republish, SendCommand, serviceVars
<1>12. CASE PublishFails(r) BY <1>12 DEF PublishFails
<1>13. CASE PubAck(r) BY <1>13 DEF PubAck
<1>14. CASE Audit(r) BY <1>14 DEF Audit
<1> QED BY <1>1, <1>2, <1>3, <1>4, <1>5, <1>6, <1>7, <1>8, <1>9, <1>10, <1>11,
           <1>12, <1>13, <1>14 DEF RequestStep

LEMMA TypedStep == Typed /\ [Next]_vars => Typed'
<1> SUFFICES ASSUME Typed, [Next]_vars PROVE Typed' OBVIOUS
<1>1. CASE \E r \in Requests : RequestStep(r) BY <1>1, RequestTyped
<1>2. ASSUME NEW x \in Receipts, HandleReceipt(x[1], x[2]) PROVE Typed'
  <2>1. x[1] \in Commands /\ x[2] \in ReceiptStatus BY DEF Receipts
  <2>2. toCloud' \in [Receipts -> 0..MaxCopies]
    BY <1>2, <2>1, ReceiptCounters DEF Typed, WireTypeOK, HandleReceipt
  <2>. QED BY <1>2, <2>1, <2>2 DEF HandleReceipt, Typed, WireTypeOK, Statuses
<1>3. CASE Crash BY <1>3 DEF Crash, Typed, WireTypeOK, Steps, storeVars, wireVars
<1>4. CASE WireNext /\ UNCHANGED serviceVars
  <2> USE <1>4 DEF Typed, WireTypeOK, serviceVars
  <2>1. CASE DeviceConnects BY <2>1 DEF DeviceConnects
  <2>2. CASE DeviceDisconnects
    <3>1. toDevice' \in Seq(Requests) BY <2>2, EmptySeq DEF DeviceDisconnects
    <3> QED BY <2>2, <3>1 DEF DeviceDisconnects
  <2>3. ASSUME NEW x \in Receipts, ReceiptLost(x) PROVE Typed'
    BY <2>3 DEF ReceiptLost
  <2>4. ASSUME NEW x \in Receipts, ReceiptResent(x) PROVE Typed'
    BY <2>4 DEF ReceiptResent
  <2>5. ASSUME NEW r \in Requests, Expire(r) PROVE Typed' BY <2>5 DEF Expire
  <2> QED BY <2>1, <2>2, <2>3, <2>4, <2>5 DEF WireNext
<1>5. CASE DeviceMoves
  <2>1. toDevice' \in Seq(Requests)
    <3>1. toDevice \in Seq(Requests) BY DEF Typed, WireTypeOK
    <3>2. CASE toDevice # <<>> /\ toDevice' = Tail(toDevice)
      BY <3>1, <3>2, HeadTailProperties
    <3> QED BY <1>5, <3>1, <3>2 DEF DeviceMoves
  <2>2. toCloud' \in [Receipts -> 0..MaxCopies]
    <3>1. CASE UNCHANGED toCloud BY <3>1 DEF Typed, WireTypeOK
    <3>2. ASSUME NEW r \in published, NEW s \in ReceiptStatus,
                 SendReceipt(CommandOf[r], s)
          PROVE  toCloud' \in [Receipts -> 0..MaxCopies]
      <4>1. CommandOf[r] \in Commands BY DEF Typed
      <4> QED BY <3>2, <4>1, ReceiptCounters DEF Typed, WireTypeOK
    <3> QED BY <1>5, <3>1, <3>2 DEF DeviceMoves
  <2> QED BY <1>5, <2>1, <2>2 DEF DeviceMoves, Typed, WireTypeOK, serviceVars
<1>6. CASE UNCHANGED vars BY <1>6 DEF vars, Typed, WireTypeOK, serviceVars, wireVars
<1> QED BY <1>1, <1>2, <1>3, <1>4, <1>5, <1>6 DEF Next, ServiceNext

RowsComeFromRequests == \A c \in Commands : Exists(c) => row[c] \in Requests

HoldsRecord(r) ==
    pc[r] \in {"outbox", "publish", "puback", "audit"} => found[r].id \in Commands

LEMMA TypeInit == Init => TypeOK
<1>1. Init => Typed BY TypedInit
<1> QED BY <1>1 DEF Init, ServiceInit, TypeOK, Exists

\* Rows are written by inserts, which store the request, and given a status by
\* receipts, which find them there.
LEMMA RequestRows ==
  ASSUME TypeOK, NEW r \in Requests, RequestStep(r)
  PROVE  RowsComeFromRequests' /\ \A q \in Requests : HoldsRecord(q)'
<1> USE DEF TypeOK, Typed, Goto, Answer, Exists, RowsComeFromRequests, HoldsRecord
<1>1. CASE RecordFinds(r)
  <2>1. PICK c \in Commands : found' = [found EXCEPT ![r] = [id |-> c, status |-> status[c]]]
    BY <1>1 DEF RecordFinds, RowsWithKeyOf
  <2> QED BY <1>1, <2>1 DEF RecordFinds, storeVars
<1>2. CASE InsertCommand(r) BY <1>2 DEF InsertCommand
<1>3. CASE RejectExpired(r) \/ Submit(r) \/ PreCheck(r) \/ RecordMisses(r) \/ InsertConflicts(r)
  BY <1>3 DEF RejectExpired, Submit, PreCheck, RecordMisses, InsertConflicts, storeVars
<1>4. CASE Enqueue(r) \/ EnqueueConflicts(r)
  BY <1>4 DEF Enqueue, EnqueueConflicts, storeVars
<1>5. CASE Publish(r) \/ Republish(r) \/ PublishFails(r) \/ PubAck(r) \/ Audit(r)
  BY <1>5 DEF Publish, Republish, PublishFails, PubAck, Audit, serviceVars, storeVars
<1> QED BY <1>1, <1>2, <1>3, <1>4, <1>5 DEF RequestStep

LEMMA TypeStep == TypeOK /\ [Next]_vars => TypeOK'
<1> SUFFICES ASSUME TypeOK, [Next]_vars PROVE TypeOK' OBVIOUS
<1>1. Typed' BY TypedStep DEF TypeOK
<1>2. RowsComeFromRequests' /\ \A q \in Requests : HoldsRecord(q)'
  <2> USE DEF TypeOK, RowsComeFromRequests, HoldsRecord, Exists
  <2>1. CASE \E r \in Requests : RequestStep(r) BY <2>1, RequestRows
  <2>2. ASSUME NEW x \in Receipts, HandleReceipt(x[1], x[2])
        PROVE  RowsComeFromRequests' /\ \A q \in Requests : HoldsRecord(q)'
    <3>1. \A c \in Commands : Exists(c)' => Exists(c)
      BY <2>2 DEF HandleReceipt, Typed
    <3>2. UNCHANGED <<row, pc, found>> BY <2>2 DEF HandleReceipt
    <3> QED BY <3>1, <3>2
  <2>3. CASE Crash BY <2>3 DEF Crash, storeVars
  <2>4. CASE UNCHANGED serviceVars BY <2>4 DEF serviceVars
  <2> QED BY <2>1, <2>2, <2>3, <2>4 DEF Next, ServiceNext, DeviceMoves, vars
<1> QED BY <1>1, <1>2 DEF TypeOK, RowsComeFromRequests, HoldsRecord

\* Every reachable state of the service is well typed.
THEOREM TypeCorrect == Spec => []TypeOK
  BY TypeInit, TypeStep, PTL DEF Spec

-----------------------------------------------------------------------------
(* The store only grows: rows keep the request they were made from, ids stay *)
(* in outbox, and a status never goes back to CREATED.                       *)

Keeps(c) ==
    Exists(c) => /\ Exists(c)'
                 /\ row'[c] = row[c]
                 /\ status'[c] = "CREATED" => status[c] = "CREATED"

StoreGrows == outbox \subseteq outbox' /\ \A c \in Commands : Keeps(c)

\* Only an insert of its own row, and receipts, touch a row of device_commands.
LEMMA RequestKeeps ==
  ASSUME TypeOK, NEW r \in Requests, RequestStep(r)
  PROVE  StoreGrows
<1> USE DEF StoreGrows, Keeps, Exists, storeVars, TypeOK, Typed
<1>1. CASE InsertCommand(r)
  BY <1>1 DEF InsertCommand, Statuses, ReceiptStatus
<1>2. CASE Enqueue(r)
  BY <1>2 DEF Enqueue
<1>3. CASE UNCHANGED <<row, status, outbox>>
  BY <1>3
<1> QED
  BY <1>1, <1>2, <1>3 DEF RequestStep, RejectExpired, Submit, PreCheck, RecordFinds,
     RecordMisses, InsertConflicts, EnqueueConflicts, Publish, Republish, PublishFails,
     PubAck, Audit, serviceVars

LEMMA StepKeeps == TypeOK /\ [Next]_vars => StoreGrows
<1> SUFFICES ASSUME TypeOK, [Next]_vars PROVE StoreGrows OBVIOUS
<1> USE DEF StoreGrows, Keeps, Exists
<1>1. CASE \E r \in Requests : RequestStep(r) BY <1>1, RequestKeeps
<1>2. ASSUME NEW x \in Receipts, HandleReceipt(x[1], x[2]) PROVE StoreGrows
  BY <1>2 DEF HandleReceipt, Receipts, ReceiptStatus, TypeOK, Typed
<1>3. CASE UNCHANGED <<row, status, outbox>> BY <1>3
<1> QED BY <1>1, <1>2, <1>3
        DEF Next, ServiceNext, Crash, DeviceMoves, vars, serviceVars, storeVars

\* A stored command keeps its request and never goes back to CREATED: the
\* action property NoRegression, in every behaviour of the service.
THEOREM NeverRegresses == Spec => NoRegression
<1>1. TypeOK /\ [Next]_vars
        => [\A c \in Commands : Exists(c) =>
               /\ row'[c] = row[c]
               /\ status'[c] = "CREATED" => status[c] = "CREATED"]_vars
  BY StepKeeps DEF StoreGrows, Keeps
<1> QED BY <1>1, TypeCorrect, PTL DEF Spec, NoRegression

-----------------------------------------------------------------------------
(* Between two steps of its own a request is left alone, or dies.          *)

Undisturbed(q) ==
    /\ pc'[q] \in {pc[q], "lost"}
    /\ pc[q] = "done" => pc'[q] = "done"
    /\ reply'[q] = reply[q]
    /\ found'[q] = found[q]
    /\ q \in published' <=> q \in published

LEMMA OthersUndisturbed ==
  ASSUME TypeOK, NEW r \in Requests, RequestStep(r), NEW q \in Requests, q # r
  PROVE  Undisturbed(q)
<1> USE DEF Undisturbed, TypeOK, Typed, Goto, Answer
<1>1. CASE RejectExpired(r) \/ Submit(r) \/ PreCheck(r)
  BY <1>1 DEF RejectExpired, Submit, PreCheck
<1>2. CASE RecordFinds(r) \/ RecordMisses(r)
  BY <1>2 DEF RecordFinds, RecordMisses
<1>3. CASE InsertCommand(r) \/ InsertConflicts(r)
  BY <1>3 DEF InsertCommand, InsertConflicts
<1>4. CASE Enqueue(r) \/ EnqueueConflicts(r)
  BY <1>4 DEF Enqueue, EnqueueConflicts
<1>5. CASE Publish(r) \/ Republish(r) \/ PublishFails(r)
  BY <1>5 DEF Publish, Republish, PublishFails, serviceVars
<1>6. CASE PubAck(r) \/ Audit(r)
  BY <1>6 DEF PubAck, Audit
<1> QED BY <1>1, <1>2, <1>3, <1>4, <1>5, <1>6 DEF RequestStep

LEMMA OwnStepOrUndisturbed ==
  ASSUME TypeOK, [Next]_vars, NEW q \in Requests
  PROVE  RequestStep(q) \/ Undisturbed(q)
<1>1. CASE \E r \in Requests : RequestStep(r)
  BY <1>1, OthersUndisturbed
<1>2. CASE \E x \in Receipts : HandleReceipt(x[1], x[2])
  BY <1>2 DEF HandleReceipt, Undisturbed
<1>3. CASE Crash
  BY <1>3 DEF Crash, Undisturbed, TypeOK, Typed
<1>4. CASE UNCHANGED serviceVars
  BY <1>4 DEF Undisturbed, serviceVars
<1> QED BY <1>1, <1>2, <1>3, <1>4 DEF Next, ServiceNext, DeviceMoves, vars

-----------------------------------------------------------------------------
(* OutboxInv is inductive                                                  *)

LEMMA OutboxInit == Init => OutboxInv
<1> SUFFICES ASSUME Init PROVE OutboxInv OBVIOUS
<1>1. TypeOK BY TypeInit
<1>2. RowIsOfItsCommand BY DEF Init, ServiceInit, RowIsOfItsCommand, Exists
<1>3. RecordsAreKept BY DEF Init, ServiceInit, RecordsAreKept
<1>4. OwnersAreStored /\ OwnersAreUnique
  BY DEF Init, ServiceInit, OwnersAreStored, OwnersAreUnique, Owns
<1> QED BY <1>1, <1>2, <1>3, <1>4 DEF OutboxInv

\* A row appears by the insert of a request for its command.
LEMMA NewRow ==
  ASSUME TypeOK, [Next]_vars, NEW c \in Commands, ~Exists(c), Exists(c)'
  PROVE  \E r \in Requests : InsertCommand(r) /\ CommandOf[r] = c
<1>1. ASSUME NEW r \in Requests, RequestStep(r)
      PROVE  InsertCommand(r) /\ CommandOf[r] = c
  <2>1. status' # status BY DEF Exists
  <2>2. InsertCommand(r)
    BY <1>1, <2>1 DEF RequestStep, RejectExpired, Submit, PreCheck, RecordFinds,
       RecordMisses, InsertConflicts, Enqueue, EnqueueConflicts, Publish, Republish,
       PublishFails, PubAck, Audit, serviceVars, storeVars
  <2> QED BY <2>2 DEF InsertCommand, Exists, TypeOK, Typed
<1>2. ASSUME NEW x \in Receipts, HandleReceipt(x[1], x[2]) PROVE FALSE
  BY <1>2 DEF HandleReceipt, Exists, Receipts, TypeOK, Typed
<1>3. CASE UNCHANGED status BY <1>3 DEF Exists
<1> QED BY <1>1, <1>2, <1>3
        DEF Next, ServiceNext, Crash, DeviceMoves, vars, serviceVars, storeVars

LEMMA RowsStep == OutboxInv /\ [Next]_vars => RowIsOfItsCommand'
<1> SUFFICES ASSUME OutboxInv, [Next]_vars, NEW c \in Commands, Exists(c)'
             PROVE  row'[c] \in Requests /\ CommandOf[row'[c]] = c
  BY DEF RowIsOfItsCommand
<1>1. TypeOK BY DEF OutboxInv
<1>2. CASE Exists(c)
  BY <1>1, <1>2, StepKeeps DEF StoreGrows, Keeps, OutboxInv, RowIsOfItsCommand
<1>3. CASE ~Exists(c)
  BY <1>1, <1>3, NewRow DEF InsertCommand, TypeOK, Typed
<1> QED BY <1>2, <1>3

\* A record that is held stays good, because the store only grows.
LEMMA RecordStaysKept ==
  ASSUME NEW q \in Requests, RecordKept(q), found'[q] = found[q], StoreGrows
  PROVE  RecordKept(q)'
  BY DEF RecordKept, StoreGrows, Keeps

LEMMA RecordsStep == OutboxInv /\ [Next]_vars => RecordsAreKept'
<1> SUFFICES ASSUME OutboxInv, [Next]_vars, NEW q \in Requests
             PROVE  /\ pc'[q] = "outbox" \/ reply'[q] = "REPLAY" => RecordKept(q)'
                    /\ reply'[q] = "REPLAY" => pc'[q] = "done"
  BY DEF RecordsAreKept
<1> DEFINE Holds == pc[q] = "outbox" \/ reply[q] = "REPLAY"
<1>1. TypeOK /\ StoreGrows BY StepKeeps DEF OutboxInv
<1>2. /\ Holds => RecordKept(q)
      /\ reply[q] = "REPLAY" => pc[q] = "done"
  BY DEF OutboxInv, RecordsAreKept
<1>3. CASE Undisturbed(q)
  BY <1>1, <1>2, <1>3, RecordStaysKept DEF Undisturbed
<1>4. CASE RequestStep(q)
  <2> USE DEF Goto, Answer
  <2>1. CASE RecordFinds(q)
    <3>1. PICK c \in RowsWithKeyOf(q) :
             found' = [found EXCEPT ![q] = [id |-> c, status |-> status[c]]]
      BY <2>1 DEF RecordFinds
    <3>2. UNCHANGED <<row, status, reply>> /\ pc[q] = "record" /\ pc'[q] = "outbox"
      BY <1>1, <2>1 DEF RecordFinds, storeVars, TypeOK, Typed
    <3>3. found'[q] = [id |-> c, status |-> status[c]] BY <1>1, <3>1 DEF TypeOK, Typed
    <3> QED BY <1>2, <3>2, <3>3 DEF RowsWithKeyOf, RecordKept, Exists
  <2>2. CASE InsertCommand(q)
    BY <1>1, <1>2, <2>2 DEF InsertCommand, RecordKept, Exists, TypeOK, Typed
  <2>3. CASE Enqueue(q) \/ EnqueueConflicts(q)
    <3>1. /\ Holds
          /\ found' = found
          /\ pc'[q] # "outbox"
          /\ reply'[q] = "REPLAY" => pc'[q] = "done"
      BY <1>1, <1>2, <2>3 DEF Enqueue, EnqueueConflicts, TypeOK, Typed, Steps
    <3> QED BY <1>1, <1>2, <3>1, RecordStaysKept
  <2>4. CASE Republish(q)
    BY <1>1, <1>2, <2>4, RecordStaysKept DEF Republish, serviceVars
  <2>5. CASE RejectExpired(q) \/ Submit(q) \/ PreCheck(q) \/ RecordMisses(q)
    BY <1>1, <1>2, <2>5 DEF RejectExpired, Submit, PreCheck, RecordMisses, TypeOK, Typed
  <2>6. CASE InsertConflicts(q) \/ Publish(q) \/ PublishFails(q) \/ PubAck(q) \/ Audit(q)
    BY <1>1, <1>2, <2>6 DEF InsertConflicts, Publish, PublishFails, PubAck, Audit, TypeOK, Typed
  <2> QED BY <1>4, <2>1, <2>2, <2>3, <2>4, <2>5, <2>6 DEF RequestStep
<1> QED BY <1>1, <1>3, <1>4, OwnStepOrUndisturbed

\* A request becomes an owner by inserting the outbox row.
LEMMA NewOwner ==
  ASSUME OutboxInv, [Next]_vars, NEW q \in Requests, Owns(q)', ~Owns(q)
  PROVE  Enqueue(q)
<1>1. TypeOK BY DEF OutboxInv
<1>2. CASE Undisturbed(q) BY <1>2 DEF Undisturbed, Owns
<1>3. CASE RequestStep(q)
  BY <1>1, <1>3 DEF RequestStep, RejectExpired, Submit, PreCheck, RecordFinds,
     RecordMisses, InsertCommand, InsertConflicts, Enqueue, EnqueueConflicts, Publish,
     Republish, PublishFails, PubAck, Audit, Goto, Answer, serviceVars, Owns, TypeOK, Typed
<1> QED BY <1>1, <1>2, <1>3, OwnStepOrUndisturbed

LEMMA OwnersStep == OutboxInv /\ [Next]_vars => OwnersAreStored' /\ OwnersAreUnique'
<1> SUFFICES ASSUME OutboxInv, [Next]_vars PROVE OwnersAreStored' /\ OwnersAreUnique'
  OBVIOUS
<1>1. TypeOK /\ StoreGrows BY StepKeeps DEF OutboxInv
<1>2. ASSUME NEW q \in Requests, Owns(q)'
      PROVE  KeyStored(q)' /\ CommandOf[q] \in outbox'
  <2>1. CASE Owns(q)
    BY <1>1, <2>1 DEF OutboxInv, OwnersAreStored, StoreGrows, Keeps, KeyStored
  <2>2. CASE ~Owns(q)
    <3>1. Enqueue(q) BY <1>2, <2>2, NewOwner
    <3>2. RecordKept(q) BY <3>1 DEF Enqueue, Goto, Answer, OutboxInv, RecordsAreKept
    <3>3. UNCHANGED <<row, status>> /\ CommandOf[q] \in outbox' BY <3>1 DEF Enqueue
    <3> QED BY <3>2, <3>3 DEF RecordKept, KeyStored, Exists
  <2> QED BY <2>1, <2>2
<1>3. ASSUME NEW p \in Requests, NEW q \in Requests, Owns(p)', Owns(q)',
             CommandOf[p] = CommandOf[q]
      PROVE  p = q
  \* The newcomer found no outbox row of its command; an owner has one.
  <2>1. Owns(p) => CommandOf[p] \in outbox BY DEF OutboxInv, OwnersAreStored
  <2>2. Owns(q) => CommandOf[q] \in outbox BY DEF OutboxInv, OwnersAreStored
  <2>3. CASE Owns(p) /\ Owns(q) BY <1>3, <2>3 DEF OutboxInv, OwnersAreUnique
  <2>4. CASE ~Owns(p)
    <3>1. Enqueue(p) BY <1>3, <2>4, NewOwner
    <3>2. Owns(q) \/ Enqueue(q) BY <1>3, NewOwner
    <3> QED BY <1>1, <1>3, <2>2, <3>1, <3>2 DEF Enqueue, Goto, Answer, TypeOK, Typed
  <2>5. CASE ~Owns(q)
    <3>1. Enqueue(q) BY <1>3, <2>5, NewOwner
    <3>2. Owns(p) \/ Enqueue(p) BY <1>3, NewOwner
    <3> QED BY <1>1, <1>3, <2>1, <3>1, <3>2 DEF Enqueue, Goto, Answer, TypeOK, Typed
  <2> QED BY <2>3, <2>4, <2>5
<1> QED BY <1>2, <1>3 DEF OwnersAreStored, OwnersAreUnique

LEMMA OutboxStep == OutboxInv /\ [Next]_vars => OutboxInv'
  BY TypeStep, RowsStep, RecordsStep, OwnersStep DEF OutboxInv

-----------------------------------------------------------------------------
(* What follows from it                                                    *)

THEOREM OutboxInvariant == Spec => []OutboxInv
  BY OutboxInit, OutboxStep, PTL DEF Spec

\* No two requests hand one command to the broker.
THEOREM DispatchedOnceAlways == Spec => []DispatchedOnce
<1>1. OutboxInv => DispatchedOnce
  BY DEF OutboxInv, TypeOK, Typed, OwnersAreUnique, Owns, DispatchedOnce
<1> QED BY <1>1, OutboxInvariant, PTL

\* Nothing is published before its outbox row and a row with its key are stored.
THEOREM PublishedIsDurableAlways == Spec => []PublishedIsDurable
<1>1. OutboxInv => PublishedIsDurable
  BY DEF OutboxInv, TypeOK, Typed, OwnersAreStored, Owns, KeyStored, PublishedIsDurable
<1> QED BY <1>1, OutboxInvariant, PTL

\* A replay is answered with a record of its own key, as it was at some time.
THEOREM ReplayAnswersItsKeyAlways == Spec => []ReplayAnswersItsKey
<1>1. OutboxInv => ReplayAnswersItsKey
  BY DEF OutboxInv, RecordsAreKept, RecordKept, ReplayAnswersItsKey
<1> QED BY <1>1, OutboxInvariant, PTL

\* With clients that make one commandId for each key, what is published has the
\* row its receipt will look for.
THEOREM PublishedIsRecordedAlways ==
  KeyDeterminesCommand => (Spec => []PublishedIsRecorded)
<1> SUFFICES ASSUME KeyDeterminesCommand PROVE Spec => []PublishedIsRecorded
  OBVIOUS
<1>1. OutboxInv => PublishedIsRecorded
  <2> SUFFICES ASSUME OutboxInv, NEW r \in published PROVE Exists(CommandOf[r])
    BY DEF PublishedIsRecorded
  <2>1. r \in Requests BY DEF OutboxInv, TypeOK, Typed
  <2>2. PICK c \in Commands : Exists(c) /\ KeyOf[row[c]] = KeyOf[r]
    BY <2>1 DEF OutboxInv, OwnersAreStored, Owns, KeyStored
  <2>3. row[c] \in Requests /\ CommandOf[row[c]] = c
    BY <2>2 DEF OutboxInv, RowIsOfItsCommand
  <2> QED BY <2>1, <2>2, <2>3 DEF KeyDeterminesCommand
<1> QED BY <1>1, OutboxInvariant, PTL

-----------------------------------------------------------------------------
(* The pipeline                                                            *)

USE DeviceAssumption

ChannelsInv ==
    /\ toDevice \in Seq(published)
    /\ ~online => toDevice = <<>>
    /\ \A r \in Requests : pc[r] \in {"puback", "audit"} => r \in published
    /\ Busy => current \in published
    /\ verdict \in ReceiptStatus
    /\ \A x \in sent : \E r \in published : CommandOf[r] = x[1]
    /\ \A x \in Receipts : toCloud[x] > 0 => x \in sent

\* What a step of the firmware does to what it shares with the service.
TakesOrLeaves ==
    \/ UNCHANGED toDevice
    \/ toDevice # <<>> /\ toDevice' = Tail(toDevice)

Tells ==
    \E r \in published, s \in ReceiptStatus : PublishReceipt(CommandOf[r], s)

DeviceEffect ==
    /\ UNCHANGED expired
    /\ \/ Lossy /\ online' = FALSE /\ toDevice' = <<>> /\ UNCHANGED <<toCloud, sent>>
       \/ UNCHANGED online /\ TakesOrLeaves /\ (Tells \/ UNCHANGED <<toCloud, sent>>)
    /\ Busy' => current' \in published
    /\ verdict' \in ReceiptStatus

-----------------------------------------------------------------------------
(* Every step of the firmware has that effect                              *)

\* The command the event handler takes is one the service published.
LEMMA TakesPublished ==
  ASSUME ChannelsInv, NEW r \in Requests, TakeCommand(r)
  PROVE  r \in published /\ TakesOrLeaves
  BY HeadTailProperties DEF ChannelsInv, TakeCommand, TakesOrLeaves

LEMMA TakingEffect ==
  ASSUME ChannelsInv, NEW r \in Requests,
         DropMalformed(r) \/ ReceiptExpired(r) \/ ReceiptDuplicate(r) \/ Dispatch(r)
  PROVE  DeviceEffect
<1>1. r \in published /\ TakesOrLeaves
  BY TakesPublished DEF DropMalformed, ReceiptExpired, ReceiptDuplicate, Dispatch
<1> USE DEF DeviceEffect, ChannelsInv, Busy
<1>2. CASE DropMalformed(r) BY <1>1, <1>2 DEF DropMalformed, deviceVars
<1>3. CASE ReceiptExpired(r)
  <2>1. Tells BY <1>1, <1>3 DEF ReceiptExpired, Tells, ReceiptStatus
  <2> QED BY <1>1, <1>3, <2>1 DEF ReceiptExpired
<1>4. CASE ReceiptDuplicate(r)
  <2>1. Tells BY <1>1, <1>4 DEF ReceiptDuplicate, Tells, ReceiptStatus
  <2> QED BY <1>1, <1>4, <2>1 DEF ReceiptDuplicate
<1>5. CASE Dispatch(r) BY <1>1, <1>5 DEF Dispatch
<1> QED BY <1>2, <1>3, <1>4, <1>5

LEMMA ActEffect == ASSUME ChannelsInv, Act PROVE DeviceEffect
<1>1. task = "dispatch" /\ current' = current
  BY DEF Act, DisarmAll, SwitchOffNext, EmergencyStopped, StopRoutine, UpsertRoutine,
     DeleteRoutine, SwitchOn, SwitchOff, OtaUpdate, Unsupported, Handling, Concludes
<1>2. UNCHANGED <<wireVars, sent>> /\ verdict' \in ReceiptStatus
  BY DEF Act, DisarmAll, SwitchOffNext, EmergencyStopped, StopRoutine, UpsertRoutine,
     DeleteRoutine, SwitchOn, SwitchOff, OtaUpdate, Unsupported, Concludes,
     historyVars, ChannelsInv, ReceiptStatus
<1> QED BY <1>1, <1>2 DEF DeviceEffect, ChannelsInv, Busy, TakesOrLeaves, wireVars

LEMMA DeviceStepEffect == ASSUME ChannelsInv, DeviceNext PROVE DeviceEffect
<1> USE DEF DeviceEffect, TakesOrLeaves
<1>1. CASE MqttTask
  <2>1. CASE Receipt
    <3>1. current \in published /\ verdict \in ReceiptStatus
      BY <2>1 DEF Receipt, ChannelsInv, Busy
    <3>2. Tells BY <2>1, <3>1 DEF Receipt, Tells
    <3> QED BY <2>1, <3>1, <3>2 DEF Receipt
  <2>2. CASE RecordKey
    <3>1. UNCHANGED <<wireVars, historyVars>> /\ task' = "idle" /\ verdict' = "APPLIED"
      BY <2>2 DEF RecordKey
    <3> QED BY <3>1 DEF wireVars, historyVars, Busy, ReceiptStatus
  <2> QED BY <1>1, <2>1, <2>2, TakingEffect, ActEffect DEF MqttTask
<1>2. CASE \E i \in RoutineIds : RoutineStarts(i) \/ RoutineEnds(i)
  <2>1. UNCHANGED <<wireVars, historyVars, task, current, verdict>>
    BY <1>2 DEF RoutineStarts, RoutineEnds
  <2>2. (Busy => current \in published) /\ verdict \in ReceiptStatus BY DEF ChannelsInv
  <2> QED BY <2>1, <2>2 DEF wireVars, historyVars, Busy
<1>3. CASE Reboots /\ Reboot
  <2>1. Lossy BY <1>3
  <2> QED BY <1>3, <2>1 DEF Reboot, historyVars, Busy, ReceiptStatus
<1> QED BY <1>1, <1>2, <1>3 DEF DeviceNext

-----------------------------------------------------------------------------
(* PipelineInv is inductive, and under it every step is one of the service *)

PipelineInv == OutboxInv /\ ChannelsInv

LEMMA StepRefines ==
  PipelineInv /\ [PipelineNext]_pipelineVars => [Next]_vars
<1> SUFFICES ASSUME PipelineInv, [PipelineNext]_pipelineVars PROVE [Next]_vars
  OBVIOUS
<1>1. CASE ServiceNext /\ UNCHANGED deviceVars BY <1>1 DEF Next
<1>2. CASE WireNext /\ UNCHANGED <<serviceVars, deviceVars>> BY <1>2 DEF Next
<1>3. CASE DeviceNext /\ UNCHANGED serviceVars
  <2>1. DeviceEffect BY <1>3, DeviceStepEffect DEF PipelineInv
  <2>2. CASE Lossy /\ online' = FALSE /\ toDevice' = <<>> /\ UNCHANGED <<toCloud, sent>>
    <3>1. CASE online
      BY <1>3, <2>1, <2>2, <3>1 DEF DeviceEffect, DeviceDisconnects, WireNext, Next
    <3>2. CASE ~online
      <4>1. toDevice = <<>> /\ online = FALSE
        BY <3>2 DEF PipelineInv, ChannelsInv, OutboxInv, TypeOK, Typed, WireTypeOK
      <4> QED BY <1>3, <2>1, <2>2, <4>1 DEF DeviceEffect, vars, wireVars
    <3> QED BY <3>1, <3>2
  <2>3. CASE UNCHANGED online /\ TakesOrLeaves /\ (Tells \/ UNCHANGED <<toCloud, sent>>)
    <3>1. DeviceMoves
      BY <1>3, <2>1, <2>3
      DEF DeviceEffect, DeviceMoves, TakesOrLeaves, Tells, PublishReceipt
    <3> QED BY <3>1 DEF Next
  <2> QED BY <2>1, <2>2, <2>3 DEF DeviceEffect
<1>4. CASE UNCHANGED pipelineVars BY <1>4 DEF pipelineVars, vars
<1> QED BY <1>1, <1>2, <1>3, <1>4 DEF PipelineNext

LEMMA LargerSeq ==
  ASSUME NEW S, NEW T, S \subseteq T, NEW s \in Seq(S)
  PROVE  s \in Seq(T)
  BY SeqDef

\* What a request's steps do to what it shares with the device.
LEMMA RequestChannels ==
  ASSUME TypeOK, ChannelsInv, NEW r \in Requests, RequestStep(r), UNCHANGED deviceVars
  PROVE  ChannelsInv'
<1>1. Typed' BY RequestTyped DEF TypeOK
<1>2. UNCHANGED <<toCloud, online, task, current, verdict, sent>>
      /\ published \subseteq published'
  BY DEF RequestStep, RejectExpired, Submit, PreCheck, RecordFinds, RecordMisses,
     InsertCommand, InsertConflicts, Enqueue, EnqueueConflicts, Publish, Republish,
     PublishFails, PubAck, Audit, serviceVars, wireVars, deviceVars
<1>3. \A q \in Requests : pc'[q] \in {"puback", "audit"} => q \in published'
  <2>1. ASSUME NEW q \in Requests, q # r, pc'[q] \in {"puback", "audit"}
        PROVE  q \in published'
    BY <2>1, OthersUndisturbed DEF Undisturbed, ChannelsInv
  <2>2. pc'[r] \in {"puback", "audit"} => r \in published'
    BY DEF RequestStep, RejectExpired, Submit, PreCheck, RecordFinds, RecordMisses,
       InsertCommand, InsertConflicts, Enqueue, EnqueueConflicts, Publish, Republish,
       PublishFails, PubAck, Audit, Goto, Answer, serviceVars, ChannelsInv, TypeOK, Typed
  <2> QED BY <2>1, <2>2
<1>4. toDevice' \in Seq(published') /\ (~online' => toDevice' = <<>>)
  <2>1. toDevice \in Seq(published') /\ (~online => toDevice = <<>>)
    BY <1>2, LargerSeq DEF ChannelsInv
  <2>2. CASE SendCommand(r) /\ r \in published'
    BY <1>2, <2>1, <2>2, AppendProperties DEF SendCommand
  <2>3. CASE UNCHANGED toDevice BY <1>2, <2>1, <2>3
  <2>4. (SendCommand(r) /\ r \in published') \/ UNCHANGED toDevice
    BY DEF RequestStep, RejectExpired, Submit, PreCheck, RecordFinds, RecordMisses,
       InsertCommand, InsertConflicts, Enqueue, EnqueueConflicts, Publish, Republish,
       PublishFails, PubAck, Audit, wireVars, serviceVars, ChannelsInv
  <2> QED BY <2>2, <2>3, <2>4
<1> QED BY <1>2, <1>3, <1>4 DEF ChannelsInv, Busy

LEMMA ServiceChannels ==
  ASSUME TypeOK, ChannelsInv, ServiceNext, UNCHANGED deviceVars
  PROVE  ChannelsInv'
<1> USE DEF deviceVars, Busy
<1>1. CASE \E r \in Requests : RequestStep(r) BY <1>1, RequestChannels
<1>2. ASSUME NEW x \in Receipts, HandleReceipt(x[1], x[2]) PROVE ChannelsInv'
  <2>1. \A y \in Receipts : toCloud'[y] > 0 => toCloud[y] > 0
    BY <1>2 DEF HandleReceipt, TakeReceipt, TypeOK, Typed, WireTypeOK, Receipts
  <2> QED BY <1>2, <2>1 DEF HandleReceipt, ChannelsInv
<1>3. CASE Crash BY <1>3 DEF Crash, ChannelsInv, TypeOK, Typed, wireVars
<1> QED BY <1>1, <1>2, <1>3 DEF ServiceNext

LEMMA DeviceChannels ==
  ASSUME TypeOK, ChannelsInv, DeviceNext, UNCHANGED serviceVars
  PROVE  ChannelsInv'
<1>1. DeviceEffect /\ UNCHANGED <<pc, published>> BY DeviceStepEffect DEF serviceVars
<1>2. toDevice' \in Seq(published) /\ (~online' => toDevice' = <<>>)
  <2>1. toDevice \in Seq(published) /\ (~online => toDevice = <<>>) BY DEF ChannelsInv
  <2>2. CASE toDevice' = <<>> BY <2>2, EmptySeq
  <2>3. CASE UNCHANGED online /\ TakesOrLeaves
    <3>1. CASE UNCHANGED toDevice BY <2>1, <2>3, <3>1
    <3>2. CASE toDevice # <<>> /\ toDevice' = Tail(toDevice)
      <4>1. Tail(toDevice) \in Seq(published) BY <2>1, <3>2, HeadTailProperties
      <4> QED BY <2>1, <2>3, <3>2, <4>1
    <3> QED BY <2>3, <3>1, <3>2 DEF TakesOrLeaves
  <2> QED BY <1>1, <2>2, <2>3 DEF DeviceEffect
<1>3. CASE UNCHANGED <<toCloud, sent>>
  BY <1>1, <1>2, <1>3 DEF ChannelsInv, DeviceEffect, Busy
<1>4. CASE Tells
  <2>1. PICK r \in published, v \in ReceiptStatus : PublishReceipt(CommandOf[r], v)
    BY <1>4 DEF Tells
  <2>2. CommandOf[r] \in Commands BY DEF TypeOK, Typed
  <2>3. \A x \in Receipts : toCloud'[x] > 0 => x \in sent'
    BY <2>1, <2>2
    DEF PublishReceipt, SendReceipt, ChannelsInv, TypeOK, Typed, WireTypeOK, Receipts
  <2>4. \A x \in sent' : \E q \in published : CommandOf[q] = x[1]
    BY <2>1 DEF PublishReceipt, ChannelsInv
  <2> QED BY <1>1, <1>2, <2>3, <2>4 DEF ChannelsInv, DeviceEffect, Busy
<1> QED BY <1>1, <1>3, <1>4 DEF DeviceEffect

LEMMA WireChannels ==
  ASSUME TypeOK, ChannelsInv, WireNext, UNCHANGED <<serviceVars, deviceVars>>
  PROVE  ChannelsInv'
<1> USE DEF serviceVars, deviceVars, Busy, ChannelsInv
<1>1. CASE DeviceConnects BY <1>1 DEF DeviceConnects
<1>2. CASE DeviceDisconnects
  <2>1. <<>> \in Seq(published) BY EmptySeq
  <2> QED BY <1>2, <2>1 DEF DeviceDisconnects
<1>3. ASSUME NEW x \in Receipts, ReceiptLost(x) \/ ReceiptResent(x) PROVE ChannelsInv'
  <2>1. \A y \in Receipts : toCloud'[y] > 0 => toCloud[y] > 0
    BY <1>3 DEF ReceiptLost, ReceiptResent, TypeOK, Typed, WireTypeOK
  <2>2. UNCHANGED <<toDevice, online>> BY <1>3 DEF ReceiptLost, ReceiptResent
  <2> QED BY <2>1, <2>2
<1>4. CASE \E r \in Requests : Expire(r) BY <1>4 DEF Expire
<1> QED BY <1>1, <1>2, <1>3, <1>4 DEF WireNext

LEMMA PipelineStart == PipelineInit => PipelineInv
<1> SUFFICES ASSUME PipelineInit PROVE PipelineInv OBVIOUS
<1>1. OutboxInv BY OutboxInit DEF PipelineInit, Init
<1>2. <<>> \in Seq(published) BY EmptySeq
<1>3. ChannelsInv
  BY <1>2 DEF PipelineInit, WireInit, ServiceInit, DeviceInit, ChannelsInv, Busy,
     ReceiptStatus
<1> QED BY <1>1, <1>3 DEF PipelineInv

LEMMA PipelineStep == PipelineInv /\ [PipelineNext]_pipelineVars => PipelineInv'
<1> SUFFICES ASSUME PipelineInv, [PipelineNext]_pipelineVars PROVE PipelineInv'
  OBVIOUS
<1>1. OutboxInv' BY StepRefines, OutboxStep DEF PipelineInv
<1>2. TypeOK /\ ChannelsInv BY DEF PipelineInv, OutboxInv
<1>3. ChannelsInv'
  <2>1. CASE UNCHANGED pipelineVars
    <3>1. UNCHANGED <<toDevice, toCloud, online, published, pc, task, current, verdict,
                      sent>>
      BY <2>1 DEF pipelineVars, serviceVars, deviceVars, wireVars
    <3> QED BY <1>2, <3>1 DEF ChannelsInv, Busy
  <2>2. CASE ServiceNext /\ UNCHANGED deviceVars BY <1>2, <2>2, ServiceChannels
  <2>3. CASE DeviceNext /\ UNCHANGED serviceVars BY <1>2, <2>3, DeviceChannels
  <2>4. CASE WireNext /\ UNCHANGED <<serviceVars, deviceVars>>
    BY <1>2, <2>4, WireChannels
  <2> QED BY <2>1, <2>2, <2>3, <2>4 DEF PipelineNext
<1> QED BY <1>1, <1>3 DEF PipelineInv

THEOREM PipelineInvariant == PipelineSpec => []PipelineInv
  BY PipelineStart, PipelineStep, PTL DEF PipelineSpec

\* The backend joined to the firmware is the service CommandService describes.
THEOREM PipelineImplementsService == PipelineSpec => ImplementsService
<1>1. PipelineInit => Init BY DEF PipelineInit, Init
<1> QED BY <1>1, StepRefines, PipelineInvariant, PTL
        DEF PipelineSpec, ImplementsService, Spec

-----------------------------------------------------------------------------
(* The refinement of CommandLifecycle                                      *)

\* The command of a request at the outbox step has its row.
LEMMA CommittedIsStored ==
  ASSUME KeyDeterminesCommand, OutboxInv, NEW r \in Requests, pc[r] = "outbox"
  PROVE  Exists(CommandOf[r])
<1> DEFINE c == found[r].id
<1>1. c \in Commands /\ Exists(c) /\ KeyOf[row[c]] = KeyOf[r]
  BY DEF OutboxInv, RecordsAreKept, RecordKept
<1>2. row[c] \in Requests /\ CommandOf[row[c]] = c
  BY <1>1 DEF OutboxInv, RowIsOfItsCommand
<1> QED BY <1>1, <1>2 DEF KeyDeterminesCommand

\* A command about to be published was published by no request but this one.
LEMMA PublishedAlone ==
  ASSUME OutboxInv, NEW r \in Requests, pc[r] = "publish", r \notin published
  PROVE  CommandOf[r] \in outbox /\ \A q \in published : CommandOf[q] # CommandOf[r]
  BY DEF OutboxInv, OwnersAreStored, OwnersAreUnique, Owns, TypeOK, Typed

LEMMA RequestLifecycle ==
  ASSUME KeyDeterminesCommand, OutboxInv, NEW r \in Requests, RequestStep(r),
         UNCHANGED sent
  PROVE  [Lifecycle!Next]_(Lifecycle!lifecycleVars)
<1> USE DEF Lifecycle!Next, Lifecycle!lifecycleVars
<1>1. CommandOf[r] \in Commands OBVIOUS
<1>2. CASE InsertCommand(r)
  BY <1>1, <1>2 DEF InsertCommand, Exists, Lifecycle!Store
<1>3. CASE Enqueue(r)
  <2>1. pc[r] = "outbox" BY <1>3 DEF Enqueue, Goto, Answer
  <2>2. Exists(CommandOf[r]) BY <2>1, CommittedIsStored
  <2> QED BY <1>1, <1>3, <2>2 DEF Enqueue, Exists, Lifecycle!Commit
<1>4. CASE Publish(r)
  <2>1. pc[r] = "publish" /\ published' = published \union {r}
        /\ UNCHANGED <<status, outbox>>
    BY <1>4 DEF Publish, Goto, storeVars
  <2>2. CASE r \in published BY <2>1, <2>2
  <2>3. CASE r \notin published
    BY <2>1, <2>3, PublishedAlone DEF Lifecycle!Dispatch
  <2> QED BY <2>2, <2>3
<1>5. CASE UNCHANGED <<status, outbox, published>> BY <1>5
<1> QED
  BY <1>2, <1>3, <1>4, <1>5 DEF RequestStep, RejectExpired, Submit, PreCheck,
     RecordFinds, RecordMisses, InsertConflicts, EnqueueConflicts, Republish,
     PublishFails, PubAck, Audit, serviceVars, storeVars

LEMMA StepLifecycle ==
  ASSUME KeyDeterminesCommand, PipelineInv, [PipelineNext]_pipelineVars
  PROVE  [Lifecycle!Next]_(Lifecycle!lifecycleVars)
<1> USE DEF Lifecycle!Next, Lifecycle!lifecycleVars
<1>1. OutboxInv /\ ChannelsInv /\ TypeOK BY DEF PipelineInv, OutboxInv
<1>2. ASSUME NEW r \in Requests, RequestStep(r), UNCHANGED deviceVars
      PROVE  [Lifecycle!Next]_(Lifecycle!lifecycleVars)
  BY <1>1, <1>2, RequestLifecycle DEF deviceVars
<1>3. ASSUME NEW x \in Receipts, HandleReceipt(x[1], x[2]), UNCHANGED deviceVars
      PROVE  [Lifecycle!Next]_(Lifecycle!lifecycleVars)
  <2>1. x = <<x[1], x[2]>> /\ x[1] \in Commands /\ x[2] \in ReceiptStatus
    BY DEF Receipts
  <2>2. x \in sent
    BY <1>1, <1>3, <2>1 DEF HandleReceipt, TakeReceipt, ChannelsInv
  <2>3. UNCHANGED <<outbox, published, sent>> BY <1>3 DEF HandleReceipt, deviceVars
  <2>4. status' = [status EXCEPT ![x[1]] = x[2]] \/ status' = status
    BY <1>3 DEF HandleReceipt
  <2>5. CASE status' = [status EXCEPT ![x[1]] = x[2]]
    <3>1. Lifecycle!Learn(x[1], x[2]) BY <2>1, <2>2, <2>3, <2>5 DEF Lifecycle!Learn
    <3> QED BY <2>1, <3>1
  <2>6. CASE status' = status BY <2>3, <2>6
  <2> QED BY <2>4, <2>5, <2>6
<1>4. CASE DeviceNext /\ UNCHANGED serviceVars
  <2>1. UNCHANGED <<status, outbox, published>> BY <1>4 DEF serviceVars
  <2>2. CASE UNCHANGED sent BY <2>1, <2>2
  <2>3. CASE Tells
    <3>1. PICK r \in published, v \in ReceiptStatus : PublishReceipt(CommandOf[r], v)
      BY <2>3 DEF Tells
    <3>2. r \in Requests BY <1>1 DEF TypeOK, Typed
    <3> QED BY <2>1, <3>1, <3>2 DEF PublishReceipt, Lifecycle!Tell
  <2> QED BY <1>1, <1>4, <2>2, <2>3, DeviceStepEffect DEF DeviceEffect
<1>5. CASE UNCHANGED <<status, outbox, published, sent>> BY <1>5
<1> QED
  BY <1>2, <1>3, <1>4, <1>5 DEF PipelineNext, ServiceNext, Crash, pipelineVars,
     serviceVars, storeVars, deviceVars

\* The pipeline keeps the promises of CommandLifecycle, whatever is lost,
\* repeated or restarted.
THEOREM PipelineImplementsLifecycle ==
  KeyDeterminesCommand => (PipelineSpec => LifecycleSpec)
<1> SUFFICES ASSUME KeyDeterminesCommand PROVE PipelineSpec => LifecycleSpec
  OBVIOUS
<1>1. PipelineInit => Lifecycle!Init
  BY DEF PipelineInit, ServiceInit, DeviceInit, Lifecycle!Init
<1>2. PipelineInv /\ [PipelineNext]_pipelineVars
        => [Lifecycle!Next]_(Lifecycle!lifecycleVars)
  BY StepLifecycle
<1> QED BY <1>1, <1>2, PipelineInvariant, PTL
        DEF PipelineSpec, LifecycleSpec, Lifecycle!Spec

-----------------------------------------------------------------------------
(* What the database says of the device is true                            *)

LEMMA PipelineDeviceStep ==
  [PipelineNext]_pipelineVars => DeviceNext \/ UNCHANGED deviceVars
  BY DEF PipelineNext, pipelineVars

LEMMA ExpiredGrows == [PipelineNext]_pipelineVars => expired \subseteq expired'
<1>1. ServiceNext => expired' = expired
  BY DEF ServiceNext, RequestStep, RejectExpired, Submit, PreCheck, RecordFinds,
     RecordMisses, InsertCommand, InsertConflicts, Enqueue, EnqueueConflicts, Publish,
     Republish, PublishFails, PubAck, Audit, HandleReceipt, Crash, wireVars
<1>2. WireNext => expired \subseteq expired'
  BY DEF WireNext, DeviceConnects, DeviceDisconnects, ReceiptLost, ReceiptResent, Expire
<1> QED BY <1>1, <1>2, DeviceLeavesExpired DEF PipelineNext, pipelineVars, wireVars

\* A final status was told by the device.
StatusWasTold ==
    \A c \in Commands : status[c] \in ReceiptStatus => <<c, status[c]>> \in sent

\* The device dispatches no key the service did not publish.
ActedWasPublished ==
    \A k \in Keys : acts[k] > 0 => \E r \in published : KeyOf[r] = k

RecordInv == DeviceInv /\ TruthInv /\ StatusWasTold /\ ActedWasPublished

LEMMA RecordStart == PipelineInit => RecordInv
<1> SUFFICES ASSUME PipelineInit PROVE RecordInv OBVIOUS
<1>1. DeviceInv /\ TruthInv BY DeviceStart, TruthStart DEF PipelineInit
<1>2. StatusWasTold
  BY DEF PipelineInit, ServiceInit, StatusWasTold, ReceiptStatus
<1>3. ActedWasPublished BY DEF PipelineInit, DeviceInit, ActedWasPublished
<1> QED BY <1>1, <1>2, <1>3 DEF RecordInv

\* A status comes from a receipt in flight, or is CREATED.
LEMMA StatusStep ==
  PipelineInv /\ StatusWasTold /\ [PipelineNext]_pipelineVars => StatusWasTold'
<1> SUFFICES ASSUME PipelineInv, StatusWasTold, [PipelineNext]_pipelineVars
             PROVE  StatusWasTold'
  OBVIOUS
<1> USE DEF StatusWasTold
<1>1. OutboxInv /\ ChannelsInv /\ TypeOK BY DEF PipelineInv, OutboxInv
<1>2. ASSUME NEW r \in Requests, RequestStep(r), UNCHANGED deviceVars
      PROVE  StatusWasTold'
  <2>1. sent' = sent BY <1>2 DEF deviceVars
  <2>2. CASE InsertCommand(r)
    <3>1. \A c \in Commands : status'[c] = status[c] \/ status'[c] = "CREATED"
      BY <1>1, <2>2 DEF InsertCommand, TypeOK, Typed
    <3> QED BY <2>1, <3>1 DEF ReceiptStatus
  <2>3. CASE UNCHANGED status BY <2>1, <2>3
  <2> QED
    BY <1>2, <2>2, <2>3 DEF RequestStep, RejectExpired, Submit, PreCheck, RecordFinds,
       RecordMisses, InsertConflicts, Enqueue, EnqueueConflicts, Publish, Republish,
       PublishFails, PubAck, Audit, serviceVars, storeVars
<1>3. ASSUME NEW x \in Receipts, HandleReceipt(x[1], x[2]), UNCHANGED deviceVars
      PROVE  StatusWasTold'
  <2>1. x = <<x[1], x[2]>> /\ x[1] \in Commands BY DEF Receipts
  <2>2. x \in sent BY <1>1, <1>3, <2>1 DEF HandleReceipt, TakeReceipt, ChannelsInv
  <2>3. \A c \in Commands :
           status'[c] = status[c] \/ (c = x[1] /\ status'[c] = x[2])
    BY <1>1, <1>3, <2>1 DEF HandleReceipt, TypeOK, Typed
  <2> QED BY <1>3, <2>1, <2>2, <2>3 DEF deviceVars
<1>4. CASE DeviceNext /\ UNCHANGED serviceVars
  <2>1. status' = status /\ sent \subseteq sent'
    BY <1>1, <1>4, DeviceStepEffect DEF DeviceEffect, Tells, PublishReceipt, serviceVars
  <2> QED BY <2>1
<1>5. CASE UNCHANGED <<status, sent>> BY <1>5
<1> QED
  BY <1>2, <1>3, <1>4, <1>5 DEF PipelineNext, ServiceNext, Crash, pipelineVars,
     serviceVars, storeVars, deviceVars

LEMMA ActedStep ==
  PipelineInv /\ DeviceInv /\ ActedWasPublished /\ [PipelineNext]_pipelineVars
    => ActedWasPublished'
<1> SUFFICES ASSUME PipelineInv, DeviceInv, ActedWasPublished,
                    [PipelineNext]_pipelineVars
             PROVE  ActedWasPublished'
  OBVIOUS
<1> USE DEF ActedWasPublished
<1>1. OutboxInv /\ ChannelsInv /\ TypeOK BY DEF PipelineInv, OutboxInv
<1>2. published \subseteq published'
  BY DEF PipelineNext, pipelineVars, ServiceNext, RequestStep, RejectExpired, Submit,
     PreCheck, RecordFinds, RecordMisses, InsertCommand, InsertConflicts, Enqueue,
     EnqueueConflicts, Publish, Republish, PublishFails, PubAck, Audit, HandleReceipt,
     Crash, serviceVars
<1>3. CASE UNCHANGED acts BY <1>2, <1>3
<1>4. ASSUME NEW r \in Requests, Dispatch(r) PROVE ActedWasPublished'
  <2>1. r \in published BY <1>1, <1>4, TakesPublished DEF Dispatch
  <2>2. \A k \in Keys : k # KeyOf[r] => acts'[k] = acts[k]
    BY <1>4 DEF Dispatch, DeviceInv, DeviceTypeOK
  <2> QED BY <1>2, <2>1, <2>2
<1>5. DeviceNext => (UNCHANGED acts \/ \E r \in Requests : Dispatch(r))
  <2>1. Act => UNCHANGED acts BY ActLeaves
  <2> QED BY <2>1 DEF DeviceNext, MqttTask, DropMalformed, ReceiptExpired,
         ReceiptDuplicate, Receipt, RecordKey, RoutineStarts, RoutineEnds,
         Reboot, historyVars, deviceVars
<1> QED BY <1>3, <1>4, <1>5, PipelineDeviceStep DEF deviceVars

LEMMA RecordStep ==
  PipelineInv /\ RecordInv /\ [PipelineNext]_pipelineVars => RecordInv'
<1> SUFFICES ASSUME PipelineInv, RecordInv, [PipelineNext]_pipelineVars
             PROVE  RecordInv'
  OBVIOUS
<1>1. DeviceInv' BY PipelineDeviceStep, DeviceStep, DeviceFrame DEF RecordInv
<1>2. TruthInv'
  BY PipelineDeviceStep, ExpiredGrows, TruthStep, TruthFrame DEF RecordInv
<1>3. StatusWasTold' /\ ActedWasPublished' BY StatusStep, ActedStep DEF RecordInv
<1> QED BY <1>1, <1>2, <1>3 DEF RecordInv

THEOREM RecordInvariant == PipelineSpec => []RecordInv
  BY RecordStart, RecordStep, PipelineInvariant, PTL DEF PipelineSpec

\* No command is EXPIRED in the database unless a request for it did expire, or
\* the device's clock was off when it judged it.
THEOREM ExpiredStatusIsTrueAlways == PipelineSpec => []ExpiredStatusIsTrue
<1>1. RecordInv => ExpiredStatusIsTrue
  BY DEF RecordInv, TruthInv, StatusWasTold, ExpiredStatusIsTrue, ReceiptStatus
<1> QED BY <1>1, RecordInvariant, PTL

\* No command is APPLIED in the database unless its key was dispatched (for a
\* history that counts).
THEOREM AppliedWasDispatchedAlways ==
  MaxActs > 0 => (PipelineSpec => []AppliedWasDispatched)
<1> SUFFICES ASSUME MaxActs > 0 PROVE PipelineSpec => []AppliedWasDispatched
  OBVIOUS
<1>1. RecordInv => AppliedWasDispatched
  <2> SUFFICES ASSUME RecordInv, NEW c \in Commands, status[c] = "APPLIED"
               PROVE  \E r \in Requests : CommandOf[r] = c /\ acts[KeyOf[r]] > 0
    BY DEF AppliedWasDispatched
  <2>1. <<c, "APPLIED">> \in sent BY DEF RecordInv, StatusWasTold, ReceiptStatus
  <2>2. PICK r \in Requests : CommandOf[r] = c /\ Acted(KeyOf[r])
    BY <2>1 DEF RecordInv, TruthInv
  <2> QED BY <2>2 DEF Acted
<1> QED BY <1>1, RecordInvariant, PTL

\* The device acts on nothing that was not stored first.
THEOREM ActedIsStoredAlways == PipelineSpec => []ActedIsStored
<1>1. PipelineInv /\ RecordInv => ActedIsStored
  <2> SUFFICES ASSUME PipelineInv, RecordInv, NEW k \in Keys, acts[k] > 0
               PROVE  \E c \in Commands : Exists(c) /\ KeyOf[row[c]] = k
    BY DEF ActedIsStored
  <2>1. PICK r \in published : KeyOf[r] = k BY DEF RecordInv, ActedWasPublished
  <2>2. r \in Requests /\ Owns(r) BY DEF PipelineInv, OutboxInv, TypeOK, Typed, Owns
  <2>3. KeyStored(r) BY <2>2 DEF PipelineInv, OutboxInv, OwnersAreStored
  <2> QED BY <2>1, <2>3 DEF KeyStored
<1> QED BY <1>1, PipelineInvariant, RecordInvariant, PTL

\* Behind the service too, a device that stays up dispatches each key once.
THEOREM PipelineDispatchesOnce ==
  ~Reboots /\ RoomForAll => (PipelineSpec => []DispatchedOncePerKey)
<1> SUFFICES ASSUME ~Reboots, RoomForAll
             PROVE  PipelineSpec => []DispatchedOncePerKey
  OBVIOUS
<1>1. PipelineInit => OnceInv BY OnceStart DEF PipelineInit
<1>2. DeviceInv /\ OnceInv /\ [PipelineNext]_pipelineVars => OnceInv'
  BY PipelineDeviceStep, OnceStep, OnceFrame
<1>3. OnceInv => DispatchedOncePerKey BY DEF OnceInv, DispatchedOncePerKey
<1>4. RecordInv => DeviceInv BY DEF RecordInv
<1> QED BY <1>1, <1>2, <1>3, <1>4, RecordInvariant, PTL DEF PipelineSpec
=============================================================================
