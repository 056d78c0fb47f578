-------------------------- MODULE EdgeDevice_proofs --------------------------
(***************************************************************************)
(* Proofs about EdgeDevice, for every number of relays and routines, every *)
(* configuration of them and every width of the counter.                   *)
(*                                                                         *)
(* StoresAgree speaks of relays and a table nobody is writing, and what    *)
(* makes it true happens while they are written.  EdgeInv says what the    *)
(* writes that are pending are going to write, and that they come before   *)
(* anything else the task has to do.                                       *)
(***************************************************************************)
EXTENDS EdgeDevice, TLAPS

RelayWrites == {"pin", "nvs"}
TableWrites == {"save", "write"}
Members(q) == {q[n] : n \in DOMAIN q}

\* No flash write of a relay waits behind another operation of its task.
WritesFirst(q) ==
    \A m, n \in DOMAIN q :
        m < n /\ q[n].op \in RelayWrites => q[m].op \in RelayWrites

\* What is still to be written for a relay is what s_relay_states says, and
\* what is not to be written is there, or its write to flash has failed.
RelayFits(ch) ==
    /\ \A t \in Tasks : \A o \in Pending(t) :
          o.op \in RelayWrites /\ o.ch = ch => o.on = relay[ch]
    /\ (\A t \in Tasks : \A o \in Pending(t) : o.op = "pin" => o.ch # ch)
          => pin[ch] = relay[ch]
    /\ (\A t \in Tasks : \A o \in Pending(t) : o.op = "nvs" => o.ch # ch)
          => ch \in unsaved \/ relayNvs[ch] = relay[ch]

\* The same of the table, whose copy is taken before it is written.
TableFits ==
    /\ \A t \in Tasks : \A o \in Pending(t) : o.op = "write" => o.blob = table
    /\ (\A t \in Tasks : \A o \in Pending(t) : o.op \notin TableWrites)
          => Table \in unsaved \/ tableNvs = table

\* A routine triggered in this minute is marked so.
FiredIsMarked == \A i \in fired : last[i] = table[i].minute

EdgeInv ==
    /\ EdgeTypeOK
    /\ \A t \in Tasks : WritesFirst(job[t])
    /\ \A ch \in Channels \ torn : RelayFits(ch)
    /\ Table \notin torn => TableFits
    /\ FiredIsMarked

USE EdgeAssumption

-----------------------------------------------------------------------------
(* Jobs                                                                    *)

\* What a step leaves of the writes of relays, and of the table, still to do.
KeepsRelayWrites ==
    \A u \in Tasks : \A o \in Pending(u) \union Pending(u)' :
        o.op \in RelayWrites => o \in Pending(u) /\ o \in Pending(u)'
KeepsTableWrites ==
    \A u \in Tasks : \A o \in Pending(u) \union Pending(u)' :
        o.op \in TableWrites => o \in Pending(u) /\ o \in Pending(u)'
KeepsCompletes ==
    \A i \in Routines : Completing(i) => Completing(i)'

\* When an operation is done, what it put first and the rest of the handler is
\* pending, and nothing else has changed in anybody's job.
LEMMA ThenPending ==
  ASSUME EdgeTypeOK, NEW t \in Tasks, job[t] # <<>>, NEW ops \in Seq(Ops), Then(t, ops)
  PROVE  /\ job' \in [Tasks -> Seq(Ops)]
         /\ Head(job[t]) \in Ops
         /\ Pending(t) = {Head(job[t])} \union Members(Tail(job[t]))
         /\ Pending(t)' = Members(ops) \union Members(Tail(job[t]))
         /\ \A u \in Tasks \ {t} : job'[u] = job[u] /\ Pending(u)' = Pending(u)
<1> DEFINE q == job[t]
           new == ops \o Tail(q)
<1>1. q \in Seq(Ops) /\ q # <<>> /\ job \in [Tasks -> Seq(Ops)]
  BY DEF EdgeTypeOK
<1>2. /\ Len(q) \in Nat \ {0} /\ DOMAIN q = 1..Len(q) /\ Head(q) = q[1]
      /\ Head(q) \in Ops
      /\ Tail(q) \in Seq(Ops) /\ DOMAIN Tail(q) = 1..(Len(q) - 1)
      /\ \A n \in DOMAIN Tail(q) : Tail(q)[n] = q[n + 1]
  BY <1>1
<1>3. /\ new \in Seq(Ops) /\ DOMAIN new = 1..(Len(ops) + Len(q) - 1)
      /\ Len(ops) \in Nat /\ DOMAIN ops = 1..Len(ops)
      /\ \A n \in DOMAIN ops : new[n] = ops[n]
      /\ \A n \in DOMAIN Tail(q) : new[Len(ops) + n] = Tail(q)[n]
  BY <1>1, <1>2
<1>4. job'[t] = new /\ \A u \in Tasks \ {t} : job'[u] = job[u]
  BY <1>1 DEF Then
<1>5. job' \in [Tasks -> Seq(Ops)]
  BY <1>1, <1>3, <1>4 DEF Then
<1>6. Members(q) = {Head(q)} \union Members(Tail(q))
  <2>1. \A n \in DOMAIN q : n = 1 \/ (n - 1 \in DOMAIN Tail(q) /\ q[n] = Tail(q)[n - 1])
    BY <1>2
  <2>2. 1 \in DOMAIN q /\ \A n \in DOMAIN Tail(q) : n + 1 \in DOMAIN q
    BY <1>2
  <2>3. Members(q) \subseteq {Head(q)} \union Members(Tail(q))
    <3> SUFFICES ASSUME NEW n \in DOMAIN q, n # 1
                 PROVE  q[n] \in Members(Tail(q))
      BY <1>2 DEF Members
    <3>1. n - 1 \in DOMAIN Tail(q) /\ q[n] = Tail(q)[n - 1]
      BY <2>1
    <3> QED
      BY <3>1 DEF Members
  <2>4. Head(q) \in Members(q)
    BY <1>2, <2>2 DEF Members
  <2>5. Members(Tail(q)) \subseteq Members(q)
    BY <1>2, <2>2 DEF Members
  <2> QED
    BY <2>3, <2>4, <2>5
<1>7. Members(new) = Members(ops) \union Members(Tail(q))
  <2>1. \A n \in DOMAIN new : n \in DOMAIN ops \/ n - Len(ops) \in DOMAIN Tail(q)
    BY <1>2, <1>3
  <2>2. \A n \in DOMAIN new : n - Len(ops) \in DOMAIN Tail(q)
                                => new[n] = Tail(q)[n - Len(ops)]
    BY <1>3
  <2>3. /\ \A n \in DOMAIN ops : n \in DOMAIN new
        /\ \A n \in DOMAIN Tail(q) : Len(ops) + n \in DOMAIN new
    BY <1>2, <1>3
  <2> HIDE DEF new
  <2>4. Members(new) \subseteq Members(ops) \union Members(Tail(q))
    <3> SUFFICES ASSUME NEW n \in DOMAIN new
                 PROVE  new[n] \in Members(ops) \union Members(Tail(q))
      BY DEF Members
    <3>1. CASE n \in DOMAIN ops
      BY <1>3, <3>1 DEF Members
    <3>2. CASE n - Len(ops) \in DOMAIN Tail(q)
      BY <2>2, <3>2 DEF Members
    <3> QED
      BY <2>1, <3>1, <3>2
  <2>5. Members(ops) \subseteq Members(new)
    BY <1>3, <2>3 DEF Members
  <2>6. Members(Tail(q)) \subseteq Members(new)
    BY <1>3, <2>3 DEF Members
  <2> QED
    BY <2>4, <2>5, <2>6
<1>8. Pending(t) = Members(q) /\ Pending(t)' = Members(new)
  BY <1>4 DEF Pending, Members
<1>9. \A u \in Tasks \ {t} : Pending(u)' = Pending(u)
  BY <1>4 DEF Pending
<1> QED
  BY <1>2, <1>4, <1>5, <1>6, <1>7, <1>8, <1>9

\* Writes that are put first, or nothing that is a write, keep the writes first.
LEMMA ThenWritesFirst ==
  ASSUME EdgeTypeOK, NEW t \in Tasks, job[t] # <<>>, NEW ops \in Seq(Ops), Then(t, ops),
         \A u \in Tasks : WritesFirst(job[u]),
         \/ \A o \in Members(ops) : o.op \in RelayWrites
         \/ /\ Head(job[t]).op \notin RelayWrites
            /\ \A o \in Members(ops) : o.op \notin RelayWrites
  PROVE  \A u \in Tasks : WritesFirst(job'[u])
<1> DEFINE q == job[t]
           new == ops \o Tail(q)
<1>1. q \in Seq(Ops) /\ q # <<>> /\ job \in [Tasks -> Seq(Ops)] /\ WritesFirst(q)
  BY DEF EdgeTypeOK
<1>2. /\ Len(q) \in Nat \ {0} /\ DOMAIN q = 1..Len(q) /\ Head(q) = q[1]
      /\ Tail(q) \in Seq(Ops) /\ DOMAIN Tail(q) = 1..(Len(q) - 1)
      /\ \A n \in DOMAIN Tail(q) : Tail(q)[n] = q[n + 1]
  BY <1>1
<1>3. /\ DOMAIN new = 1..(Len(ops) + Len(q) - 1)
      /\ Len(ops) \in Nat /\ DOMAIN ops = 1..Len(ops)
      /\ \A n \in DOMAIN ops : new[n] = ops[n]
      /\ \A n \in DOMAIN Tail(q) : new[Len(ops) + n] = Tail(q)[n]
  BY <1>1, <1>2
<1>4. job'[t] = new /\ \A u \in Tasks \ {t} : job'[u] = job[u]
  BY <1>1 DEF Then
<1>5. \A n \in DOMAIN new :
         \/ n \in DOMAIN ops /\ new[n] = ops[n]
         \/ n - Len(ops) + 1 \in DOMAIN q /\ new[n] = q[n - Len(ops) + 1] /\ n > Len(ops)
  BY <1>2, <1>3
<1> HIDE DEF new
<1>6. WritesFirst(new)
  <2> SUFFICES ASSUME NEW m \in DOMAIN new, NEW n \in DOMAIN new, m < n,
                      new[n].op \in RelayWrites
               PROVE  new[m].op \in RelayWrites
    BY DEF WritesFirst
  <2>1. CASE \A o \in Members(ops) : o.op \in RelayWrites
    <3>1. CASE m \in DOMAIN ops
      BY <1>3, <2>1, <3>1 DEF Members
    <3>2. CASE m \notin DOMAIN ops
      <4>1. m - Len(ops) + 1 \in DOMAIN q /\ new[m] = q[m - Len(ops) + 1] /\ m > Len(ops)
        BY <1>5, <3>2
      <4>2. n \notin DOMAIN ops /\ m - Len(ops) + 1 < n - Len(ops) + 1
        BY <1>3, <4>1
      <4>3. n - Len(ops) + 1 \in DOMAIN q /\ new[n] = q[n - Len(ops) + 1]
        BY <1>5, <4>2
      <4> QED
        BY <1>1, <4>1, <4>2, <4>3 DEF WritesFirst
    <3> QED
      BY <3>1, <3>2
  <2>2. CASE /\ Head(q).op \notin RelayWrites
             /\ \A o \in Members(ops) : o.op \notin RelayWrites
    <3>1. n \notin DOMAIN ops
      BY <1>3, <2>2 DEF Members
    <3>2. /\ n - Len(ops) + 1 \in DOMAIN q /\ new[n] = q[n - Len(ops) + 1]
          /\ 1 \in DOMAIN q /\ 1 < n - Len(ops) + 1
      BY <1>2, <1>3, <1>5, <3>1
    <3> QED
      BY <1>1, <1>2, <2>2, <3>2 DEF WritesFirst
  <2> QED
    BY <2>1, <2>2
<1> QED
  BY <1>1, <1>4, <1>6

\* Doing what is no write, and putting first what is none, keeps the writes to do.
LEMMA ThenKeepsWrites ==
  ASSUME EdgeTypeOK, NEW t \in Tasks, job[t] # <<>>, NEW ops \in Seq(Ops), Then(t, ops)
  PROVE  /\ (/\ Head(job[t]).op \notin RelayWrites
             /\ \A o \in Members(ops) : o.op \notin RelayWrites) => KeepsRelayWrites
         /\ (/\ Head(job[t]).op \notin TableWrites
             /\ \A o \in Members(ops) : o.op \notin TableWrites) => KeepsTableWrites
         /\ Head(job[t]).op # "complete" => KeepsCompletes
<1>1. /\ Pending(t) = {Head(job[t])} \union Members(Tail(job[t]))
      /\ Pending(t)' = Members(ops) \union Members(Tail(job[t]))
      /\ \A u \in Tasks \ {t} : Pending(u)' = Pending(u)
  BY ThenPending
<1>2. "timer" \in Tasks
  BY DEF Tasks
<1> QED
  BY <1>1, <1>2 DEF KeepsRelayWrites, KeepsTableWrites, KeepsCompletes, Completing, Slot

\* What holds of the stores is not touched by a step that leaves them, and what is
\* still to be written of them, alone.
LEMMA RelayFrame ==
  ASSUME EdgeInv, KeepsRelayWrites, UNCHANGED relayVars, torn \subseteq torn',
         \A ch \in Channels : ch \in unsaved => ch \in unsaved'
  PROVE  \A ch \in Channels \ torn' : RelayFits(ch)'
<1> SUFFICES ASSUME NEW ch \in Channels \ torn'
             PROVE  RelayFits(ch)'
  OBVIOUS
<1>1. RelayFits(ch) /\ relay' = relay /\ pin' = pin /\ relayNvs' = relayNvs
  BY DEF EdgeInv, relayVars
<1> QED
  BY <1>1 DEF RelayFits, KeepsRelayWrites, RelayWrites

LEMMA TableFrame ==
  ASSUME EdgeInv, KeepsTableWrites, UNCHANGED tableVars, torn \subseteq torn',
         Table \in unsaved => Table \in unsaved'
  PROVE  (Table \notin torn => TableFits)'
<1>1. Table \notin torn' => TableFits
  BY DEF EdgeInv
<1>2. table' = table /\ tableNvs' = tableNvs
  BY DEF tableVars
<1> QED
  BY <1>1, <1>2 DEF TableFits, KeepsTableWrites, TableWrites

LEMMA ShortMembers ==
  /\ Members(<<>>) = {}
  /\ \A a : Members(<<a>>) = {a}
  /\ \A a, b : Members(<<a, b>>) = {a, b}
<1>1. Members(<<>>) = {}
  BY DEF Members
<1>2. ASSUME NEW a PROVE Members(<<a>>) = {a}
  BY DEF Members
<1>3. ASSUME NEW a, NEW b PROVE Members(<<a, b>>) = {a, b}
  <2>1. DOMAIN <<a, b>> = {1, 2}
    OBVIOUS
  <2> QED
    BY <2>1 DEF Members
<1> QED
  BY <1>1, <1>2, <1>3

LEMMA AppendMembers ==
  ASSUME NEW q \in Seq(Ops), NEW o \in Ops
  PROVE  Append(q, o) \in Seq(Ops) /\ Members(Append(q, o)) = Members(q) \union {o}
<1> DEFINE longer == Append(q, o)
<1>1. /\ longer \in Seq(Ops) /\ Len(q) \in Nat /\ DOMAIN q = 1..Len(q)
      /\ DOMAIN longer = 1..(Len(q) + 1)
      /\ \A n \in DOMAIN q : longer[n] = q[n]
      /\ longer[Len(q) + 1] = o
  OBVIOUS
<1>2. /\ \A n \in DOMAIN longer : n \in DOMAIN q \/ n = Len(q) + 1
      /\ \A n \in DOMAIN q : n \in DOMAIN longer
      /\ Len(q) + 1 \in DOMAIN longer
  BY <1>1
<1> HIDE DEF longer
<1>3. Members(longer) \subseteq Members(q) \union {o}
  BY <1>1, <1>2 DEF Members
<1>4. Members(q) \subseteq Members(longer)
  BY <1>1, <1>2 DEF Members
<1>5. o \in Members(longer)
  BY <1>1, <1>2 DEF Members
<1> QED
  BY <1>1, <1>3, <1>4, <1>5 DEF longer

LEMMA AppendItems ==
  ASSUME NEW q \in Seq(Ops), NEW o \in Ops
  PROVE  /\ Len(q) \in Nat /\ DOMAIN q = 1..Len(q)
         /\ Len(Append(q, o)) = Len(q) + 1 /\ DOMAIN Append(q, o) = 1..(Len(q) + 1)
         /\ \A n \in DOMAIN q : Append(q, o)[n] = q[n]
         /\ Append(q, o)[Len(q) + 1] = o
  OBVIOUS

LEMMA FirstMembers ==
  ASSUME NEW q \in Seq(Ops), NEW o \in Ops
  PROVE  /\ <<o>> \o q \in Seq(Ops) /\ DOMAIN (<<o>> \o q) = 1..(Len(q) + 1)
         /\ (<<o>> \o q)[1] = o
         /\ \A n \in 1..Len(q) : (<<o>> \o q)[n + 1] = q[n]
  OBVIOUS

\* An operation that neither is a write nor asks for one, and leaves the stores
\* alone, keeps what holds of them.
LEMMA QuietThen ==
  ASSUME EdgeInv, NEW t \in Tasks, job[t] # <<>>, NEW ops \in Seq(Ops), Then(t, ops),
         Head(job[t]).op \notin RelayWrites \union TableWrites,
         \A o \in Members(ops) : o.op \notin RelayWrites \union TableWrites,
         UNCHANGED <<relayVars, tableVars, torn, unsaved>>
  PROVE  /\ job' \in [Tasks -> Seq(Ops)]
         /\ (\A u \in Tasks : WritesFirst(job[u]))'
         /\ (\A ch \in Channels \ torn : RelayFits(ch))'
         /\ (Table \notin torn => TableFits)'
         /\ Head(job[t]).op # "complete" => KeepsCompletes
<1>1. EdgeTypeOK /\ \A u \in Tasks : WritesFirst(job[u])
  BY DEF EdgeInv
<1>2. job' \in [Tasks -> Seq(Ops)]
  BY <1>1, ThenPending
<1>3. KeepsRelayWrites /\ KeepsTableWrites
      /\ (Head(job[t]).op # "complete" => KeepsCompletes)
  BY <1>1, ThenKeepsWrites
<1>4. \A u \in Tasks : WritesFirst(job'[u])
  BY <1>1, ThenWritesFirst
<1>5. UNCHANGED relayVars /\ UNCHANGED tableVars /\ torn \subseteq torn'
  OBVIOUS
<1> QED
  BY <1>2, <1>3, <1>4, <1>5, RelayFrame, TableFrame

\* A handler begins with no write of a relay.
LEMMA BeginPending ==
  ASSUME EdgeInv, NEW t \in Tasks, NEW ops \in Seq(Ops), Begin(t, ops),
         \A o \in Members(ops) : o.op \notin RelayWrites
  PROVE  /\ job' \in [Tasks -> Seq(Ops)]
         /\ Pending(t) = {} /\ Pending(t)' = Members(ops)
         /\ \A u \in Tasks \ {t} : Pending(u)' = Pending(u)
         /\ (\A u \in Tasks : WritesFirst(job[u]))'
         /\ KeepsRelayWrites /\ KeepsCompletes
         /\ (\A o \in Members(ops) : o.op \notin TableWrites) => KeepsTableWrites
<1>1. job \in [Tasks -> Seq(Ops)] /\ \A u \in Tasks : WritesFirst(job[u])
  BY DEF EdgeInv, EdgeTypeOK
<1>2. job[t] = <<>> /\ job' = [job EXCEPT ![t] = ops] /\ "timer" \in Tasks
  BY DEF Begin, Tasks
<1>3. job'[t] = ops /\ job' \in [Tasks -> Seq(Ops)] /\ \A u \in Tasks \ {t} : job'[u] = job[u]
  BY <1>1, <1>2
<1>4. Pending(t) = {} /\ Pending(t)' = Members(ops)
  BY <1>2, <1>3 DEF Pending, Members
<1>5. \A u \in Tasks \ {t} : Pending(u)' = Pending(u)
  BY <1>3 DEF Pending
<1>6. WritesFirst(ops)
  BY DEF WritesFirst, Members
<1>7. \A u \in Tasks : WritesFirst(job'[u])
  BY <1>1, <1>3, <1>6
<1> QED
  BY <1>2, <1>3, <1>4, <1>5, <1>7
     DEF KeepsRelayWrites, KeepsTableWrites, KeepsCompletes, Completing, Slot

-----------------------------------------------------------------------------
(* The operations                                                          *)

LEMMA SlotTyped ==
  ASSUME EdgeTypeOK, NEW i \in Routines
  PROVE  table[i] = Empty \/ table[i] \in
           [channel : Channels, power : BOOLEAN, toggle : BOOLEAN,
            duration : 0..2^Width - 1, minute : Minutes]
  BY DEF EdgeTypeOK, Tables, EdgeAssumption

LEMMA ActuateTyped ==
  ASSUME EdgeTypeOK, NEW i \in Routines, NEW reversed \in BOOLEAN
  PROVE  /\ Actuate(i, reversed) \in Seq(Ops)
         /\ \A o \in Members(Actuate(i, reversed)) : o.op \in {"toggle", "set"}
<1>1. CASE table[i] = Empty
  BY <1>1, ShortMembers DEF Actuate
<1>2. CASE table[i] # Empty
  <2> DEFINE toggle == On("toggle", table[i].channel)
             set == Power("set", table[i].channel, table[i].power # reversed)
  <2>1. table[i].channel \in Channels /\ (table[i].power # reversed) \in BOOLEAN
    BY <1>2, SlotTyped
  <2>2. toggle \in Ops /\ toggle.op = "toggle"
    BY <2>1 DEF Ops, On
  <2>3. set \in Ops /\ set.op = "set"
    BY <2>1 DEF Ops, Power
  <2>4. Actuate(i, reversed) \in {<<toggle>>, <<set>>}
    BY <1>2 DEF Actuate
  <2> HIDE DEF toggle, set
  <2>5. <<toggle>> \in Seq(Ops) /\ Members(<<toggle>>) = {toggle}
    BY <2>2, ShortMembers
  <2>6. <<set>> \in Seq(Ops) /\ Members(<<set>>) = {set}
    BY <2>3, ShortMembers
  <2> QED
    BY <2>2, <2>3, <2>4, <2>5, <2>6
<1> QED
  BY <1>1, <1>2

\* relay_manager_set_power
LEMMA SetKeeps ==
  ASSUME EdgeInv, NEW t \in Tasks, Set(t)
  PROVE  EdgeInv'
<1> DEFINE ch == Head(job[t]).ch
           on == Head(job[t]).on
<1>1. EdgeTypeOK /\ job[t] # <<>> /\ Head(job[t]).op = "set"
  BY DEF EdgeInv, Set, Doing
<1>2. /\ UNCHANGED <<pin, relayNvs, tableVars, runtimeVars, clockVars>>
      /\ UNCHANGED <<unsaved, overwritten, revoked, fired>>
      /\ UNCHANGED <<table, tableNvs, state, remaining, last, minute, synced>>
  BY DEF Set, tableVars, runtimeVars, clockVars
<1>3. Head(job[t]) \in Ops
  BY <1>1 DEF EdgeTypeOK
<1>4. ch \in Channels /\ on \in BOOLEAN
  BY <1>1, <1>3 DEF Ops
<1>5. CASE relay[ch] = on
  <2>1. /\ Then(t, <<>>) /\ UNCHANGED <<relay, torn>>
        /\ UNCHANGED <<relayVars, tableVars, torn, unsaved>>
    BY <1>2, <1>5 DEF Set, relayVars
  <2>2. <<>> \in Seq(Ops) /\ \A o \in Members(<<>>) : o.op \notin RelayWrites \union TableWrites
    BY ShortMembers
  <2>3. /\ job' \in [Tasks -> Seq(Ops)] /\ (\A u \in Tasks : WritesFirst(job[u]))'
        /\ (\A c \in Channels \ torn : RelayFits(c))'
        /\ (Table \notin torn => TableFits)' /\ KeepsCompletes
    BY <1>1, <2>1, <2>2, QuietThen DEF RelayWrites, TableWrites
  <2>4. EdgeTypeOK'
    BY <1>1, <1>2, <2>1, <2>3 DEF EdgeTypeOK
  <2>5. FiredIsMarked'
    BY <1>2, <2>3 DEF EdgeInv, FiredIsMarked
  <2> QED
    BY <2>3, <2>4, <2>5 DEF EdgeInv
<1>6. CASE relay[ch] # on
  <2> DEFINE level == Power("pin", ch, on)
             key == Power("nvs", ch, on)
             ops == <<level, key>>
  <2>1. /\ relay' = [relay EXCEPT ![ch] = on] /\ Then(t, ops)
        /\ torn' = IF \E u \in Tasks \ {t} : WritesRelay(u, ch)
                   THEN torn \union {ch} ELSE torn
    BY <1>6 DEF Set
  <2>2. /\ level \in Ops /\ level.op = "pin" /\ level.ch = ch /\ level.on = on
        /\ key \in Ops /\ key.op = "nvs" /\ key.ch = ch /\ key.on = on
    BY <1>4 DEF Ops, Power
  <2>3. ops \in Seq(Ops) /\ Members(ops) = {level, key}
    BY <2>2, ShortMembers
  <2> HIDE DEF level, key, ops
  <2>4. /\ job' \in [Tasks -> Seq(Ops)]
        /\ Pending(t) = {Head(job[t])} \union Members(Tail(job[t]))
        /\ Pending(t)' = Members(ops) \union Members(Tail(job[t]))
        /\ \A u \in Tasks \ {t} : job'[u] = job[u] /\ Pending(u)' = Pending(u)
    BY <1>1, <2>1, <2>3, ThenPending
  <2>5. \A o \in Members(ops) : o.op \in RelayWrites
    BY <2>2, <2>3 DEF RelayWrites
  <2>6. (\A u \in Tasks : WritesFirst(job[u]))'
    <3>1. \A u \in Tasks : WritesFirst(job[u])
      BY DEF EdgeInv
    <3> QED
      BY <1>1, <2>1, <2>3, <2>5, <3>1, ThenWritesFirst
  <2>7. \A o \in Members(ops) : o.op \notin TableWrites
    BY <2>2, <2>3 DEF TableWrites
  <2>8. KeepsTableWrites /\ KeepsCompletes
    BY <1>1, <2>1, <2>3, <2>7, ThenKeepsWrites DEF TableWrites
  <2>9. torn \subseteq torn' /\ torn' \subseteq Channels \union {Table}
    BY <1>1, <1>4, <2>1 DEF EdgeTypeOK
  <2>10. (Table \notin torn => TableFits)'
    BY <1>2, <2>8, <2>9, TableFrame
  <2>11. \A o \in Members(Tail(job[t])) : o.op \notin RelayWrites
    <3>1. WritesFirst(job[t]) /\ job[t] \in Seq(Ops) /\ job[t] # <<>>
      BY <1>1 DEF EdgeInv, EdgeTypeOK
    <3>2. /\ Head(job[t]) = job[t][1] /\ 1 \in DOMAIN job[t]
          /\ \A n \in DOMAIN Tail(job[t]) :
                Tail(job[t])[n] = job[t][n + 1] /\ n + 1 \in DOMAIN job[t] /\ 1 < n + 1
      BY <3>1
    <3>3. Head(job[t]).op \notin RelayWrites
      BY <1>1 DEF RelayWrites
    <3> QED
      BY <3>1, <3>2, <3>3 DEF WritesFirst, Members
  <2>12. ASSUME NEW c \in Channels \ torn'
         PROVE  RelayFits(c)'
    <3>1. RelayFits(c)
      BY <2>9 DEF EdgeInv
    <3>2. relay \in [Channels -> BOOLEAN]
      BY <1>1 DEF EdgeTypeOK
    <3>3. CASE c = ch
      <4>1. \A u \in Tasks \ {t} : \A o \in Pending(u) : o.op \in RelayWrites => o.ch # ch
        BY <2>1, <3>3 DEF WritesRelay, RelayWrites
      <4>2. \A o \in Pending(t)' : o.op \in RelayWrites => o.on = on
        BY <2>2, <2>3, <2>4, <2>11
      <4>3. relay'[c] = on
        BY <1>4, <2>1, <3>2, <3>3
      <4>4. level \in Pending(t)' /\ key \in Pending(t)'
        BY <2>3, <2>4
      <4> QED
        BY <2>2, <2>4, <3>3, <4>1, <4>2, <4>3, <4>4 DEF RelayFits
    <3>4. CASE c # ch
      <4>1. relay'[c] = relay[c] /\ pin' = pin /\ relayNvs' = relayNvs /\ unsaved' = unsaved
        BY <1>2, <2>1, <3>2, <3>4
      <4>2. \A u \in Tasks : \A o \in Pending(u) \union Pending(u)' :
               o.op \in RelayWrites /\ o.ch = c => o \in Pending(u) /\ o \in Pending(u)'
        <5>1. Head(job[t]).op \notin RelayWrites
          BY <1>1 DEF RelayWrites
        <5> QED
          BY <2>2, <2>3, <2>4, <3>4, <5>1
      <4> QED
        BY <3>1, <4>1, <4>2 DEF RelayFits, RelayWrites
    <3> QED
      BY <3>3, <3>4
  <2>13. EdgeTypeOK'
    BY <1>1, <1>2, <1>4, <2>1, <2>4, <2>9 DEF EdgeTypeOK
  <2>14. FiredIsMarked'
    BY <1>2, <2>8 DEF EdgeInv, FiredIsMarked
  <2> QED
    BY <2>6, <2>10, <2>12, <2>13, <2>14 DEF EdgeInv
<1> QED
  BY <1>5, <1>6

LEMMA WritePinKeeps ==
  ASSUME EdgeInv, NEW t \in Tasks, WritePin(t)
  PROVE  EdgeInv'
<1> DEFINE ch == Head(job[t]).ch
           on == Head(job[t]).on
<1>1. /\ EdgeTypeOK /\ job[t] # <<>> /\ Head(job[t]).op = "pin" /\ Then(t, <<>>)
      /\ pin' = [pin EXCEPT ![ch] = on]
      /\ UNCHANGED <<relay, relayNvs, tableVars, runtimeVars, clockVars, historyVars>>
  BY DEF EdgeInv, WritePin, Doing
<1>2. UNCHANGED <<relay, relayNvs, table, tableNvs, state, remaining, last, minute, synced, torn,
                  unsaved, overwritten, revoked, fired>>
  BY <1>1 DEF tableVars, runtimeVars, clockVars, historyVars
<1>3. Head(job[t]) \in Ops
  BY <1>1 DEF EdgeTypeOK
<1>4. ch \in Channels /\ on \in BOOLEAN
  BY <1>1, <1>3 DEF Ops
<1>5. <<>> \in Seq(Ops) /\ Members(<<>>) = {}
  BY ShortMembers
<1>6. /\ job' \in [Tasks -> Seq(Ops)]
      /\ Pending(t) = {Head(job[t])} \union Members(Tail(job[t]))
      /\ Pending(t)' = Members(Tail(job[t]))
      /\ \A u \in Tasks \ {t} : Pending(u)' = Pending(u)
  BY <1>1, <1>5, ThenPending
<1>7. KeepsTableWrites /\ KeepsCompletes
  BY <1>1, <1>5, ThenKeepsWrites DEF TableWrites
<1>8. (\A u \in Tasks : WritesFirst(job[u]))'
  BY <1>1, <1>5, ThenWritesFirst DEF EdgeInv
<1>9. (Table \notin torn => TableFits)'
  BY <1>1, <1>2, <1>7, TableFrame
<1>10. ASSUME NEW c \in Channels \ torn'
       PROVE  RelayFits(c)'
  <2>1. RelayFits(c) /\ pin \in [Channels -> BOOLEAN]
    BY <1>1, <1>2 DEF EdgeInv, EdgeTypeOK
  <2>2. CASE c = ch
    <3>1. pin'[c] = relay[c]
      <4>1. Head(job[t]) \in Pending(t)
        BY <1>6
      <4>2. on = relay[c]
        BY <1>1, <2>1, <2>2, <4>1 DEF RelayFits, RelayWrites
      <4> QED
        BY <1>1, <2>1, <2>2, <4>2
    <3>2. \A u \in Tasks : \A o \in Pending(u)' : o \in Pending(u)
      BY <1>6
    <3>3. (\A u \in Tasks : \A o \in Pending(u)' : o.op = "nvs" => o.ch # c)
             => \A u \in Tasks : \A o \in Pending(u) : o.op = "nvs" => o.ch # c
      BY <1>1, <1>6
    <3> QED
      BY <1>2, <2>1, <3>1, <3>2, <3>3 DEF RelayFits
  <2>3. CASE c # ch
    <3>1. relay'[c] = relay[c] /\ pin'[c] = pin[c] /\ relayNvs' = relayNvs /\ unsaved' = unsaved
      BY <1>1, <1>2, <2>1, <2>3
    <3>2. \A u \in Tasks : \A o \in Pending(u) \union Pending(u)' :
             o.ch = c => o \in Pending(u) /\ o \in Pending(u)'
      BY <1>6, <2>3
    <3> QED
      BY <2>1, <3>1, <3>2 DEF RelayFits
  <2> QED
    BY <2>2, <2>3
<1>11. EdgeTypeOK'
  BY <1>1, <1>2, <1>4, <1>6 DEF EdgeTypeOK
<1>12. FiredIsMarked'
  BY <1>2, <1>7 DEF EdgeInv, FiredIsMarked
<1> QED
  BY <1>2, <1>8, <1>9, <1>10, <1>11, <1>12 DEF EdgeInv

LEMMA WriteNvsKeeps ==
  ASSUME EdgeInv, NEW t \in Tasks, WriteNvs(t)
  PROVE  EdgeInv'
<1> DEFINE ch == Head(job[t]).ch
           on == Head(job[t]).on
<1>1. /\ EdgeTypeOK /\ job[t] # <<>> /\ Head(job[t]).op = "nvs" /\ Then(t, <<>>)
      /\ \/ /\ relayNvs' = [relayNvs EXCEPT ![ch] = on]
            /\ unsaved' = unsaved \ {ch}
         \/ /\ relayNvs' = relayNvs
            /\ unsaved' = unsaved \union {ch}
      /\ UNCHANGED <<relay, pin, tableVars, runtimeVars, clockVars>>
      /\ UNCHANGED <<torn, overwritten, revoked, fired>>
  BY DEF EdgeInv, WriteNvs, Doing
<1>2. UNCHANGED <<relay, pin, table, tableNvs, state, remaining, last, minute, synced, torn,
                  overwritten, revoked, fired>>
  BY <1>1 DEF tableVars, runtimeVars, clockVars
<1>3. Head(job[t]) \in Ops
  BY <1>1 DEF EdgeTypeOK
<1>4. ch \in Channels /\ on \in BOOLEAN
  BY <1>1, <1>3 DEF Ops
<1>5. <<>> \in Seq(Ops) /\ Members(<<>>) = {}
  BY ShortMembers
<1>6. /\ job' \in [Tasks -> Seq(Ops)]
      /\ Pending(t) = {Head(job[t])} \union Members(Tail(job[t]))
      /\ Pending(t)' = Members(Tail(job[t]))
      /\ \A u \in Tasks \ {t} : Pending(u)' = Pending(u)
  BY <1>1, <1>5, ThenPending
<1>7. KeepsTableWrites /\ KeepsCompletes
  BY <1>1, <1>5, ThenKeepsWrites DEF TableWrites
<1>8. (\A u \in Tasks : WritesFirst(job[u]))'
  BY <1>1, <1>5, ThenWritesFirst DEF EdgeInv
<1>9. (Table \notin torn => TableFits)'
  <2>1. Table # ch
    BY <1>4 DEF Table, Channels
  <2>2. UNCHANGED tableVars /\ torn \subseteq torn' /\ (Table \in unsaved => Table \in unsaved')
    BY <1>1, <2>1
  <2> QED
    BY <1>7, <2>2, TableFrame
<1>10. ASSUME NEW c \in Channels \ torn'
       PROVE  RelayFits(c)'
  <2>1. RelayFits(c) /\ relayNvs \in [Channels -> BOOLEAN]
    BY <1>1, <1>2 DEF EdgeInv, EdgeTypeOK
  <2>2. CASE c = ch
    <3>1. c \in unsaved' \/ relayNvs'[c] = relay[c]
      <4>1. Head(job[t]) \in Pending(t)
        BY <1>6
      <4>2. on = relay[c]
        BY <1>1, <2>1, <2>2, <4>1 DEF RelayFits, RelayWrites
      <4> QED
        BY <1>1, <2>1, <2>2, <4>2
    <3>2. \A u \in Tasks : \A o \in Pending(u)' : o \in Pending(u)
      BY <1>6
    <3>3. (\A u \in Tasks : \A o \in Pending(u)' : o.op = "pin" => o.ch # c)
             => \A u \in Tasks : \A o \in Pending(u) : o.op = "pin" => o.ch # c
      BY <1>1, <1>6
    <3> QED
      BY <1>2, <2>1, <3>1, <3>2, <3>3 DEF RelayFits
  <2>3. CASE c # ch
    <3>1. /\ relay'[c] = relay[c] /\ relayNvs'[c] = relayNvs[c] /\ pin' = pin
          /\ c \in unsaved => c \in unsaved'
      BY <1>1, <1>2, <2>1, <2>3
    <3>2. \A u \in Tasks : \A o \in Pending(u) \union Pending(u)' :
             o.ch = c => o \in Pending(u) /\ o \in Pending(u)'
      BY <1>6, <2>3
    <3> QED
      BY <2>1, <3>1, <3>2 DEF RelayFits
  <2> QED
    BY <2>2, <2>3
<1>11. EdgeTypeOK'
  BY <1>1, <1>2, <1>4, <1>6 DEF EdgeTypeOK
<1>12. FiredIsMarked'
  BY <1>2, <1>7 DEF EdgeInv, FiredIsMarked
<1> QED
  BY <1>2, <1>8, <1>9, <1>10, <1>11, <1>12 DEF EdgeInv

\* Toggle, Count and Stop of a task, and the tests of the timer, write no store.
LEMMA ToggleKeeps ==
  ASSUME EdgeInv, NEW t \in Tasks, Toggle(t)
  PROVE  EdgeInv'
<1> DEFINE ch == Head(job[t]).ch
           set == Power("set", ch, ~relay[ch])
<1>1. /\ EdgeTypeOK /\ job[t] # <<>> /\ Head(job[t]).op = "toggle" /\ Then(t, <<set>>)
      /\ UNCHANGED <<relayVars, tableVars, runtimeVars, clockVars, historyVars>>
  BY DEF EdgeInv, Toggle, Doing
<1>2. /\ UNCHANGED <<relay, pin, relayNvs, table, tableNvs, state, remaining, last, minute>>
      /\ UNCHANGED <<synced, torn, unsaved, overwritten, revoked, fired>>
  BY <1>1 DEF relayVars, tableVars, runtimeVars, clockVars, historyVars
<1>3. Head(job[t]) \in Ops
  BY <1>1 DEF EdgeTypeOK
<1>4. ch \in Channels /\ relay[ch] \in BOOLEAN
  BY <1>1, <1>3 DEF Ops, EdgeTypeOK
<1>5. set \in Ops /\ set.op = "set"
  BY <1>4 DEF Ops, Power
<1> HIDE DEF set
<1>6. <<set>> \in Seq(Ops) /\ Members(<<set>>) = {set}
  BY <1>5, ShortMembers
<1>7. /\ job' \in [Tasks -> Seq(Ops)] /\ (\A u \in Tasks : WritesFirst(job[u]))'
      /\ (\A c \in Channels \ torn : RelayFits(c))'
      /\ (Table \notin torn => TableFits)' /\ KeepsCompletes
  BY <1>1, <1>2, <1>5, <1>6, QuietThen DEF RelayWrites, TableWrites
<1>8. EdgeTypeOK'
  BY <1>1, <1>2, <1>7 DEF EdgeTypeOK
<1>9. FiredIsMarked'
  BY <1>2, <1>7 DEF EdgeInv, FiredIsMarked
<1> QED
  BY <1>7, <1>8, <1>9 DEF EdgeInv

LEMMA StopKeeps ==
  ASSUME EdgeInv, NEW t \in Tasks, Stop(t)
  PROVE  EdgeInv'
<1>1. PICK ended \in SUBSET Routines :
        /\ state' = [i \in Routines |-> IF i \in ended THEN "STOPPED" ELSE state[i]]
        /\ remaining' = [i \in Routines |-> IF i \in ended THEN 0 ELSE remaining[i]]
  BY DEF Stop
<1>2. /\ EdgeTypeOK /\ job[t] # <<>> /\ Head(job[t]).op = "stop" /\ Then(t, <<>>)
      /\ UNCHANGED <<relayVars, tableVars, last, clockVars, torn, unsaved, overwritten, fired>>
      /\ revoked' \subseteq Routines
  BY DEF EdgeInv, Stop, Doing, EdgeTypeOK
<1>3. /\ UNCHANGED <<relay, pin, relayNvs, table, tableNvs, last, minute, synced, torn>>
      /\ UNCHANGED <<unsaved, overwritten, fired>>
  BY <1>2 DEF relayVars, tableVars, clockVars
<1>4. <<>> \in Seq(Ops) /\ Members(<<>>) = {}
  BY ShortMembers
<1>5. /\ job' \in [Tasks -> Seq(Ops)] /\ (\A u \in Tasks : WritesFirst(job[u]))'
      /\ (\A c \in Channels \ torn : RelayFits(c))'
      /\ (Table \notin torn => TableFits)' /\ KeepsCompletes
  BY <1>2, <1>4, QuietThen DEF RelayWrites, TableWrites
<1>6. /\ state' \in [Routines -> States] /\ remaining' \in [Routines -> 0..2^Width - 1]
  BY <1>1, <1>2 DEF EdgeTypeOK, States
<1>7. EdgeTypeOK'
  BY <1>2, <1>3, <1>5, <1>6 DEF EdgeTypeOK
<1>8. FiredIsMarked'
  BY <1>1, <1>3, <1>5 DEF EdgeInv, FiredIsMarked
<1> QED
  BY <1>5, <1>7, <1>8 DEF EdgeInv

\* The timer's operation is of a slot.
LEMMA SlotOfHead ==
  ASSUME EdgeTypeOK, NEW op \in {"count", "dec", "complete", "due", "run", "mark"},
         Doing("timer", op)
  PROVE  /\ job["timer"] # <<>> /\ Head(job["timer"]).i \in Routines
         /\ Head(job["timer"]) = Slot(op, Head(job["timer"]).i)
<1>1. "timer" \in Tasks
  BY DEF Tasks
<1>2. Head(job["timer"]) \in Ops /\ Head(job["timer"]).op = op
  BY <1>1 DEF EdgeTypeOK, Doing
<1>3. Head(job["timer"]) \in [op : {"count", "dec", "complete", "due", "run", "mark"}, i : Routines]
  BY <1>2 DEF Ops
<1> QED
  BY <1>2, <1>3 DEF Doing, Slot

LEMMA SlotIsOp ==
  \A op \in {"count", "dec", "complete", "due", "run", "mark"}, i \in Routines :
    Slot(op, i) \in Ops /\ Slot(op, i).op = op /\ Slot(op, i).i = i
  BY DEF Ops, Slot

LEMMA CountKeeps ==
  ASSUME EdgeInv, Count
  PROVE  EdgeInv'
<1> DEFINE i == Head(job["timer"]).i
<1>1. EdgeTypeOK /\ job["timer"] # <<>> /\ Head(job["timer"]).op = "count" /\ "timer" \in Tasks
  BY DEF EdgeInv, Count, Doing, Tasks
<1>2. i \in Routines
  BY <1>1, SlotOfHead DEF Count
<1>3. PICK ops \in {<<>>, <<Slot("dec", i), Slot("due", i)>>, <<Slot("due", i)>>} :
        Then("timer", ops)
  BY DEF Count
<1>4. /\ UNCHANGED <<relay, pin, relayNvs, table, tableNvs, state, remaining, last, minute>>
      /\ UNCHANGED <<synced, torn, unsaved, overwritten, revoked, fired>>
      /\ UNCHANGED <<relayVars, tableVars, torn, unsaved>>
  BY DEF Count, relayVars, tableVars, runtimeVars, clockVars, historyVars
<1>5. ops \in Seq(Ops) /\ \A o \in Members(ops) : o.op \in {"dec", "due"}
  <2>1. /\ Slot("dec", i) \in Ops /\ Slot("dec", i).op = "dec"
        /\ Slot("due", i) \in Ops /\ Slot("due", i).op = "due"
    BY <1>2, SlotIsOp
  <2>2. CASE ops = <<>>
    BY <2>2, ShortMembers
  <2>3. CASE ops = <<Slot("dec", i), Slot("due", i)>>
    BY <2>1, <2>3, ShortMembers
  <2>4. CASE ops = <<Slot("due", i)>>
    BY <2>1, <2>4, ShortMembers
  <2> QED
    BY <2>2, <2>3, <2>4
<1>6. /\ job' \in [Tasks -> Seq(Ops)] /\ (\A u \in Tasks : WritesFirst(job[u]))'
      /\ (\A c \in Channels \ torn : RelayFits(c))'
      /\ (Table \notin torn => TableFits)' /\ KeepsCompletes
  BY <1>1, <1>3, <1>4, <1>5, QuietThen DEF RelayWrites, TableWrites
<1>7. EdgeTypeOK'
  BY <1>1, <1>4, <1>6 DEF EdgeTypeOK
<1>8. FiredIsMarked'
  BY <1>4, <1>6 DEF EdgeInv, FiredIsMarked
<1> QED
  BY <1>6, <1>7, <1>8 DEF EdgeInv

\* The counter is unsigned, and only one that was RUNNING counts.
LEMMA CounterTyped ==
  /\ \A r \in 0..2^Width - 1 : (r - 1) % 2^Width \in 0..2^Width - 1
  /\ \A r \in 1..2^Width - 1 : (r - 1) % 2^Width = r - 1
  BY DEF EdgeAssumption

LEMMA DecKeeps ==
  ASSUME EdgeInv, Dec
  PROVE  EdgeInv'
<1> DEFINE i == Head(job["timer"]).i
           left == (remaining[i] - 1) % 2^Width
           ending == Append(Actuate(i, TRUE), Slot("complete", i))
           ops == IF left = 0 THEN ending ELSE <<>>
<1>1. EdgeTypeOK /\ job["timer"] # <<>> /\ Head(job["timer"]).op = "dec" /\ "timer" \in Tasks
  BY DEF EdgeInv, Dec, Doing, Tasks
<1>2. i \in Routines /\ remaining \in [Routines -> 0..2^Width - 1]
  BY <1>1, SlotOfHead DEF Dec, EdgeTypeOK
<1>3. remaining' = [remaining EXCEPT ![i] = left] /\ remaining'[i] = left
  BY <1>2 DEF Dec
<1>4. Then("timer", ops)
  BY <1>3 DEF Dec
<1>5. /\ UNCHANGED <<relay, pin, relayNvs, table, tableNvs, state, last, minute>>
      /\ UNCHANGED <<synced, torn, unsaved, overwritten, revoked, fired>>
      /\ UNCHANGED <<relayVars, tableVars, torn, unsaved>>
  BY DEF Dec, relayVars, tableVars, clockVars, historyVars
<1>6. /\ ending \in Seq(Ops) /\ Slot("complete", i) \in Members(ending)
      /\ \A o \in Members(ending) : o.op \in {"toggle", "set", "complete"}
  <2>1. Slot("complete", i) \in Ops /\ Slot("complete", i).op = "complete"
    BY <1>2, SlotIsOp
  <2>2. /\ Actuate(i, TRUE) \in Seq(Ops)
        /\ \A o \in Members(Actuate(i, TRUE)) : o.op \in {"toggle", "set"}
    BY <1>1, <1>2, ActuateTyped
  <2>3. /\ ending \in Seq(Ops)
        /\ Members(ending) = Members(Actuate(i, TRUE)) \union {Slot("complete", i)}
    BY <2>1, <2>2, AppendMembers
  <2> HIDE DEF ending
  <2> QED
    BY <2>1, <2>2, <2>3
<1>7. left \in 0..2^Width - 1 /\ (remaining[i] # 0 => left = remaining[i] - 1)
  BY <1>2, CounterTyped
<1> HIDE DEF left, ending
<1>8. /\ ops \in Seq(Ops) /\ \A o \in Members(ops) : o.op \in {"toggle", "set", "complete"}
      /\ left = 0 => Slot("complete", i) \in Members(ops)
  BY <1>6, ShortMembers
<1> HIDE DEF ops
<1>9. /\ job' \in [Tasks -> Seq(Ops)] /\ (\A u \in Tasks : WritesFirst(job[u]))'
      /\ (\A c \in Channels \ torn : RelayFits(c))'
      /\ (Table \notin torn => TableFits)' /\ KeepsCompletes
  BY <1>1, <1>4, <1>5, <1>8, QuietThen DEF RelayWrites, TableWrites
<1>10. EdgeTypeOK'
  BY <1>1, <1>2, <1>3, <1>5, <1>7, <1>9 DEF EdgeTypeOK
<1>11. FiredIsMarked'
  BY <1>5 DEF EdgeInv, FiredIsMarked
<1> QED
  BY <1>9, <1>10, <1>11 DEF EdgeInv

LEMMA CompleteKeeps ==
  ASSUME EdgeInv, Complete
  PROVE  EdgeInv'
<1> DEFINE i == Head(job["timer"]).i
<1>1. EdgeTypeOK /\ job["timer"] # <<>> /\ Head(job["timer"]).op = "complete"
      /\ "timer" \in Tasks
  BY DEF EdgeInv, Complete, Doing, Tasks
<1>2. i \in Routines /\ Head(job["timer"]) = Slot("complete", i)
  BY <1>1, SlotOfHead DEF Complete
<1>3. Then("timer", <<>>) /\ state' = [state EXCEPT ![i] = "COMPLETED"]
  BY DEF Complete
<1>4. /\ UNCHANGED <<relay, pin, relayNvs, table, tableNvs, remaining, last, minute>>
      /\ UNCHANGED <<synced, torn, unsaved, overwritten, revoked, fired>>
      /\ UNCHANGED <<relayVars, tableVars, torn, unsaved>>
  BY DEF Complete, relayVars, tableVars, clockVars, historyVars
<1>5. <<>> \in Seq(Ops) /\ Members(<<>>) = {}
  BY ShortMembers
<1>6. /\ job' \in [Tasks -> Seq(Ops)] /\ (\A u \in Tasks : WritesFirst(job[u]))'
      /\ (\A c \in Channels \ torn : RelayFits(c))'
      /\ (Table \notin torn => TableFits)'
  BY <1>1, <1>3, <1>4, <1>5, QuietThen DEF RelayWrites, TableWrites
<1>7. state \in [Routines -> States] /\ state' \in [Routines -> States]
  BY <1>1, <1>2, <1>3 DEF EdgeTypeOK, States
<1>8. EdgeTypeOK'
  BY <1>1, <1>4, <1>6, <1>7 DEF EdgeTypeOK
<1>9. FiredIsMarked'
  BY <1>4 DEF EdgeInv, FiredIsMarked
<1> QED
  BY <1>6, <1>8, <1>9 DEF EdgeInv

LEMMA RunKeeps ==
  ASSUME EdgeInv, Run
  PROVE  EdgeInv'
<1> DEFINE i == Head(job["timer"]).i
           duration == IF table[i] = Empty THEN 0 ELSE table[i].duration
           arm == [op |-> "arm", i |-> i, sec |-> duration]
<1>1. EdgeTypeOK /\ job["timer"] # <<>> /\ Head(job["timer"]).op = "run"
      /\ "timer" \in Tasks
  BY DEF EdgeInv, Run, Doing, Tasks
<1>2. i \in Routines
  BY <1>1, SlotOfHead DEF Run
<1>3. /\ UNCHANGED <<relay, pin, relayNvs, table, tableNvs, remaining, last, minute>>
      /\ UNCHANGED <<synced, torn, unsaved, overwritten, revoked, fired>>
      /\ UNCHANGED <<relayVars, tableVars, torn, unsaved>>
  BY DEF Run, relayVars, tableVars, clockVars, historyVars
<1>4. \/ Then("timer", <<arm>>) /\ duration > 0 /\ state' = state
      \/ Then("timer", <<>>) /\ state' = [state EXCEPT ![i] = "COMPLETED"]
  BY DEF Run
<1>5. duration \in 0..2^Width - 1
  <2>1. CASE table[i] = Empty
    BY <2>1 DEF EdgeAssumption
  <2>2. CASE table[i] # Empty
    BY <1>1, <1>2, <2>2, SlotTyped
  <2> QED
    BY <2>1, <2>2
<1>6. duration > 0 => arm \in Ops /\ arm.op = "arm"
  BY <1>2, <1>5 DEF Ops
<1> HIDE DEF arm
<1>7. PICK ops \in {<<>>, <<arm>>} :
        Then("timer", ops) /\ ops \in Seq(Ops) /\ \A o \in Members(ops) : o.op = "arm"
  <2>1. CASE Then("timer", <<>>)
    BY <2>1, ShortMembers
  <2>2. CASE Then("timer", <<arm>>) /\ duration > 0
    BY <1>6, <2>2, ShortMembers
  <2> QED
    BY <1>4, <2>1, <2>2
<1>8. /\ job' \in [Tasks -> Seq(Ops)] /\ (\A u \in Tasks : WritesFirst(job[u]))'
      /\ (\A c \in Channels \ torn : RelayFits(c))'
      /\ (Table \notin torn => TableFits)'
  BY <1>1, <1>3, <1>7, QuietThen DEF RelayWrites, TableWrites
<1>9. state' \in [Routines -> States]
  BY <1>1, <1>2, <1>4 DEF EdgeTypeOK, States
<1>10. EdgeTypeOK'
  BY <1>1, <1>3, <1>8, <1>9 DEF EdgeTypeOK
<1>11. FiredIsMarked'
  BY <1>3 DEF EdgeInv, FiredIsMarked
<1> QED
  BY <1>8, <1>10, <1>11 DEF EdgeInv

LEMMA ArmTyped ==
  ASSUME EdgeTypeOK, Doing("timer", "arm")
  PROVE  /\ job["timer"] # <<>> /\ Head(job["timer"]).i \in Routines
         /\ Head(job["timer"]).sec \in 1..2^Width - 1
<1>1. Head(job["timer"]) \in Ops /\ Head(job["timer"]).op = "arm"
  BY DEF EdgeTypeOK, Doing, Tasks
<1> QED
  BY <1>1 DEF Ops, Doing

LEMMA ArmKeeps ==
  ASSUME EdgeInv, Arm
  PROVE  EdgeInv'
<1> DEFINE i == Head(job["timer"]).i
<1>1. EdgeTypeOK /\ job["timer"] # <<>> /\ Head(job["timer"]).op = "arm"
      /\ "timer" \in Tasks
  BY DEF EdgeInv, Arm, Doing, Tasks
<1>2. i \in Routines /\ Head(job["timer"]).sec \in 1..2^Width - 1
  BY <1>1, ArmTyped DEF Arm
<1>3. /\ UNCHANGED <<relay, pin, relayNvs, table, tableNvs, state, last, minute>>
      /\ UNCHANGED <<synced, torn, unsaved, overwritten, revoked, fired>>
      /\ UNCHANGED <<relayVars, tableVars, torn, unsaved>>
  BY DEF Arm, relayVars, tableVars, clockVars, historyVars
<1>4. /\ Then("timer", <<Slot("mark", i)>>)
      /\ remaining' = [remaining EXCEPT ![i] = Head(job["timer"]).sec]
  BY DEF Arm
<1>5. Slot("mark", i) \in Ops /\ Slot("mark", i).op = "mark"
  BY <1>2, SlotIsOp
<1>6. <<Slot("mark", i)>> \in Seq(Ops) /\ Members(<<Slot("mark", i)>>) = {Slot("mark", i)}
  BY <1>5, ShortMembers
<1>7. /\ job' \in [Tasks -> Seq(Ops)] /\ (\A u \in Tasks : WritesFirst(job[u]))'
      /\ (\A c \in Channels \ torn : RelayFits(c))'
      /\ (Table \notin torn => TableFits)'
  BY <1>1, <1>3, <1>4, <1>5, <1>6, QuietThen DEF RelayWrites, TableWrites
<1>8. remaining' \in [Routines -> 0..2^Width - 1]
  <2>1. 1..2^Width - 1 \subseteq 0..2^Width - 1
    BY DEF EdgeAssumption
  <2> QED
    BY <1>1, <1>2, <1>4, <2>1 DEF EdgeTypeOK
<1>9. EdgeTypeOK'
  BY <1>1, <1>3, <1>7, <1>8 DEF EdgeTypeOK
<1>10. FiredIsMarked'
  BY <1>3 DEF EdgeInv, FiredIsMarked
<1> QED
  BY <1>7, <1>9, <1>10 DEF EdgeInv

LEMMA MarkKeeps ==
  ASSUME EdgeInv, Mark
  PROVE  EdgeInv'
<1> DEFINE i == Head(job["timer"]).i
<1>1. EdgeTypeOK /\ job["timer"] # <<>> /\ Head(job["timer"]).op = "mark"
      /\ "timer" \in Tasks
  BY DEF EdgeInv, Mark, Doing, Tasks
<1>2. i \in Routines
  BY <1>1, SlotOfHead DEF Mark
<1>3. /\ UNCHANGED <<relay, pin, relayNvs, table, tableNvs, remaining, last, minute>>
      /\ UNCHANGED <<synced, torn, unsaved, overwritten, revoked, fired>>
      /\ UNCHANGED <<relayVars, tableVars, torn, unsaved>>
  BY DEF Mark, relayVars, tableVars, clockVars, historyVars
<1>4. Then("timer", <<>>) /\ state' = [state EXCEPT ![i] = "RUNNING"]
  BY DEF Mark
<1>5. <<>> \in Seq(Ops) /\ Members(<<>>) = {}
  BY ShortMembers
<1>6. /\ job' \in [Tasks -> Seq(Ops)] /\ (\A u \in Tasks : WritesFirst(job[u]))'
      /\ (\A c \in Channels \ torn : RelayFits(c))'
      /\ (Table \notin torn => TableFits)'
  BY <1>1, <1>3, <1>4, <1>5, QuietThen DEF RelayWrites, TableWrites
<1>7. state' \in [Routines -> States]
  BY <1>1, <1>2, <1>4 DEF EdgeTypeOK, States
<1>8. EdgeTypeOK'
  BY <1>1, <1>3, <1>6, <1>7 DEF EdgeTypeOK
<1>9. FiredIsMarked'
  BY <1>3 DEF EdgeInv, FiredIsMarked
<1> QED
  BY <1>6, <1>8, <1>9 DEF EdgeInv

\* Triggered or not, the slot is done; its relay is switched before it runs.
LEMMA DueKeeps ==
  ASSUME EdgeInv, Due
  PROVE  EdgeInv'
<1> DEFINE i == Head(job["timer"]).i
           starting == Append(Actuate(i, FALSE), Slot("run", i))
<1>1. EdgeTypeOK /\ job["timer"] # <<>> /\ Head(job["timer"]).op = "due"
      /\ "timer" \in Tasks
  BY DEF EdgeInv, Due, Doing, Tasks
<1>2. i \in Routines
  BY <1>1, SlotOfHead DEF Due
<1>3. /\ UNCHANGED <<relay, pin, relayNvs, table, tableNvs, remaining, minute, synced, torn>>
      /\ UNCHANGED unsaved
     
      /\ UNCHANGED <<relayVars, tableVars, torn, unsaved>>
  BY DEF Due, relayVars, tableVars, clockVars
<1>4. /\ starting \in Seq(Ops)
      /\ \A o \in Members(starting) : o.op \in {"toggle", "set", "run"}
  <2>1. Slot("run", i) \in Ops /\ Slot("run", i).op = "run"
    BY <1>2, SlotIsOp
  <2>2. /\ Actuate(i, FALSE) \in Seq(Ops)
        /\ \A o \in Members(Actuate(i, FALSE)) : o.op \in {"toggle", "set"}
    BY <1>1, <1>2, ActuateTyped
  <2>3. /\ starting \in Seq(Ops)
        /\ Members(starting) = Members(Actuate(i, FALSE)) \union {Slot("run", i)}
    BY <2>1, <2>2, AppendMembers
  <2> HIDE DEF starting
  <2> QED
    BY <2>1, <2>2, <2>3
<1>5. PICK ops \in {<<>>, starting} : Then("timer", ops)
  BY DEF Due, Trigger, Disarm
<1> HIDE DEF starting
<1>6. ops \in Seq(Ops) /\ \A o \in Members(ops) : o.op \in {"toggle", "set", "run"}
  <2>1. CASE ops = <<>>
    BY <2>1, ShortMembers
  <2>2. CASE ops = starting
    BY <1>4, <2>2
  <2> QED
    BY <1>5, <2>1, <2>2
<1>7. /\ job' \in [Tasks -> Seq(Ops)] /\ (\A u \in Tasks : WritesFirst(job[u]))'
      /\ (\A c \in Channels \ torn : RelayFits(c))'
      /\ (Table \notin torn => TableFits)'
  BY <1>1, <1>3, <1>5, <1>6, QuietThen DEF RelayWrites, TableWrites
<1>8. /\ state \in [Routines -> States] /\ last \in [Routines -> Minutes \union {Unarmed}]
      /\ minute \in Minutes /\ fired \subseteq Routines /\ revoked \subseteq Routines
      /\ overwritten \subseteq Routines
  BY <1>1 DEF EdgeTypeOK
<1>9. /\ state' \in [Routines -> States]
      /\ last' \in [Routines -> Minutes \union {Unarmed}]
      /\ fired' \subseteq Routines /\ revoked' \subseteq Routines
      /\ overwritten' \subseteq Routines
      /\ \A r \in fired' : last'[r] = table[r].minute
  <2>1. FiredIsMarked
    BY DEF EdgeInv
  <2>2. CASE Trigger(i)
    <3>1. /\ last' = [last EXCEPT ![i] = minute] /\ minute = table[i].minute
          /\ fired' = fired \union {i} /\ revoked' = revoked \ {i} /\ state' = state
          /\ overwritten' = overwritten \ {i}
      BY <2>2 DEF Trigger, IsDue
    <3> QED
      BY <1>2, <1>8, <2>1, <3>1 DEF FiredIsMarked
  <2>3. CASE Disarm(i) /\ minute = table[i].minute
    BY <1>8, <2>1, <2>3 DEF Disarm, FiredIsMarked
  <2>4. CASE Disarm(i) /\ minute # table[i].minute
    <3>1. /\ last' = [last EXCEPT ![i] = IF last[i] = table[i].minute THEN Unarmed ELSE last[i]]
          /\ state' = [state EXCEPT
                ![i] = IF state[i] \in {"COMPLETED", "STOPPED"} THEN "IDLE" ELSE state[i]]
          /\ fired' = fired \ {i} /\ revoked' = revoked /\ overwritten' = overwritten
      BY <2>4 DEF Disarm
    <3> QED
      BY <1>2, <1>8, <2>1, <3>1 DEF FiredIsMarked, States
  <2>5. CASE UNCHANGED <<last, state, fired, revoked, overwritten>>
    BY <1>8, <2>1, <2>5 DEF FiredIsMarked
  <2> QED
    BY <2>2, <2>3, <2>4, <2>5 DEF Due
<1>10. EdgeTypeOK'
  BY <1>1, <1>3, <1>7, <1>9 DEF EdgeTypeOK
<1>11. FiredIsMarked'
  BY <1>3, <1>9 DEF FiredIsMarked
<1> QED
  BY <1>7, <1>10, <1>11 DEF EdgeInv

\* The copy that is going to be written is of the table as it is.
LEMMA SaveKeeps ==
  ASSUME EdgeInv, NEW t \in Tasks, Save(t)
  PROVE  EdgeInv'
<1> DEFINE copy == [op |-> "write", blob |-> table]
<1>1. /\ EdgeTypeOK /\ job[t] # <<>> /\ Head(job[t]).op = "save" /\ Then(t, <<copy>>)
      /\ UNCHANGED <<relay, pin, relayNvs, table, tableNvs, state, remaining, last, minute>>
      /\ UNCHANGED <<synced, torn, unsaved, overwritten, revoked, fired>>
      /\ UNCHANGED <<relayVars, tableVars, torn, unsaved>>
  BY DEF EdgeInv, Save, Doing, relayVars, tableVars, runtimeVars, clockVars, historyVars
<1>2. copy \in Ops /\ copy.op = "write" /\ copy.blob = table
  BY <1>1 DEF Ops, EdgeTypeOK
<1> HIDE DEF copy
<1>3. <<copy>> \in Seq(Ops) /\ Members(<<copy>>) = {copy}
  BY <1>2, ShortMembers
<1>4. /\ job' \in [Tasks -> Seq(Ops)]
      /\ Pending(t) = {Head(job[t])} \union Members(Tail(job[t]))
      /\ Pending(t)' = {copy} \union Members(Tail(job[t]))
      /\ \A u \in Tasks \ {t} : Pending(u)' = Pending(u)
  BY <1>1, <1>3, ThenPending
<1>5. KeepsRelayWrites /\ KeepsCompletes
  BY <1>1, <1>2, <1>3, ThenKeepsWrites DEF RelayWrites
<1>6. (\A u \in Tasks : WritesFirst(job[u]))'
  BY <1>1, <1>2, <1>3, ThenWritesFirst DEF EdgeInv, RelayWrites
<1>7. (\A c \in Channels \ torn : RelayFits(c))'
  BY <1>1, <1>5, RelayFrame
<1>8. (Table \notin torn => TableFits)'
  <2> SUFFICES ASSUME Table \notin torn
               PROVE  TableFits'
    BY <1>1
  <2>1. TableFits
    BY DEF EdgeInv
  <2>2. copy \in Pending(t)' /\ copy.op \in TableWrites
    BY <1>2, <1>4 DEF TableWrites
  <2>3. \A u \in Tasks : \A o \in Pending(u)' : o = copy \/ o \in Pending(u)
    BY <1>4
  <2> QED
    BY <1>1, <1>2, <2>1, <2>2, <2>3 DEF TableFits
<1>9. EdgeTypeOK'
  BY <1>1, <1>4 DEF EdgeTypeOK
<1>10. FiredIsMarked'
  BY <1>1, <1>5 DEF EdgeInv, FiredIsMarked
<1> QED
  BY <1>6, <1>7, <1>8, <1>9, <1>10 DEF EdgeInv

LEMMA WriteTableKeeps ==
  ASSUME EdgeInv, NEW t \in Tasks, WriteTable(t)
  PROVE  EdgeInv'
<1> DEFINE blob == Head(job[t]).blob
<1>1. /\ EdgeTypeOK /\ job[t] # <<>> /\ Head(job[t]).op = "write" /\ Then(t, <<>>)
      /\ \/ tableNvs' = blob /\ unsaved' = unsaved \ {Table}
         \/ tableNvs' = tableNvs /\ unsaved' = unsaved \union {Table}
      /\ UNCHANGED <<relay, pin, relayNvs, table, state, remaining, last, minute>>
      /\ UNCHANGED <<synced, torn, overwritten, revoked, fired>> /\ UNCHANGED relayVars
  BY DEF EdgeInv, WriteTable, Doing, relayVars, runtimeVars, clockVars
<1>2. Head(job[t]) \in Ops
  BY <1>1 DEF EdgeTypeOK
<1>3. blob \in Tables
  BY <1>1, <1>2 DEF Ops
<1>4. <<>> \in Seq(Ops) /\ Members(<<>>) = {}
  BY ShortMembers
<1>5. /\ job' \in [Tasks -> Seq(Ops)]
      /\ Pending(t) = {Head(job[t])} \union Members(Tail(job[t]))
      /\ Pending(t)' = Members(Tail(job[t]))
      /\ \A u \in Tasks \ {t} : Pending(u)' = Pending(u)
  BY <1>1, <1>4, ThenPending
<1>6. KeepsRelayWrites /\ KeepsCompletes
  BY <1>1, <1>4, ThenKeepsWrites DEF RelayWrites
<1>7. (\A u \in Tasks : WritesFirst(job[u]))'
  BY <1>1, <1>4, ThenWritesFirst DEF EdgeInv, RelayWrites
<1>8. (\A c \in Channels \ torn : RelayFits(c))'
  <2>1. \A c \in Channels : c # Table
    BY DEF Table, Channels
  <2>2. \A c \in Channels : c \in unsaved => c \in unsaved'
    BY <1>1, <2>1
  <2> QED
    BY <1>1, <1>6, <2>2, RelayFrame
<1>9. (Table \notin torn => TableFits)'
  <2> SUFFICES ASSUME Table \notin torn
               PROVE  TableFits'
    BY <1>1
  <2>1. TableFits
    BY DEF EdgeInv
  <2>2. Head(job[t]) \in Pending(t)
    BY <1>5
  <2>3. Table \in unsaved' \/ tableNvs' = table
    BY <1>1, <2>1, <2>2 DEF TableFits
  <2>4. \A u \in Tasks : \A o \in Pending(u)' : o \in Pending(u)
    BY <1>5
  <2> QED
    BY <1>1, <2>1, <2>3, <2>4 DEF TableFits
<1>10. EdgeTypeOK'
  BY <1>1, <1>3, <1>5 DEF EdgeTypeOK
<1>11. FiredIsMarked'
  BY <1>1, <1>6 DEF EdgeInv, FiredIsMarked
<1> QED
  BY <1>7, <1>8, <1>9, <1>10, <1>11 DEF EdgeInv

\* upsert_routine and delete_routine: a table that nobody is writing is going to be
\* saved, one that somebody is writing is torn.
LEMMA RewriteKeeps ==
  ASSUME EdgeInv, NEW t \in Tasks, NEW i \in Routines, NEW slot \in Configs \union {Empty},
         Rewrite(t, i, slot, <<[op |-> "save"]>>)
  PROVE  EdgeInv'
<1> DEFINE save == [op |-> "save"]
<1>1. /\ EdgeTypeOK /\ Begin(t, <<save>>)
      /\ table' = [table EXCEPT ![i] = slot]
      /\ state' = [state EXCEPT ![i] = "IDLE"]
      /\ remaining' = [remaining EXCEPT ![i] = 0]
      /\ last' = [last EXCEPT ![i] = Unarmed]
      /\ torn' = IF \E u \in Tasks \ {t} : WritesTable(u)
                 THEN torn \union {Table} ELSE torn
      /\ overwritten' \subseteq Routines
      /\ revoked' = revoked \ {i} /\ fired' = fired \ {i} /\ unsaved' = unsaved
      /\ UNCHANGED <<relay, pin, relayNvs, tableNvs, minute, synced>> /\ UNCHANGED relayVars
  BY DEF EdgeInv, EdgeTypeOK, Rewrite, relayVars, clockVars
<1>2. save \in Ops /\ save.op = "save"
  BY DEF Ops
<1> HIDE DEF save
<1>3. <<save>> \in Seq(Ops) /\ Members(<<save>>) = {save}
  BY <1>2, ShortMembers
<1>4. /\ job' \in [Tasks -> Seq(Ops)]
      /\ Pending(t)' = {save}
      /\ \A u \in Tasks \ {t} : Pending(u)' = Pending(u)
      /\ (\A u \in Tasks : WritesFirst(job[u]))'
      /\ KeepsRelayWrites /\ KeepsCompletes
  BY <1>1, <1>2, <1>3, BeginPending DEF RelayWrites
<1>5. torn \subseteq torn'
  BY <1>1
<1>6. (\A c \in Channels \ torn : RelayFits(c))'
  BY <1>1, <1>4, <1>5, RelayFrame
<1>7. (Table \notin torn => TableFits)'
  <2> SUFFICES ASSUME Table \notin torn'
               PROVE  TableFits'
    OBVIOUS
  <2>1. \A u \in Tasks \ {t} : \A o \in Pending(u)' : o.op \notin TableWrites
    BY <1>1, <1>4 DEF WritesTable, TableWrites
  <2>2. save \in Pending(t)' /\ save.op \in TableWrites
    BY <1>2, <1>4 DEF TableWrites
  <2>3. \A u \in Tasks : \A o \in Pending(u)' : o.op # "write"
    BY <1>2, <1>4, <2>1 DEF TableWrites
  <2> QED
    BY <2>2, <2>3 DEF TableFits
<1>8. /\ table' \in Tables /\ state' \in [Routines -> States]
      /\ remaining' \in [Routines -> 0..2^Width - 1]
      /\ last' \in [Routines -> Minutes \union {Unarmed}]
      /\ torn' \subseteq Channels \union {Table}
      /\ revoked' \subseteq Routines /\ fired' \subseteq Routines
  <2>1. table' \in Tables
    BY <1>1 DEF EdgeTypeOK, Tables
  <2>2. 0 \in 0..2^Width - 1
    BY DEF EdgeAssumption
  <2>3. "IDLE" \in States /\ Unarmed \in Minutes \union {Unarmed}
    BY DEF States
  <2> QED
    BY <1>1, <2>1, <2>2, <2>3 DEF EdgeTypeOK
<1>9. EdgeTypeOK'
  BY <1>1, <1>4, <1>8 DEF EdgeTypeOK
<1>10. FiredIsMarked'
  <2>1. /\ table \in [Routines -> Configs \union {Empty}]
        /\ DOMAIN last = Routines /\ fired \subseteq Routines
    BY <1>1 DEF EdgeTypeOK, Tables
  <2> QED
    BY <1>1, <2>1 DEF EdgeInv, FiredIsMarked
<1> QED
  BY <1>4, <1>6, <1>7, <1>9, <1>10 DEF EdgeInv

\* A handler that begins with neither a write nor a save leaves the rest alone.
LEMMA BeginKeeps ==
  ASSUME EdgeInv, NEW t \in Tasks, NEW ops \in Seq(Ops), Begin(t, ops),
         \A o \in Members(ops) : o.op \notin RelayWrites \union TableWrites,
         UNCHANGED <<relayVars, tableVars, runtimeVars, historyVars>>,
         minute' \in Minutes, synced' \in BOOLEAN
  PROVE  EdgeInv'
<1>1. /\ UNCHANGED <<relay, pin, relayNvs, table, tableNvs, state, remaining, last>>
      /\ UNCHANGED <<torn, unsaved, overwritten, revoked, fired>>
      /\ UNCHANGED relayVars /\ UNCHANGED tableVars /\ torn \subseteq torn'
  BY DEF relayVars, tableVars, runtimeVars, historyVars
<1>2. /\ job' \in [Tasks -> Seq(Ops)] /\ (\A u \in Tasks : WritesFirst(job[u]))'
      /\ KeepsRelayWrites /\ KeepsCompletes /\ KeepsTableWrites
  BY BeginPending
<1>3. (\A c \in Channels \ torn : RelayFits(c))'
  BY <1>1, <1>2, RelayFrame
<1>4. (Table \notin torn => TableFits)'
  BY <1>1, <1>2, TableFrame
<1>5. EdgeTypeOK'
  BY <1>1, <1>2 DEF EdgeInv, EdgeTypeOK
<1>6. FiredIsMarked'
  BY <1>1, <1>2 DEF EdgeInv, FiredIsMarked
<1> QED
  BY <1>2, <1>3, <1>4, <1>5, <1>6 DEF EdgeInv

LEMMA TickKeeps ==
  ASSUME EdgeInv, Tick
  PROVE  EdgeInv'
<1> DEFINE ops == [i \in Routines |-> Slot("count", i)]
<1>1. NumRoutines \in Nat /\ "timer" \in Tasks
  BY DEF EdgeAssumption, Tasks
<1>2. ops \in Seq(Ops)
  BY <1>1, SlotIsOp DEF Routines
<1>3. \A o \in Members(ops) : o.op = "count"
  BY SlotIsOp DEF Members
<1>4. synced' \in BOOLEAN /\ minute' \in Minutes
  BY DEF Tick, EdgeInv, EdgeTypeOK
<1> QED
  BY <1>1, <1>2, <1>3, <1>4, BeginKeeps DEF Tick, RelayWrites, TableWrites

\* Every handler begins with operations on relays and stops.
LEMMA AskedKeeps ==
  ASSUME EdgeInv, Asked
  PROVE  EdgeInv'
<1>1. minute \in Minutes /\ synced \in BOOLEAN /\ NumChannels \in Nat
  BY DEF EdgeInv, EdgeTypeOK, EdgeAssumption
<1>2. /\ \A ch \in 0..NumChannels :
            On("stop", ch) \in Ops /\ On("stop", ch).op = "stop"
      /\ \A ch \in Channels :
            /\ ch \in 0..NumChannels
            /\ On("toggle", ch) \in Ops /\ On("toggle", ch).op = "toggle"
            /\ \A on \in BOOLEAN :
                  Power("set", ch, on) \in Ops /\ Power("set", ch, on).op = "set"
  BY <1>1 DEF Channels, Ops, On, Power
<1>3. ASSUME NEW t \in Tasks, NEW ops \in Seq(Ops), Begin(t, ops), Unchanged,
             \A o \in Members(ops) : o.op \in {"stop", "toggle", "set"}
      PROVE  EdgeInv'
  BY <1>1, <1>3, BeginKeeps DEF Unchanged, clockVars, RelayWrites, TableWrites
<1>4. "switch" \in Tasks /\ "lan" \in Tasks /\ "mqtt" \in Tasks
  BY DEF Tasks
<1>5. ASSUME NEW ch \in Channels, Press(ch)
      PROVE  EdgeInv'
  <2> DEFINE ops == <<On("stop", ch), On("toggle", ch)>>
  <2>1. ops \in Seq(Ops) /\ Members(ops) = {On("stop", ch), On("toggle", ch)}
    BY <1>2, ShortMembers
  <2> QED
    BY <1>2, <1>3, <1>4, <1>5, <2>1 DEF Press
<1>6. ASSUME NEW ch \in Channels, ControlToggle(ch)
      PROVE  EdgeInv'
  <2> DEFINE ops == <<On("toggle", ch)>>
  <2>1. ops \in Seq(Ops) /\ Members(ops) = {On("toggle", ch)}
    BY <1>2, ShortMembers
  <2> QED
    BY <1>2, <1>3, <1>4, <1>6, <2>1 DEF ControlToggle
<1>7. ASSUME NEW t \in {"lan", "mqtt"}, NEW ch \in Channels, NEW on \in BOOLEAN,
             Control(t, ch, on)
      PROVE  EdgeInv'
  <2> DEFINE alone == <<Power("set", ch, on)>>
             both == <<On("stop", ch), Power("set", ch, on)>>
  <2>1. alone \in Seq(Ops) /\ Members(alone) = {Power("set", ch, on)}
    BY <1>2, ShortMembers
  <2>2. both \in Seq(Ops) /\ Members(both) = {On("stop", ch), Power("set", ch, on)}
    BY <1>2, ShortMembers
  <2>3. Unchanged /\ (Begin(t, alone) \/ Begin(t, both))
    BY <1>7 DEF Control
  <2>4. CASE Begin(t, alone)
    BY <1>2, <1>3, <1>4, <2>1, <2>3, <2>4
  <2>5. CASE Begin(t, both)
    BY <1>2, <1>3, <1>4, <2>2, <2>3, <2>5
  <2> QED
    BY <2>3, <2>4, <2>5
<1>8. ASSUME NEW t \in {"lan", "mqtt"}, NEW ch \in 0..NumChannels, StopRoutines(t, ch)
      PROVE  EdgeInv'
  <2> DEFINE ops == <<On("stop", ch)>>
  <2>1. ops \in Seq(Ops) /\ Members(ops) = {On("stop", ch)}
    BY <1>2, ShortMembers
  <2> QED
    BY <1>2, <1>3, <1>4, <1>8, <2>1 DEF StopRoutines
<1>9. CASE EmergencyStop
  <2> DEFINE first == <<On("stop", 0)>>
             rest == [ch \in Channels |-> Power("set", ch, FALSE)]
             ops == first \o rest
  <2>1. /\ first \in Seq(Ops) /\ Len(first) = 1 /\ first[1] = On("stop", 0)
        /\ On("stop", 0).op = "stop"
    BY <1>1, <1>2
  <2>2. /\ rest \in Seq(Ops) /\ Len(rest) = NumChannels
        /\ \A n \in 1..NumChannels : rest[n].op = "set"
    <3>1. \A ch \in Channels : Power("set", ch, FALSE) \in Ops /\ rest[ch].op = "set"
      BY <1>2
    <3>2. rest \in [1..NumChannels -> Ops]
      BY <3>1 DEF Channels
    <3> HIDE DEF rest
    <3>3. rest \in Seq(Ops) /\ Len(rest) = NumChannels
      BY <1>1, <3>2
    <3> QED
      BY <3>1, <3>3 DEF Channels
  <2> HIDE DEF first, rest
  <2>3. /\ ops \in Seq(Ops) /\ DOMAIN ops = 1..(NumChannels + 1)
        /\ ops[1] = first[1] /\ \A n \in 1..NumChannels : ops[n + 1] = rest[n]
    <3>1. ops = <<On("stop", 0)>> \o rest
      BY DEF first
    <3>2. On("stop", 0) \in Ops
      BY <1>1, <1>2
    <3> QED
      BY <1>1, <2>1, <2>2, <3>1, <3>2, FirstMembers
  <2>4. \A n \in DOMAIN ops : ops[n].op \in {"stop", "set"}
    <3> SUFFICES ASSUME NEW n \in DOMAIN ops
                 PROVE  ops[n].op \in {"stop", "set"}
      OBVIOUS
    <3>1. n = 1 \/ (n - 1 \in 1..NumChannels /\ n = (n - 1) + 1)
      BY <1>1, <2>3
    <3> HIDE DEF ops
    <3> QED
      BY <2>1, <2>2, <2>3, <3>1
  <2>5. \A o \in Members(ops) : o.op \in {"stop", "set"}
    BY <2>4 DEF Members
  <2>6. Begin("mqtt", ops) /\ Unchanged
    BY <1>9 DEF EmergencyStop, first, rest
  <2> HIDE DEF ops
  <2> QED
    BY <1>3, <1>4, <2>3, <2>5, <2>6
<1>10. ASSUME NEW t \in {"lan", "mqtt"}, NEW i \in Routines,
              Delete(t, i) \/ \E c \in Configs : Upsert(t, i, c)
       PROVE  EdgeInv'
  BY <1>4, <1>10, RewriteKeeps DEF Delete, Upsert
<1> QED
  BY <1>5, <1>6, <1>7, <1>8, <1>9, <1>10 DEF Asked

\* With nobody at work and every store as its key in flash says.
LEMMA FreshIsFine ==
  ASSUME relay \in [Channels -> BOOLEAN], pin = relay, relayNvs = relay,
         table \in Tables, tableNvs = table,
         state = [i \in Routines |-> "IDLE"], remaining = [i \in Routines |-> 0],
         last = [i \in Routines |-> Unarmed], minute \in Minutes, synced = FALSE,
         job = [t \in Tasks |-> <<>>], torn = {}, unsaved = {}, overwritten = {},
         revoked = {}, fired = {}
  PROVE  EdgeInv
<1>1. job \in [Tasks -> Seq(Ops)] /\ \A t \in Tasks : Pending(t) = {} /\ WritesFirst(job[t])
  BY DEF Pending, WritesFirst
<1>2. 0 \in 0..2^Width - 1 /\ "IDLE" \in States
  BY DEF EdgeAssumption, States
<1>3. EdgeTypeOK
  BY <1>1, <1>2 DEF EdgeTypeOK
<1>4. TableFits /\ \A ch \in Channels : RelayFits(ch)
  BY <1>1 DEF TableFits, RelayFits
<1> QED
  BY <1>1, <1>3, <1>4 DEF EdgeInv, FiredIsMarked

LEMMA EdgeStart == Init => EdgeInv
<1> SUFFICES ASSUME Init PROVE EdgeInv
  OBVIOUS
<1>1. relay \in [Channels -> BOOLEAN] /\ table \in Tables
  BY DEF Init, Tables
<1> QED
  BY <1>1, FreshIsFine DEF Init

LEMMA RebootKeeps ==
  ASSUME EdgeInv, Reboot
  PROVE  EdgeInv'
<1>1. /\ relayNvs \in [Channels -> BOOLEAN] /\ tableNvs \in Tables /\ minute \in Minutes
  BY DEF EdgeInv, EdgeTypeOK
<1>2. /\ relay' \in [Channels -> BOOLEAN] /\ pin' = relay' /\ relayNvs' = relay'
      /\ table' \in Tables /\ tableNvs' = table'
      /\ state' = [i \in Routines |-> "IDLE"] /\ remaining' = [i \in Routines |-> 0]
      /\ last' = [i \in Routines |-> Unarmed] /\ minute' \in Minutes /\ synced' = FALSE
      /\ job' = [t \in Tasks |-> <<>>] /\ torn' = {} /\ unsaved' = {} /\ overwritten' = {}
      /\ revoked' = {} /\ fired' = {}
  BY <1>1 DEF Reboot
<1>3. job' \in [Tasks -> Seq(Ops)]
      /\ \A t \in Tasks : Pending(t)' = {} /\ WritesFirst(job[t])'
  BY <1>2 DEF Pending, WritesFirst
<1>4. 0 \in 0..2^Width - 1 /\ "IDLE" \in States
  BY DEF EdgeAssumption, States
<1>5. EdgeTypeOK'
  BY <1>2, <1>3, <1>4 DEF EdgeTypeOK
<1>6. TableFits' /\ \A ch \in Channels : RelayFits(ch)'
  BY <1>2, <1>3 DEF TableFits, RelayFits
<1> QED
  BY <1>2, <1>3, <1>5, <1>6 DEF EdgeInv, FiredIsMarked

LEMMA EdgeStutter ==
  ASSUME EdgeInv, UNCHANGED vars
  PROVE  EdgeInv'
<1>1. /\ UNCHANGED <<relay, pin, relayNvs, table, tableNvs, state, remaining, last, minute>>
      /\ UNCHANGED <<synced, job, torn, unsaved, overwritten, revoked, fired>>
  BY DEF vars, relayVars, tableVars, runtimeVars, clockVars, historyVars
<1>2. EdgeTypeOK'
  BY <1>1 DEF EdgeInv, EdgeTypeOK
<1>3. (\A t \in Tasks : WritesFirst(job[t]))'
  BY <1>1 DEF EdgeInv, WritesFirst
<1>4. (\A ch \in Channels \ torn : RelayFits(ch))' /\ (Table \notin torn => TableFits)'
  BY <1>1 DEF EdgeInv, RelayFits, TableFits, Pending
<1>5. FiredIsMarked'
  BY <1>1 DEF EdgeInv, FiredIsMarked
<1> QED
  BY <1>2, <1>3, <1>4, <1>5 DEF EdgeInv

LEMMA EdgeStep == EdgeInv /\ [Next]_vars => EdgeInv'
<1> SUFFICES ASSUME EdgeInv, [Next]_vars
             PROVE  EdgeInv'
  OBVIOUS
<1>1. ASSUME NEW t \in Tasks, Step(t)
      PROVE  EdgeInv'
  BY <1>1, SetKeeps, WritePinKeeps, WriteNvsKeeps, ToggleKeeps, StopKeeps, SaveKeeps,
     WriteTableKeeps, CountKeeps, DecKeeps, CompleteKeeps, DueKeeps, RunKeeps,
     ArmKeeps, MarkKeeps DEF Step
<1> QED
  BY <1>1, TickKeeps, AskedKeeps, RebootKeeps, EdgeStutter DEF Next

-----------------------------------------------------------------------------
(* The countdown                                                           *)

\* The timer looks at the slots in turn, and each of these is the last operation
\* of its slot.
Slots == {"count", "due", "run", "arm", "mark"}
Starts == {"run", "arm", "mark"}

\* Behind it only the slots that follow, and what is being marked comes first.
SlotsInTurn(q) ==
    /\ \A m, n \in DOMAIN q : m < n /\ q[m].op \in Slots => q[n].op = "count"
    /\ \A n \in DOMAIN q : q[n].op \in {"arm", "mark"} => n = 1

\* A routine that is being marked RUNNING will have its time.
MarkFits(i) ==
    Marking(i) => IF Head(job["timer"]).op = "arm"
                  THEN Head(job["timer"]).sec \in 1..table[i].duration
                  ELSE remaining[i] \in 1..table[i].duration

RunInv ==
    /\ SlotsInTurn(job["timer"])
    /\ \A i \in Routines : Starting(i) => state[i] # "RUNNING"
    /\ \A i \in Routines \ overwritten : MarkFits(i)
    /\ RunningCounts

\* A step of the timer that starts nothing, or one of another task.
StartsNothing ==
    \A i \in Routines :
        /\ Starting(i)' => Starting(i)
        /\ Marking(i)' => Marking(i) /\ job'["timer"] = job["timer"]

LEMMA OtherTask ==
  ASSUME RunInv, job'["timer"] = job["timer"]
  PROVE  SlotsInTurn(job'["timer"]) /\ StartsNothing /\ KeepsCompletes
<1>1. Pending("timer")' = Pending("timer")
  BY DEF Pending
<1> QED
  BY <1>1 DEF RunInv, StartsNothing, Starting, Marking, KeepsCompletes, Completing

\* What is put before the rest of the handler of the timer.
LEMMA SlotsThen ==
  ASSUME EdgeTypeOK, RunInv, job["timer"] # <<>>, NEW ops \in Seq(Ops), Then("timer", ops),
         \/ \A o \in Members(ops) : o.op \notin Slots
         \/ /\ Head(job["timer"]).op \in Slots
            /\ \A n \in DOMAIN ops :
                  /\ ops[n].op \in Slots => n = Len(ops)
                  /\ ops[n].op \in {"arm", "mark"} => n = 1
  PROVE  /\ SlotsInTurn(job'["timer"])
         /\ Head(job["timer"]).op \in Slots
              => \A o \in Members(Tail(job["timer"])) : o.op = "count"
         /\ (\A o \in Members(ops) : o.op \notin {"arm", "mark"})
              => \A i \in Routines : ~Marking(i)'
<1> DEFINE q == job["timer"]
           new == ops \o Tail(q)
<1>1. q \in Seq(Ops) /\ q # <<>> /\ job \in [Tasks -> Seq(Ops)] /\ SlotsInTurn(q)
      /\ "timer" \in Tasks
  BY DEF EdgeTypeOK, RunInv, Tasks
<1>2. /\ Len(q) \in Nat \ {0} /\ DOMAIN q = 1..Len(q) /\ Head(q) = q[1]
      /\ Tail(q) \in Seq(Ops) /\ DOMAIN Tail(q) = 1..(Len(q) - 1)
      /\ \A n \in DOMAIN Tail(q) : Tail(q)[n] = q[n + 1]
  BY <1>1
<1>3. /\ new \in Seq(Ops) /\ DOMAIN new = 1..(Len(ops) + Len(q) - 1)
      /\ Len(ops) \in Nat /\ DOMAIN ops = 1..Len(ops)
      /\ \A n \in DOMAIN ops : new[n] = ops[n]
      /\ \A n \in DOMAIN Tail(q) : new[Len(ops) + n] = Tail(q)[n]
  BY <1>1, <1>2
<1>4. job'["timer"] = new
  BY <1>1 DEF Then
<1>5. \A n \in DOMAIN new :
         \/ n \in DOMAIN ops /\ new[n] = ops[n]
         \/ /\ n - Len(ops) + 1 \in DOMAIN q /\ new[n] = q[n - Len(ops) + 1] /\ n > Len(ops)
            /\ n - Len(ops) + 1 > 1
  BY <1>2, <1>3
<1>6. \A n \in DOMAIN q : n > 1 => q[n].op \notin {"arm", "mark"}
  BY <1>1, <1>2 DEF SlotsInTurn
<1>7. Head(q).op \in Slots => \A n \in DOMAIN q : n > 1 => q[n].op = "count"
  <2>1. 1 \in DOMAIN q
    BY <1>2
  <2> QED
    BY <1>1, <1>2, <2>1 DEF SlotsInTurn
<1>8. Head(q).op \in Slots => \A o \in Members(Tail(q)) : o.op = "count"
  <2>1. \A n \in DOMAIN Tail(q) : n + 1 \in DOMAIN q /\ n + 1 > 1
    BY <1>2
  <2> QED
    BY <1>2, <1>7, <2>1 DEF Members
<1>9. /\ \A o \in Members(ops) : o.op \notin Slots
         \/ \A n \in DOMAIN ops : ops[n].op \in Slots => n = Len(ops)
      /\ \A n \in DOMAIN ops : ops[n].op \in {"arm", "mark"} => n = 1
  BY DEF Members, Slots
<1> HIDE DEF new
<1>10. \A m, n \in DOMAIN new : m < n /\ new[m].op \in Slots => new[n].op = "count"
  <2> SUFFICES ASSUME NEW m \in DOMAIN new, NEW n \in DOMAIN new, m < n,
                      new[m].op \in Slots
               PROVE  new[n].op = "count"
    OBVIOUS
  <2>1. m \in Nat /\ n \in Nat
    BY <1>2, <1>3
  <2>2. CASE m \in DOMAIN ops
    <3>1. new[m] = ops[m] /\ ops[m] \in Members(ops)
      BY <1>3, <2>2 DEF Members
    <3>2. Head(q).op \in Slots /\ m = Len(ops)
      BY <2>2, <3>1
    <3>3. n \notin DOMAIN ops
      BY <1>3, <2>1, <3>2
    <3> QED
      BY <1>5, <1>7, <3>2, <3>3
  <2>3. CASE m \notin DOMAIN ops
    <3>1. n \notin DOMAIN ops
      BY <1>2, <1>3, <2>1, <2>3
    <3>2. /\ m - Len(ops) + 1 \in DOMAIN q /\ new[m] = q[m - Len(ops) + 1]
          /\ n - Len(ops) + 1 \in DOMAIN q /\ new[n] = q[n - Len(ops) + 1]
      BY <1>5, <2>3, <3>1
    <3>3. m - Len(ops) + 1 < n - Len(ops) + 1
      BY <1>3, <2>1
    <3> QED
      BY <1>1, <3>2, <3>3 DEF SlotsInTurn
  <2> QED
    BY <2>2, <2>3
<1>11. \A n \in DOMAIN new : new[n].op \in {"arm", "mark"} => n \in DOMAIN ops /\ n = 1
  BY <1>5, <1>6, <1>9
<1>12. (\A o \in Members(ops) : o.op \notin {"arm", "mark"}) => \A i \in Routines : ~Marking(i)'
  <2>1. \A i \in Routines : Marking(i)' => new # <<>> /\ new[1].op \in {"arm", "mark"}
    BY <1>3, <1>4 DEF Marking
  <2>2. new # <<>> => 1 \in DOMAIN new
    BY <1>2, <1>3
  <2> QED
    BY <1>3, <1>11, <2>1, <2>2 DEF Members
<1> QED
  BY <1>4, <1>8, <1>10, <1>11, <1>12 DEF SlotsInTurn

\* The timer puts nothing of a start before the rest of its handler.
LEMMA CalmThen ==
  ASSUME EdgeTypeOK, RunInv, job["timer"] # <<>>, NEW ops \in Seq(Ops), Then("timer", ops),
         \A o \in Members(ops) : o.op \notin Starts,
         \/ \A o \in Members(ops) : o.op \notin Slots
         \/ /\ Head(job["timer"]).op \in Slots
            /\ \A n \in DOMAIN ops : ops[n].op \in Slots => n = Len(ops)
  PROVE  SlotsInTurn(job'["timer"]) /\ StartsNothing /\ \A i \in Routines : ~Marking(i)'
<1>1. \A o \in Members(ops) : o.op \notin {"arm", "mark"}
  BY DEF Starts
<1>2. \A n \in DOMAIN ops : ops[n].op \notin {"arm", "mark"}
  BY <1>1 DEF Members
<1>3. SlotsInTurn(job'["timer"]) /\ \A i \in Routines : ~Marking(i)'
  BY <1>1, <1>2, SlotsThen
<1>4. "timer" \in Tasks
  BY DEF Tasks
<1>5. /\ Pending("timer") = {Head(job["timer"])} \union Members(Tail(job["timer"]))
      /\ Pending("timer")' = Members(ops) \union Members(Tail(job["timer"]))
  BY <1>4, ThenPending
<1>6. \A i \in Routines : Slot("run", i) \notin Members(ops)
  BY DEF Slot, Starts
<1> QED
  BY <1>3, <1>5, <1>6 DEF StartsNothing, Starting

\* A step that starts nothing, and leaves the time of what runs on alone.
LEMMA CalmKeeps ==
  ASSUME RunInv, SlotsInTurn(job'["timer"]), StartsNothing, UNCHANGED <<table, overwritten>>,
         \A i \in Routines :
            /\ Completing(i) => Completing(i)' \/ state'[i] # "RUNNING"
            /\ state'[i] = "RUNNING" => state[i] = "RUNNING" /\ remaining'[i] = remaining[i]
            /\ Marking(i)' => remaining'[i] = remaining[i]
  PROVE  RunInv'
<1>1. \A i \in Routines : Starting(i)' => state'[i] # "RUNNING"
  BY DEF RunInv, StartsNothing
<1>2. \A i \in Routines \ overwritten' : MarkFits(i)'
  <2> SUFFICES ASSUME NEW i \in Routines \ overwritten', Marking(i)'
               PROVE  MarkFits(i)'
    BY DEF MarkFits
  <2>1. Marking(i) /\ job'["timer"] = job["timer"] /\ remaining'[i] = remaining[i]
        /\ table' = table
    BY DEF StartsNothing
  <2>2. MarkFits(i)
    BY DEF RunInv
  <2> QED
    BY <2>1, <2>2 DEF MarkFits
<1>3. RunningCounts'
  BY DEF RunInv, RunningCounts
<1> QED
  BY <1>1, <1>2, <1>3 DEF RunInv

\* An operation of the relays or of a store, or the timer's test of a countdown.
LEMMA QuietRun ==
  ASSUME EdgeInv, RunInv, NEW t \in Tasks, job[t] # <<>>, NEW ops \in Seq(Ops), Then(t, ops),
         Head(job[t]).op # "complete",
         \A o \in Members(ops) : o.op \notin Starts,
         \/ \A o \in Members(ops) : o.op \notin Slots
         \/ /\ Head(job[t]).op \in Slots
            /\ \A n \in DOMAIN ops : ops[n].op \in Slots => n = Len(ops)
  PROVE  SlotsInTurn(job'["timer"]) /\ StartsNothing /\ KeepsCompletes
<1>1. EdgeTypeOK
  BY DEF EdgeInv
<1>2. KeepsCompletes
  BY <1>1, ThenKeepsWrites
<1>3. CASE t = "timer"
  BY <1>1, <1>2, <1>3, CalmThen
<1>4. CASE t # "timer"
  <2>1. job'["timer"] = job["timer"]
    BY <1>1, <1>4 DEF EdgeTypeOK, Then, Tasks
  <2> QED
    BY <2>1, OtherTask
<1> QED
  BY <1>3, <1>4

\* The operations that leave the runtime of every routine alone.
LEMMA StoreRuns ==
  ASSUME EdgeInv, RunInv, NEW t \in Tasks,
         Set(t) \/ WritePin(t) \/ WriteNvs(t) \/ Toggle(t) \/ Save(t) \/ WriteTable(t)
  PROVE  RunInv'
<1>1. /\ UNCHANGED <<table, overwritten, state, remaining>>
      /\ job[t] # <<>>
      /\ Head(job[t]).op \in {"set", "pin", "nvs", "toggle", "save", "write"}
  BY DEF Set, WritePin, WriteNvs, Toggle, Save, WriteTable, Doing, tableVars, runtimeVars,
         historyVars
<1>2. job' \in [Tasks -> Seq(Ops)] /\ job \in [Tasks -> Seq(Ops)]
  <2>1. EdgeInv'
    BY SetKeeps, WritePinKeeps, WriteNvsKeeps, ToggleKeeps, SaveKeeps, WriteTableKeeps
  <2> QED
    BY <2>1 DEF EdgeInv, EdgeTypeOK
<1>3. Head(job[t]) \in Ops
  BY <1>1, <1>2
<1>4. PICK ops \in Seq(Ops) :
        Then(t, ops) /\ \A o \in Members(ops) : o.op \in {"set", "pin", "nvs", "write"}
  <2>1. CASE Then(t, <<>>)
    <3>1. <<>> \in Seq(Ops) /\ \A o \in Members(<<>>) : FALSE
      BY ShortMembers
    <3> QED
      BY <2>1, <3>1
  <2>2. ASSUME NEW a \in Ops, a.op \in {"set", "write"}, Then(t, <<a>>)
        PROVE  \E ops \in Seq(Ops) :
                 Then(t, ops) /\ \A o \in Members(ops) : o.op \in {"set", "pin", "nvs", "write"}
    <3>1. <<a>> \in Seq(Ops) /\ Members(<<a>>) = {a}
      BY ShortMembers
    <3> QED
      BY <2>2, <3>1
  <2>3. CASE Set(t) /\ relay[Head(job[t]).ch] # Head(job[t]).on
    <3> DEFINE level == Power("pin", Head(job[t]).ch, Head(job[t]).on)
               key == Power("nvs", Head(job[t]).ch, Head(job[t]).on)
    <3>1. Then(t, <<level, key>>)
      BY <2>3 DEF Set
    <3>2. Head(job[t]).ch \in Channels /\ Head(job[t]).on \in BOOLEAN
      BY <1>3, <2>3 DEF Set, Doing, Ops
    <3>3. level \in Ops /\ level.op = "pin" /\ key \in Ops /\ key.op = "nvs"
      BY <3>2 DEF Ops, Power
    <3> HIDE DEF level, key
    <3>4. <<level, key>> \in Seq(Ops) /\ Members(<<level, key>>) = {level, key}
      BY <3>3, ShortMembers
    <3> QED
      BY <3>1, <3>3, <3>4
  <2>4. CASE Toggle(t)
    <3> DEFINE set == Power("set", Head(job[t]).ch, ~relay[Head(job[t]).ch])
    <3>1. Then(t, <<set>>) /\ Head(job[t]).ch \in Channels
      BY <1>3, <2>4 DEF Toggle, Doing, Ops
    <3>2. set \in Ops /\ set.op = "set"
      BY <3>1 DEF EdgeInv, EdgeTypeOK, Ops, Power
    <3> QED
      BY <2>2, <3>1, <3>2
  <2>5. CASE Save(t)
    <3> DEFINE copy == [op |-> "write", blob |-> table]
    <3>1. Then(t, <<copy>>)
      BY <2>5 DEF Save
    <3>2. copy \in Ops /\ copy.op = "write"
      BY DEF EdgeInv, EdgeTypeOK, Ops
    <3> QED
      BY <2>2, <3>1, <3>2
  <2> QED
    BY <2>1, <2>3, <2>4, <2>5 DEF Set, WritePin, WriteNvs, WriteTable
<1>5. SlotsInTurn(job'["timer"]) /\ StartsNothing /\ KeepsCompletes
  BY <1>1, <1>4, QuietRun DEF Slots, Starts
<1> QED
  BY <1>1, <1>5, CalmKeeps DEF KeepsCompletes

\* A stop ends what is RUNNING, which nobody is marking.
LEMMA StopRuns ==
  ASSUME EdgeInv, RunInv, NEW t \in Tasks, Stop(t)
  PROVE  RunInv'
<1>1. PICK ended \in SUBSET Routines :
        /\ \A i \in ended : state[i] = "RUNNING"
        /\ state' = [i \in Routines |-> IF i \in ended THEN "STOPPED" ELSE state[i]]
        /\ remaining' = [i \in Routines |-> IF i \in ended THEN 0 ELSE remaining[i]]
  BY DEF Stop
<1>2. /\ job[t] # <<>> /\ Head(job[t]).op = "stop" /\ Then(t, <<>>)
      /\ UNCHANGED <<table, overwritten>>
  BY DEF Stop, Doing, tableVars
<1>3. <<>> \in Seq(Ops) /\ Members(<<>>) = {}
  BY ShortMembers
<1>4. SlotsInTurn(job'["timer"]) /\ StartsNothing /\ KeepsCompletes
  BY <1>2, <1>3, QuietRun
<1>5. \A i \in Routines : Marking(i)' => i \notin ended
  BY <1>1, <1>4 DEF RunInv, StartsNothing, Starting
<1> QED
  BY <1>1, <1>2, <1>4, <1>5, CalmKeeps DEF KeepsCompletes

LEMMA CountRuns ==
  ASSUME EdgeInv, RunInv, Count
  PROVE  RunInv'
<1> DEFINE i == Head(job["timer"]).i
<1>1. /\ EdgeTypeOK /\ job["timer"] # <<>> /\ Head(job["timer"]).op = "count"
      /\ "timer" \in Tasks
      /\ UNCHANGED <<table, overwritten, state, remaining>>
  BY DEF EdgeInv, Count, Doing, Tasks, tableVars, runtimeVars, historyVars
<1>2. i \in Routines
  BY <1>1, SlotOfHead DEF Count
<1>3. PICK ops \in {<<>>, <<Slot("dec", i), Slot("due", i)>>, <<Slot("due", i)>>} :
        Then("timer", ops)
  BY DEF Count
<1>4. /\ ops \in Seq(Ops) /\ \A o \in Members(ops) : o.op \in {"dec", "due"}
      /\ \A n \in DOMAIN ops : ops[n].op = "due" => n = Len(ops)
  <2>1. /\ Slot("dec", i) \in Ops /\ Slot("dec", i).op = "dec"
        /\ Slot("due", i) \in Ops /\ Slot("due", i).op = "due"
    BY <1>2, SlotIsOp
  <2>2. CASE ops = <<>>
    BY <2>2, ShortMembers
  <2>3. CASE ops = <<Slot("dec", i), Slot("due", i)>>
    <3>1. DOMAIN ops = {1, 2} /\ Len(ops) = 2 /\ ops[1] = Slot("dec", i)
      BY <2>3
    <3> QED
      BY <2>1, <2>3, <3>1, ShortMembers
  <2>4. CASE ops = <<Slot("due", i)>>
    <3>1. DOMAIN ops = {1} /\ Len(ops) = 1
      BY <2>4
    <3> QED
      BY <2>1, <2>4, <3>1, ShortMembers
  <2> QED
    BY <1>3, <2>2, <2>3, <2>4
<1>5. \A n \in DOMAIN ops : ops[n].op \in Slots => n = Len(ops)
  BY <1>4 DEF Members, Slots
<1>6. SlotsInTurn(job'["timer"]) /\ StartsNothing /\ KeepsCompletes
  BY <1>1, <1>3, <1>4, <1>5, QuietRun DEF Slots, Starts
<1> QED
  BY <1>1, <1>6, CalmKeeps DEF KeepsCompletes

\* The counter of a RUNNING routine was positive, and at zero the timer ends it.
LEMMA DecRuns ==
  ASSUME EdgeInv, RunInv, Dec
  PROVE  RunInv'
<1> DEFINE i == Head(job["timer"]).i
           left == (remaining[i] - 1) % 2^Width
           ending == Append(Actuate(i, TRUE), Slot("complete", i))
           ops == IF left = 0 THEN ending ELSE <<>>
<1>1. EdgeTypeOK /\ job["timer"] # <<>> /\ Head(job["timer"]).op = "dec" /\ "timer" \in Tasks
  BY DEF EdgeInv, Dec, Doing, Tasks
<1>2. i \in Routines /\ remaining \in [Routines -> 0..2^Width - 1]
  BY <1>1, SlotOfHead DEF Dec, EdgeTypeOK
<1>3. remaining' = [remaining EXCEPT ![i] = left] /\ remaining'[i] = left
  BY <1>2 DEF Dec
<1>4. Then("timer", ops) /\ UNCHANGED <<table, state, overwritten>>
  BY <1>3 DEF Dec, tableVars, historyVars
<1>5. /\ ending \in Seq(Ops) /\ Slot("complete", i) \in Members(ending)
      /\ \A o \in Members(ending) : o.op \in {"toggle", "set", "complete"}
  <2>1. Slot("complete", i) \in Ops /\ Slot("complete", i).op = "complete"
    BY <1>2, SlotIsOp
  <2>2. /\ Actuate(i, TRUE) \in Seq(Ops)
        /\ \A o \in Members(Actuate(i, TRUE)) : o.op \in {"toggle", "set"}
    BY <1>1, <1>2, ActuateTyped
  <2>3. /\ ending \in Seq(Ops)
        /\ Members(ending) = Members(Actuate(i, TRUE)) \union {Slot("complete", i)}
    BY <2>1, <2>2, AppendMembers
  <2> HIDE DEF ending
  <2> QED
    BY <2>1, <2>2, <2>3
<1>6. left \in 0..2^Width - 1 /\ (remaining[i] # 0 => left = remaining[i] - 1)
  BY <1>2, CounterTyped
<1> HIDE DEF left, ending
<1>7. /\ ops \in Seq(Ops) /\ \A o \in Members(ops) : o.op \in {"toggle", "set", "complete"}
      /\ left = 0 => Slot("complete", i) \in Members(ops)
  BY <1>5, ShortMembers
<1> HIDE DEF ops
<1>8. /\ SlotsInTurn(job'["timer"]) /\ StartsNothing /\ KeepsCompletes
      /\ \A r \in Routines : ~Marking(r)'
  BY <1>1, <1>4, <1>7, QuietRun, CalmThen DEF Slots, Starts
<1>9. \A r \in Routines : r = i /\ left = 0 => Completing(r)'
  BY <1>1, <1>4, <1>7, ThenPending DEF Completing
<1>10. RunningCounts'
  <2> SUFFICES ASSUME NEW r \in Routines \ overwritten, state[r] = "RUNNING", ~Completing(r)'
               PROVE  remaining'[r] \in 1..table[r].duration
    BY <1>4 DEF RunningCounts, Completing
  <2>1. remaining[r] \in 1..table[r].duration
    BY <1>8 DEF RunInv, RunningCounts, KeepsCompletes
  <2>2. CASE r = i
    <3>1. left # 0 /\ left = remaining[i] - 1 /\ remaining[i] \in Nat
      BY <1>2, <1>6, <1>9, <2>1, <2>2
    <3>2. table[r] # Empty
      BY <2>1 DEF Empty
    <3>3. table[r].duration \in Nat
      BY <1>1, <3>2, SlotTyped
    <3> QED
      BY <1>3, <2>1, <2>2, <3>1, <3>3
  <2>3. CASE r # i
    BY <1>2, <1>3, <2>1, <2>3
  <2> QED
    BY <2>2, <2>3
<1> QED
  BY <1>4, <1>8, <1>10 DEF RunInv, StartsNothing, MarkFits

LEMMA CompleteRuns ==
  ASSUME EdgeInv, RunInv, Complete
  PROVE  RunInv'
<1> DEFINE i == Head(job["timer"]).i
<1>1. /\ EdgeTypeOK /\ job["timer"] # <<>> /\ Head(job["timer"]).op = "complete"
      /\ "timer" \in Tasks
      /\ Then("timer", <<>>) /\ state' = [state EXCEPT ![i] = "COMPLETED"]
      /\ UNCHANGED <<table, overwritten, remaining>>
  BY DEF EdgeInv, Complete, Doing, Tasks, tableVars, historyVars
<1>2. i \in Routines /\ Head(job["timer"]) = Slot("complete", i)
  BY <1>1, SlotOfHead DEF Complete
<1>3. <<>> \in Seq(Ops) /\ Members(<<>>) = {}
  BY ShortMembers
<1>4. SlotsInTurn(job'["timer"]) /\ StartsNothing
  BY <1>1, <1>3, CalmThen
<1>5. ASSUME NEW r \in Routines, r # i, Completing(r)
      PROVE  Completing(r)'
  <2>1. Slot("complete", r) # Slot("complete", i)
    BY <1>5 DEF Slot
  <2> QED
    BY <1>1, <1>2, <1>3, <1>5, <2>1, ThenPending DEF Completing
<1>6. state \in [Routines -> States]
  BY <1>1 DEF EdgeTypeOK
<1>7. \A r \in Routines :
         IF r = i THEN state'[r] # "RUNNING" ELSE state'[r] = state[r]
  BY <1>1, <1>2, <1>6
<1> QED
  BY <1>1, <1>4, <1>5, <1>7, CalmKeeps

\* A routine is triggered when it is not RUNNING, and the timer starts nothing else.
LEMMA DueRuns ==
  ASSUME EdgeInv, RunInv, Due
  PROVE  RunInv'
<1> DEFINE i == Head(job["timer"]).i
           starting == Append(Actuate(i, FALSE), Slot("run", i))
<1>1. /\ EdgeTypeOK /\ job["timer"] # <<>> /\ Head(job["timer"]).op = "due"
      /\ "timer" \in Tasks /\ UNCHANGED <<table, remaining>>
  BY DEF EdgeInv, Due, Doing, Tasks, tableVars
<1>2. i \in Routines /\ Head(job["timer"]) = Slot("due", i)
  BY <1>1, SlotOfHead DEF Due
<1>3. CASE Trigger(i)
  <2>1. /\ Then("timer", starting) /\ state' = state /\ state[i] # "RUNNING"
        /\ overwritten' = overwritten \ {i}
    BY <1>3 DEF Trigger, IsDue
  <2>2. Slot("run", i) \in Ops /\ Slot("run", i).op = "run" /\ Slot("run", i).i = i
    BY <1>2, SlotIsOp
  <2>3. /\ Actuate(i, FALSE) \in Seq(Ops)
        /\ \A o \in Members(Actuate(i, FALSE)) : o.op \in {"toggle", "set"}
    BY <1>1, <1>2, ActuateTyped
  <2>4. /\ starting \in Seq(Ops)
        /\ Members(starting) = Members(Actuate(i, FALSE)) \union {Slot("run", i)}
    BY <2>2, <2>3, AppendMembers
  <2>5. \A n \in DOMAIN starting :
           /\ starting[n].op \in Slots => n = Len(starting)
           /\ starting[n].op \notin {"arm", "mark"}
    <3> DEFINE front == Actuate(i, FALSE)
               run == Slot("run", i)
    <3> HIDE DEF front, run, starting
    <3>1. /\ Len(front) \in Nat /\ DOMAIN front = 1..Len(front)
          /\ Len(starting) = Len(front) + 1 /\ DOMAIN starting = 1..(Len(front) + 1)
          /\ \A n \in DOMAIN front : starting[n] = front[n]
          /\ starting[Len(front) + 1] = Slot("run", i)
      <4>1. front \in Seq(Ops) /\ run \in Ops /\ starting = Append(front, run)
        BY <2>2, <2>3 DEF front, run, starting
      <4> QED
        BY <4>1, AppendItems DEF run
    <3>2. \A n \in DOMAIN front : front[n].op \in {"toggle", "set"}
      BY <2>3 DEF Members, front
    <3>3. \A n \in DOMAIN starting : n \in DOMAIN front \/ n = Len(front) + 1
      BY <3>1
    <3> QED
      BY <2>2, <3>1, <3>2, <3>3 DEF Slots
  <2> HIDE DEF starting
  <2>6. \A o \in Members(starting) : o.op \notin {"arm", "mark"}
    BY <2>5 DEF Members
  <2>7. /\ SlotsInTurn(job'["timer"]) /\ \A r \in Routines : ~Marking(r)'
        /\ \A o \in Members(Tail(job["timer"])) : o.op = "count"
    BY <1>1, <2>1, <2>4, <2>5, <2>6, SlotsThen DEF Slots
  <2>8. Pending("timer")' = Members(starting) \union Members(Tail(job["timer"]))
    BY <1>1, <2>1, <2>4, ThenPending
  <2>9. \A r \in Routines : Starting(r)' => r = i
    <3> SUFFICES ASSUME NEW r \in Routines, Starting(r)'
                 PROVE  r = i
      OBVIOUS
    <3>1. Slot("run", r) \in Pending("timer")'
      BY <2>7 DEF Starting
    <3>2. Slot("run", r).op = "run" /\ Slot("run", r).i = r
      BY SlotIsOp
    <3> QED
      BY <2>2, <2>3, <2>4, <2>7, <2>8, <3>1, <3>2
  <2>10. KeepsCompletes
    BY <1>1, <2>1, <2>4, ThenKeepsWrites
  <2>11. RunningCounts'
    BY <1>1, <2>1, <2>10 DEF RunInv, RunningCounts, KeepsCompletes
  <2> QED
    BY <2>1, <2>7, <2>9, <2>11 DEF RunInv, MarkFits
<1>4. CASE ~Trigger(i)
  <2>1. Then("timer", <<>>) /\ overwritten' = overwritten
    BY <1>4 DEF Due, Disarm
  <2>2. <<>> \in Seq(Ops) /\ Members(<<>>) = {}
    BY ShortMembers
  <2>3. SlotsInTurn(job'["timer"]) /\ StartsNothing /\ KeepsCompletes
    BY <1>1, <2>1, <2>2, QuietRun
  <2>4. \A r \in Routines : state'[r] = "RUNNING" => state[r] = "RUNNING"
    BY <1>1, <1>4 DEF Due, Disarm, EdgeTypeOK
  <2> QED
    BY <1>1, <2>1, <2>3, <2>4, CalmKeeps DEF KeepsCompletes
<1> QED
  BY <1>3, <1>4

\* What the timer does next when it starts, or marks, what Head names.
LEMMA StartThen ==
  ASSUME EdgeTypeOK, RunInv, "timer" \in Tasks, job["timer"] # <<>>,
         Head(job["timer"]).op \in Starts,
         NEW op \in Ops, op.op \in {"arm", "mark"}, Then("timer", <<op>>)
  PROVE  /\ SlotsInTurn(job'["timer"]) /\ Head(job'["timer"]) = op /\ KeepsCompletes
         /\ \A r \in Routines : Starting(r)' \/ Marking(r)' => r = op.i
<1>1. <<op>> \in Seq(Ops) /\ Members(<<op>>) = {op} /\ DOMAIN <<op>> = {1} /\ Len(<<op>>) = 1
  BY ShortMembers
<1>2. /\ SlotsInTurn(job'["timer"])
      /\ \A o \in Members(Tail(job["timer"])) : o.op = "count"
  BY <1>1, SlotsThen DEF Slots, Starts
<1>3. Pending("timer")' = {op} \union Members(Tail(job["timer"]))
  BY <1>1, ThenPending
<1>4. job["timer"] \in Seq(Ops) /\ job'["timer"] = <<op>> \o Tail(job["timer"])
  BY DEF EdgeTypeOK, Then
<1>5. Tail(job["timer"]) \in Seq(Ops)
  BY <1>4
<1>6. Head(job'["timer"]) = op
  BY <1>4, <1>5
<1>7. \A r \in Routines : Slot("run", r) \notin Pending("timer")'
  BY <1>2, <1>3, SlotIsOp
<1>8. KeepsCompletes
  BY <1>1, ThenKeepsWrites DEF Starts
<1> QED
  BY <1>2, <1>6, <1>7, <1>8 DEF Starting, Marking

LEMMA RunRuns ==
  ASSUME EdgeInv, RunInv, Run
  PROVE  RunInv'
<1> DEFINE i == Head(job["timer"]).i
           duration == IF table[i] = Empty THEN 0 ELSE table[i].duration
           arm == [op |-> "arm", i |-> i, sec |-> duration]
<1>1. /\ EdgeTypeOK /\ job["timer"] # <<>> /\ Head(job["timer"]).op = "run"
      /\ "timer" \in Tasks /\ UNCHANGED <<table, overwritten, remaining>>
  BY DEF EdgeInv, Run, Doing, Tasks, tableVars, historyVars
<1>2. i \in Routines /\ Head(job["timer"]) = Slot("run", i)
  BY <1>1, SlotOfHead DEF Run
<1>3. \/ duration > 0 /\ Then("timer", <<arm>>) /\ state' = state
      \/ Then("timer", <<>>) /\ state' = [state EXCEPT ![i] = "COMPLETED"]
  BY DEF Run
<1>4. CASE duration > 0 /\ Then("timer", <<arm>>) /\ state' = state
  <2>1. table[i] # Empty /\ duration = table[i].duration /\ duration \in 1..2^Width - 1
    <3>1. table[i] # Empty
      BY <1>4
    <3>2. table[i].duration \in 0..2^Width - 1
      BY <1>1, <1>2, <3>1, SlotTyped
    <3> QED
      BY <1>4, <3>1, <3>2
  <2>2. arm \in Ops /\ arm.op = "arm" /\ arm.i = i /\ arm.sec = duration
    BY <1>2, <2>1 DEF Ops
  <2>3. duration \in 1..table[i].duration
    BY <2>1
  <2> HIDE DEF arm, duration
  <2>4. /\ SlotsInTurn(job'["timer"]) /\ Head(job'["timer"]) = arm /\ KeepsCompletes
        /\ \A r \in Routines : Starting(r)' \/ Marking(r)' => r = i
    BY <1>1, <1>4, <2>2, StartThen DEF Starts
  <2>5. state[i] # "RUNNING"
    <3>1. Head(job["timer"]) \in Pending("timer")
      BY <1>1 DEF EdgeTypeOK, Pending
    <3> QED
      BY <1>2, <3>1 DEF RunInv, Starting
  <2>6. \A r \in Routines : MarkFits(r)'
    BY <1>1, <2>2, <2>3, <2>4 DEF MarkFits
  <2>7. RunningCounts'
    BY <1>1, <1>4, <2>4 DEF RunInv, RunningCounts, KeepsCompletes
  <2> QED
    BY <1>4, <2>4, <2>5, <2>6, <2>7 DEF RunInv
<1>5. CASE Then("timer", <<>>) /\ state' = [state EXCEPT ![i] = "COMPLETED"]
  <2>1. <<>> \in Seq(Ops) /\ Members(<<>>) = {}
    BY ShortMembers
  <2>2. SlotsInTurn(job'["timer"]) /\ StartsNothing /\ KeepsCompletes
    BY <1>1, <1>5, <2>1, QuietRun
  <2>3. \A r \in Routines : state'[r] = "RUNNING" => state[r] = "RUNNING"
    BY <1>1, <1>2, <1>5 DEF EdgeTypeOK
  <2> QED
    BY <1>1, <2>2, <2>3, CalmKeeps DEF KeepsCompletes
<1> QED
  BY <1>3, <1>4, <1>5

LEMMA ArmRuns ==
  ASSUME EdgeInv, RunInv, Arm
  PROVE  RunInv'
<1> DEFINE i == Head(job["timer"]).i
           sec == Head(job["timer"]).sec
<1>1. /\ EdgeTypeOK /\ job["timer"] # <<>> /\ Head(job["timer"]).op = "arm"
      /\ "timer" \in Tasks /\ UNCHANGED <<table, overwritten, state>>
      /\ Then("timer", <<Slot("mark", i)>>) /\ remaining' = [remaining EXCEPT ![i] = sec]
  BY DEF EdgeInv, Arm, Doing, Tasks, tableVars, historyVars
<1>2. i \in Routines /\ Marking(i)
  BY <1>1, ArmTyped DEF Arm, Marking
<1>3. Slot("mark", i) \in Ops /\ Slot("mark", i).op = "mark" /\ Slot("mark", i).i = i
  BY <1>2, SlotIsOp
<1>4. /\ SlotsInTurn(job'["timer"]) /\ Head(job'["timer"]) = Slot("mark", i) /\ KeepsCompletes
      /\ \A r \in Routines : Starting(r)' \/ Marking(r)' => r = i
  BY <1>1, <1>3, StartThen DEF Starts
<1>5. /\ state[i] # "RUNNING"
      /\ i \notin overwritten => sec \in 1..table[i].duration
  BY <1>1, <1>2 DEF RunInv, Starting, MarkFits
<1>6. \A r \in Routines : remaining'[r] = IF r = i THEN sec ELSE remaining[r]
  BY <1>1, <1>2 DEF EdgeTypeOK
<1>7. \A r \in Routines \ overwritten' : MarkFits(r)'
  BY <1>1, <1>3, <1>4, <1>5, <1>6 DEF MarkFits
<1>8. RunningCounts'
  BY <1>1, <1>4, <1>5, <1>6 DEF RunInv, RunningCounts, KeepsCompletes
<1> QED
  BY <1>1, <1>4, <1>5, <1>7, <1>8 DEF RunInv

LEMMA MarkRuns ==
  ASSUME EdgeInv, RunInv, Mark
  PROVE  RunInv'
<1> DEFINE i == Head(job["timer"]).i
<1>1. /\ EdgeTypeOK /\ job["timer"] # <<>> /\ Head(job["timer"]).op = "mark"
      /\ "timer" \in Tasks /\ UNCHANGED <<table, overwritten, remaining>>
      /\ Then("timer", <<>>) /\ state' = [state EXCEPT ![i] = "RUNNING"]
  BY DEF EdgeInv, Mark, Doing, Tasks, tableVars, historyVars
<1>2. i \in Routines /\ Marking(i)
  BY <1>1, SlotOfHead DEF Mark, Marking
<1>3. <<>> \in Seq(Ops) /\ Members(<<>>) = {} /\ DOMAIN <<>> = {}
  BY ShortMembers
<1>4. /\ SlotsInTurn(job'["timer"]) /\ \A r \in Routines : ~Marking(r)'
      /\ \A o \in Members(Tail(job["timer"])) : o.op = "count"
  BY <1>1, <1>3, SlotsThen DEF Slots
<1>5. Pending("timer")' = Members(Tail(job["timer"]))
  BY <1>1, <1>3, ThenPending
<1>6. \A r \in Routines : ~Starting(r)'
  BY <1>4, <1>5, SlotIsOp DEF Starting
<1>7. KeepsCompletes
  BY <1>1, <1>3, ThenKeepsWrites
<1>8. i \notin overwritten => remaining[i] \in 1..table[i].duration
  BY <1>1, <1>2 DEF RunInv, MarkFits
<1>9. \A r \in Routines : r # i => state'[r] = state[r]
  BY <1>1
<1>10. RunningCounts'
  BY <1>1, <1>7, <1>8, <1>9 DEF RunInv, RunningCounts, KeepsCompletes
<1> QED
  BY <1>4, <1>6, <1>10 DEF RunInv, MarkFits

\* An upsert, or a delete, of a slot the timer is marking is remembered; any other
\* finds its routine IDLE and without time.
LEMMA RewriteRuns ==
  ASSUME EdgeInv, RunInv, NEW t \in {"lan", "mqtt"}, NEW i \in Routines,
         NEW slot \in Configs \union {Empty}, NEW ops \in Seq(Ops), Rewrite(t, i, slot, ops)
  PROVE  RunInv'
<1>1. /\ table' = [table EXCEPT ![i] = slot] /\ state' = [state EXCEPT ![i] = "IDLE"]
      /\ remaining' = [remaining EXCEPT ![i] = 0]
      /\ overwritten' = IF Marking(i) THEN overwritten \union {i} ELSE overwritten \ {i}
      /\ job' = [job EXCEPT ![t] = ops]
  BY DEF Rewrite, Begin
<1>2. /\ table \in [Routines -> Configs \union {Empty}] /\ state \in [Routines -> States]
      /\ DOMAIN remaining = Routines /\ job \in [Tasks -> Seq(Ops)]
  BY DEF EdgeInv, EdgeTypeOK, Tables
<1>3. job'["timer"] = job["timer"]
  BY <1>1, <1>2 DEF Tasks
<1>4. SlotsInTurn(job'["timer"]) /\ StartsNothing /\ KeepsCompletes
  BY <1>3, OtherTask
<1>5. \A r \in Routines :
         IF r = i THEN state'[r] # "RUNNING"
         ELSE state'[r] = state[r] /\ remaining'[r] = remaining[r] /\ table'[r] = table[r]
  BY <1>1, <1>2
<1>6. \A r \in Routines \ overwritten' : r # i => r \notin overwritten
  BY <1>1
<1>7. \A r \in Routines \ overwritten' : MarkFits(r)'
  <2> SUFFICES ASSUME NEW r \in Routines \ overwritten', Marking(r)'
               PROVE  MarkFits(r)'
    BY DEF MarkFits
  <2>1. Marking(r) /\ r # i
    BY <1>1, <1>4 DEF StartsNothing
  <2>2. MarkFits(r)
    BY <1>6, <2>1 DEF RunInv
  <2> QED
    BY <1>3, <1>5, <2>1, <2>2 DEF MarkFits
<1>8. RunningCounts'
  BY <1>4, <1>5, <1>6 DEF RunInv, RunningCounts, KeepsCompletes
<1> QED
  BY <1>4, <1>5, <1>7, <1>8 DEF RunInv, StartsNothing

LEMMA AskedRuns ==
  ASSUME EdgeInv, RunInv, Asked
  PROVE  RunInv'
<1>1. job \in [Tasks -> Seq(Ops)] /\ "timer" \in Tasks
  BY DEF EdgeInv, EdgeTypeOK, Tasks
<1>2. ASSUME NEW t \in Tasks \ {"timer"}, NEW ops, Begin(t, ops), Unchanged
      PROVE  RunInv'
  <2>1. job'["timer"] = job["timer"]
    BY <1>1, <1>2 DEF Begin
  <2>2. UNCHANGED <<table, overwritten, state, remaining>>
    BY <1>2 DEF Unchanged, tableVars, runtimeVars, historyVars
  <2> QED
    BY <2>1, <2>2, OtherTask, CalmKeeps DEF KeepsCompletes
<1>3. "switch" \in Tasks \ {"timer"} /\ "lan" \in Tasks \ {"timer"}
      /\ "mqtt" \in Tasks \ {"timer"}
  BY DEF Tasks
<1>4. ASSUME NEW t \in {"lan", "mqtt"}, NEW i \in Routines,
             Delete(t, i) \/ \E c \in Configs : Upsert(t, i, c)
      PROVE  RunInv'
  <2>1. <<[op |-> "save"]>> \in Seq(Ops)
    <3>1. [op |-> "save"] \in Ops
      BY DEF Ops
    <3> QED
      BY <3>1
  <2> QED
    BY <1>4, <2>1, RewriteRuns DEF Delete, Upsert
<1>5. ASSUME NEW ch \in Channels, Press(ch) \/ ControlToggle(ch)
      PROVE  RunInv'
  BY <1>2, <1>3, <1>5 DEF Press, ControlToggle
<1>6. ASSUME NEW t \in {"lan", "mqtt"}, NEW ch \in Channels, NEW on \in BOOLEAN,
             Control(t, ch, on)
      PROVE  RunInv'
  BY <1>2, <1>3, <1>6 DEF Control
<1>7. ASSUME NEW t \in {"lan", "mqtt"}, NEW ch \in 0..NumChannels, StopRoutines(t, ch)
      PROVE  RunInv'
  BY <1>2, <1>3, <1>7 DEF StopRoutines
<1>8. CASE EmergencyStop
  BY <1>2, <1>3, <1>8 DEF EmergencyStop
<1> QED
  BY <1>4, <1>5, <1>6, <1>7, <1>8 DEF Asked

LEMMA TickRuns ==
  ASSUME EdgeInv, RunInv, Tick
  PROVE  RunInv'
<1> DEFINE ops == [i \in Routines |-> Slot("count", i)]
<1>1. /\ job \in [Tasks -> Seq(Ops)] /\ "timer" \in Tasks /\ NumRoutines \in Nat
      /\ job["timer"] = <<>> /\ job' = [job EXCEPT !["timer"] = ops]
      /\ UNCHANGED <<table, state, remaining, overwritten>>
  BY DEF EdgeInv, EdgeTypeOK, Tasks, EdgeAssumption, Tick, Begin, tableVars, runtimeVars,
         historyVars
<1>2. /\ ops \in Seq(Ops) /\ DOMAIN ops = 1..NumRoutines
      /\ \A n \in DOMAIN ops : ops[n].op = "count"
  BY <1>1, SlotIsOp DEF Routines
<1>3. job'["timer"] = ops
  BY <1>1
<1> HIDE DEF ops
<1>4. SlotsInTurn(job'["timer"])
  BY <1>2, <1>3 DEF SlotsInTurn
<1>5. \A o \in Pending("timer")' : o.op = "count"
  BY <1>2, <1>3 DEF Pending
<1>6. ops # <<>> => Head(ops) = ops[1] /\ 1 \in DOMAIN ops
  BY <1>1, <1>2
<1>7. \A i \in Routines : ~Starting(i)' /\ ~Marking(i)'
  BY <1>2, <1>3, <1>5, <1>6, SlotIsOp DEF Starting, Marking
<1>8. Pending("timer") = {}
  BY <1>1 DEF Pending
<1> QED
  BY <1>1, <1>4, <1>7, <1>8, CalmKeeps DEF StartsNothing, Completing

\* Nothing is RUNNING when the device has just started.
LEMMA FreshRuns ==
  /\ Init => RunInv
  /\ Reboot => RunInv'
<1>1. "timer" \in Tasks
  BY DEF Tasks
<1>2. ASSUME Init PROVE RunInv
  BY <1>1, <1>2 DEF Init, RunInv, SlotsInTurn, Starting, Marking, MarkFits, Pending,
                    RunningCounts
<1>3. ASSUME Reboot PROVE RunInv'
  <2>1. job'["timer"] = <<>> /\ \A i \in Routines : state'[i] = "IDLE"
    BY <1>1, <1>3 DEF Reboot
  <2>2. Pending("timer")' = {} /\ \A i \in Routines : ~Starting(i)' /\ ~Marking(i)'
    BY <2>1 DEF Pending, Starting, Marking
  <2> QED
    BY <2>1, <2>2 DEF RunInv, SlotsInTurn, MarkFits, RunningCounts
<1> QED
  BY <1>2, <1>3

LEMMA RunStep == EdgeInv /\ RunInv /\ [Next]_vars => RunInv'
<1> SUFFICES ASSUME EdgeInv, RunInv, [Next]_vars
             PROVE  RunInv'
  OBVIOUS
<1>1. ASSUME NEW t \in Tasks, Step(t)
      PROVE  RunInv'
  BY <1>1, StoreRuns, StopRuns, CountRuns, DecRuns, CompleteRuns, DueRuns, RunRuns, ArmRuns,
     MarkRuns DEF Step
<1>2. CASE UNCHANGED vars
  <2>1. job' = job /\ UNCHANGED <<table, overwritten, state, remaining>>
    BY <1>2 DEF vars, tableVars, runtimeVars, historyVars
  <2> QED
    BY <2>1, OtherTask, CalmKeeps DEF KeepsCompletes
<1> QED
  BY <1>1, <1>2, TickRuns, AskedRuns, FreshRuns DEF Next

-----------------------------------------------------------------------------
(* What follows                                                            *)

\* The invariant the rest follows from.
THEOREM EdgeInvariant == Spec => []EdgeInv
  BY EdgeStart, EdgeStep, PTL DEF Spec

\* Every reachable state of the routine engine and the relays is well typed: the
\* counter never leaves its width, and no task is given an operation it has not.
THEOREM EdgeTypeCorrect == Spec => []EdgeTypeOK
<1>1. EdgeInv => EdgeTypeOK
  BY DEF EdgeInv
<1> QED
  BY <1>1, EdgeInvariant, PTL

\* A relay's pin and its key in flash, and the routine blob, say what RAM says once
\* nobody is writing them, so a reboot changes nothing: however the four tasks
\* interleave, only two of them writing the same thing at once spoils it.
THEOREM StoresAgreeAlways == Spec => []StoresAgree
<1>1. EdgeInv => StoresAgree
  <2> SUFFICES ASSUME EdgeInv
               PROVE  StoresAgree
    OBVIOUS
  <2>1. ASSUME NEW ch \in Channels \ torn, \A t \in Tasks : ~WritesRelay(t, ch)
        PROVE  pin[ch] = relay[ch] /\ (ch \in unsaved \/ relayNvs[ch] = relay[ch])
    <3>1. RelayFits(ch)
      BY DEF EdgeInv
    <3>2. \A t \in Tasks : \A o \in Pending(t) : o.op \in {"pin", "nvs"} => o.ch # ch
      BY <2>1 DEF WritesRelay
    <3> QED
      BY <3>1, <3>2 DEF RelayFits
  <2>2. ASSUME Table \notin torn \union unsaved, \A t \in Tasks : ~WritesTable(t)
        PROVE  tableNvs = table
    <3>1. TableFits
      BY <2>2 DEF EdgeInv
    <3>2. \A t \in Tasks : \A o \in Pending(t) : o.op \notin TableWrites
      BY <2>2 DEF WritesTable, TableWrites
    <3> QED
      BY <2>2, <3>1, <3>2 DEF TableFits
  <2> QED
    BY <2>1, <2>2 DEF StoresAgree
<1> QED
  BY <1>1, EdgeInvariant, PTL

\* A RUNNING routine has time left, and no more than its duration, unless the timer is
\* ending it: whatever stops, upserts and deletes come between the timer's test, its
\* decrement and what follows, or between the statements of a start, the only one that
\* will not end in time is one rewritten as it was being marked RUNNING.
THEOREM RunningCountsAlways == Spec => []RunningCounts
<1>1. Init => RunInv
  BY FreshRuns
<1>2. RunInv => RunningCounts
  BY DEF RunInv
<1> QED
  BY <1>1, <1>2, EdgeInvariant, RunStep, PTL DEF Spec

\* A routine is triggered once in its minute, however often the timer ticks in it and
\* whatever stops it in between, unless it is upserted or the device reboots.
THEOREM FiresOncePerMinuteAlways == Spec => FiresOncePerMinute
<1>1. ASSUME EdgeInv, [Next]_vars
      PROVE  [\A i \in Routines : (last'[i] # last[i] /\ last'[i] # Unarmed)
                => i \notin fired]_vars
  <2> SUFFICES ASSUME Next, NEW i \in Routines, last'[i] # last[i], last'[i] # Unarmed
               PROVE  i \notin fired
    BY <1>1
  <2>1. EdgeTypeOK /\ last \in [Routines -> Minutes \union {Unarmed}] /\ FiredIsMarked
    BY <1>1 DEF EdgeInv, EdgeTypeOK
  <2>2. ASSUME UNCHANGED last
        PROVE  FALSE
    BY <2>2
  <2>3. CASE Due
    <3> DEFINE r == Head(job["timer"]).i
    <3>1. r \in Routines
      BY <2>1, <2>3, SlotOfHead DEF Due
    <3>2. CASE Trigger(r)
      <4>1. last' = [last EXCEPT ![r] = minute] /\ minute = table[r].minute /\ last[r] # minute
        BY <3>2 DEF Trigger, IsDue
      <4>2. r = i
        BY <2>1, <3>1, <4>1
      <4> QED
        BY <2>1, <4>1, <4>2 DEF FiredIsMarked
    <3>3. CASE Disarm(r)
      <4>1. \/ last' = last
            \/ last' = [last EXCEPT ![r] = IF last[r] = table[r].minute
                                           THEN Unarmed ELSE last[r]]
        BY <3>3 DEF Disarm
      <4> QED
        BY <2>1, <2>2, <3>1, <4>1
    <3> QED
      BY <2>2, <2>3, <3>2, <3>3 DEF Due
  <2>4. ASSUME NEW t \in Tasks, Step(t), ~Due
        PROVE  FALSE
    BY <2>2, <2>4 DEF Step, Set, WritePin, WriteNvs, Toggle, Stop, Save, WriteTable, Count, Dec,
       Complete, Run, Arm, Mark, runtimeVars
  <2>5. CASE Tick
    BY <2>2, <2>5 DEF Tick, runtimeVars
  <2>6. CASE Reboot
    BY <2>6 DEF Reboot
  <2>7. CASE Asked
    <3>1. ASSUME Unchanged
          PROVE  FALSE
      BY <2>2, <3>1 DEF Unchanged, runtimeVars
    <3>2. ASSUME NEW t, NEW r \in Routines, NEW slot, NEW ops, Rewrite(t, r, slot, ops)
          PROVE  FALSE
      <4>1. last' = [last EXCEPT ![r] = Unarmed]
        BY <3>2 DEF Rewrite
      <4> QED
        BY <2>1, <4>1
    <3> QED
      BY <2>7, <3>1, <3>2 DEF Asked, Press, Control, ControlToggle, StopRoutines, EmergencyStop,
         Upsert, Delete
  <2> QED
    BY <2>3, <2>4, <2>5, <2>6, <2>7 DEF Next
<1>2. Spec => [][Next]_vars
  BY PTL DEF Spec
<1> QED
  BY <1>1, <1>2, EdgeInvariant, PTL DEF FiresOncePerMinute
=============================================================================
