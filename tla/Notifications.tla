---------------------------- MODULE Notifications ----------------------------
(***************************************************************************)
(* From an event to a push: NotificationService, NotificationDecision and  *)
(* NotificationDeliveryService, the NotificationDeliveryWorker and         *)
(* NotificationRepository, for one recipient.  The services write rows and *)
(* queue deliveries, one per push token; the worker, on a timer, sends     *)
(* what is due and writes what became of it.  A Dispatcher is an event or  *)
(* a release of what quiet hours deferred.  The process may restart at any *)
(* await, and a write may fail.  Texts, channels other than push, read     *)
(* marks, actions on notifications and aggregation are left out.           *)
(***************************************************************************)
EXTENDS Naturals, FiniteSets

CONSTANTS
  Dispatchers,    \* the requests and events that are handled at a time
  Events,         \* an event, its recipient and its window: an idempotency key
  Critical,       \* those whose severity is CRITICAL
  PushTokens,     \* push tokens of the recipient
  MaxAttempts,    \* attempts a delivery has
  MaxNotes,       \* bound: notifications inserted; they are 1, 2, ...
  MaxDeliveries,  \* bound: deliveries queued; they are 1, 2, ...
  MaxCuts         \* bound: restarts and failed writes

ASSUME NoticeAssumption ==
  /\ Critical \subseteq Events
  /\ MaxAttempts \in Nat \ {0} /\ MaxNotes \in Nat /\ MaxDeliveries \in Nat /\ MaxCuts \in Nat

VARIABLES
  note,       \* notifications: status "none" without a row, and the key of the row
  queue,      \* notification_delivery_queue: status "none" without a row
  active,     \* the tokens with is_active
  lately,     \* rateLimitMap: the events sent within their window (RAM)
  quiet,      \* quiet hours
  noteCall,   \* what each caller is in
  worker,     \* the worker's tick: its batch and the delivery it is on
  notDue,     \* the deliveries whose next_attempt_at is to come
  pushes,     \* history: pushes the provider accepted, per delivery
  tries,      \* history: calls of the provider, per delivery
  cut,        \* history: deliveries an interruption met half-way
  cuts        \* interruptions so far

noteVars == <<note, queue, active, lately, quiet, noteCall, worker, notDue, pushes, tries, cut,
              cuts>>

Notes == 1..MaxNotes
Deliveries == 1..MaxDeliveries
Waiting == {"PENDING", "RETRYING"}
Final == {"SENT", "FAILED", "DEAD_LETTER"}

NoNote == [status |-> "none", key |-> {}]
NoItem == [status |-> "none", n |-> 0, t |-> {}, attempts |-> 0]
NoteMemo(pc, key, word, n, toks, rows) ==
  [pc |-> pc, key |-> key, word |-> word, n |-> n, toks |-> toks, rows |-> rows]
NoteIdle == NoteMemo("idle", {}, "none", 0, {}, {})
WorkerIdle == [pc |-> "idle", batch |-> {}, d |-> 0, seen |-> 0, result |-> "none"]

NoteTypeOK ==
  /\ note \in [Notes -> [status : {"none", "DEFERRED", "DELIVERED", "FAILED"}, key : SUBSET Events]]
  /\ queue \in [Deliveries -> [status : {"none"} \cup Waiting \cup Final, n : 0..MaxNotes,
                               t : SUBSET PushTokens, attempts : 0..MaxAttempts]]
  /\ active \subseteq PushTokens /\ lately \subseteq Events /\ quiet \in BOOLEAN
  /\ noteCall \in [Dispatchers -> [pc : {"idle", "find", "insert", "tokens", "enqueue", "release"},
                               key : SUBSET Events, word : {"none", "DEFERRED", "DELIVERED"},
                               n : 0..MaxNotes, toks : SUBSET PushTokens, rows : SUBSET Notes]]
  /\ worker \in [pc : {"idle", "pick", "send", "answer", "note", "failed", "catch"},
                 batch : SUBSET Deliveries, d : 0..MaxDeliveries, seen : 0..MaxAttempts,
                 result : {"none", "ok", "invalid", "refused", "thrown"}]
  /\ notDue \subseteq Deliveries /\ cut \subseteq Deliveries
  /\ pushes \in [Deliveries -> Nat] /\ tries \in [Deliveries -> Nat] /\ cuts \in 0..MaxCuts

NoteInit ==
  /\ note = [n \in Notes |-> NoNote]
  /\ queue = [d \in Deliveries |-> NoItem]
  /\ active = PushTokens /\ lately = {} /\ quiet \in BOOLEAN
  /\ noteCall = [c \in Dispatchers |-> NoteIdle]
  /\ worker = WorkerIdle
  /\ notDue = {} /\ cut = {} /\ cuts = 0
  /\ pushes = [d \in Deliveries |-> 0] /\ tries = [d \in Deliveries |-> 0]

Exists(n) == n # 0 /\ note[n].status # "none"
FreshNote(n) == n = Cardinality({m \in Notes : note[m].key # {}}) + 1
FreshDelivery(d) == d = Cardinality({e \in Deliveries : queue[e].n # 0}) + 1

WorkerStays == UNCHANGED <<worker, notDue, pushes, tries, cut, cuts>>

NoteGoto(c, from, m) ==
  /\ noteCall[c].pc = from
  /\ noteCall' = [noteCall EXCEPT ![c] = m]
  /\ WorkerStays

(* evaluate: an event sent within its window is suppressed unless it is    *)
(* critical; in quiet hours what is not critical is deferred.              *)
BeginEvent(c, k) ==
  LET sends == k \in Critical \/ ~quiet
  IN  /\ k \in Critical \/ k \notin lately
      /\ NoteGoto(c, "idle", NoteMemo("find", {k}, IF sends THEN "DELIVERED" ELSE "DEFERRED",
                                      0, {}, {}))
      /\ lately' = IF sends THEN lately \cup {k} ELSE lately
      /\ UNCHANGED <<note, queue, active, quiet>>

AfterNote(m, n) == IF m.word = "DEFERRED" THEN NoteIdle ELSE [m EXCEPT !.pc = "tokens", !.n = n]

(* createNotification answers with a row of that key, or inserts one.      *)
FindNote(c) ==
  LET same == {n \in Notes : Exists(n) /\ note[n].key = noteCall[c].key}
  IN  /\ \/ /\ same = {}
            /\ NoteGoto(c, "find", [noteCall[c] EXCEPT !.pc = "insert"])
         \/ \E n \in same : NoteGoto(c, "find", AfterNote(noteCall[c], n))
      /\ UNCHANGED <<note, queue, active, lately, quiet>>

InsertNote(c) ==
  \E n \in Notes :
    /\ FreshNote(n)
    /\ NoteGoto(c, "insert", AfterNote(noteCall[c], n))
    /\ note' = [note EXCEPT ![n] = [status |-> noteCall[c].word, key |-> noteCall[c].key]]
    /\ UNCHANGED <<queue, active, lately, quiet>>

FindTokens(c) ==
  /\ NoteGoto(c, "tokens", [noteCall[c] EXCEPT !.pc = "enqueue", !.toks = active])
  /\ UNCHANGED <<note, queue, active, lately, quiet>>

(* dispatch queues a delivery per token; a row that is gone ends it.  An   *)
(* event is then done, a release goes on with its next row.                *)
Enqueue(c) ==
  LET m == noteCall[c]
      next == IF m.rows = {} THEN NoteIdle ELSE [m EXCEPT !.pc = "release", !.toks = {}]
  IN  \/ /\ m.toks = {} \/ ~Exists(m.n)
         /\ NoteGoto(c, "enqueue", next)
         /\ UNCHANGED <<note, queue, active, lately, quiet>>
      \/ \E t \in m.toks, d \in Deliveries :
           /\ Exists(m.n) /\ FreshDelivery(d)
           /\ NoteGoto(c, "enqueue", [m EXCEPT !.toks = @ \ {t}])
           /\ queue' = [queue EXCEPT ![d] = [status |-> "PENDING", n |-> m.n, t |-> {t},
                                             attempts |-> 0]]
           /\ UNCHANGED <<note, active, lately, quiet>>

(* releaseDeferredNotifications does not ask whether it is still quiet. *)
BeginRelease(c) ==
  LET deferred == {n \in Notes : note[n].status = "DEFERRED"}
  IN  /\ deferred # {}
      /\ NoteGoto(c, "idle", NoteMemo("release", {}, "DELIVERED", 0, {}, deferred))
      /\ UNCHANGED <<note, queue, active, lately, quiet>>

(* Of the next row it lists the tokens, and then writes the status. *)
Release(c) ==
  \E n \in noteCall[c].rows :
    /\ NoteGoto(c, "release", [noteCall[c] EXCEPT !.pc = "enqueue", !.n = n, !.rows = @ \ {n},
                                                  !.toks = active])
    /\ note' = IF Exists(n) THEN [note EXCEPT ![n].status = "DELIVERED"] ELSE note
    /\ UNCHANGED <<queue, active, lately, quiet>>

(* Deleting a notification takes its deliveries along. *)
DeleteNote(n) ==
  /\ Exists(n)
  /\ note' = [note EXCEPT ![n].status = "none"]
  /\ queue' = [d \in Deliveries |-> IF queue[d].n = n THEN [queue[d] EXCEPT !.status = "none"]
                                    ELSE queue[d]]
  /\ UNCHANGED <<active, lately, quiet, noteCall>> /\ WorkerStays

(* upsertDeviceToken and removeDeviceToken. *)
SetToken(t) ==
  /\ active' \in {active \cup {t}, active \ {t}} \ {active}
  /\ UNCHANGED <<note, queue, lately, quiet, noteCall>> /\ WorkerStays

ToggleQuiet ==
  /\ quiet' = ~quiet
  /\ UNCHANGED <<note, queue, active, lately, noteCall>> /\ WorkerStays

-----------------------------------------------------------------------------
(* The worker.  w is its next state; a write that throws because the row   *)
(* is gone, or because it failed, ends the tick or goes to the catch.      *)
Work(from, w) == worker.pc = from /\ worker' = w /\ UNCHANGED <<lately, quiet, noteCall>>

Item == IF worker.d = 0 THEN NoItem ELSE queue[worker.d]
NextItem == [worker EXCEPT !.pc = "pick", !.batch = @ \ {worker.d}, !.d = 0, !.seen = 0,
                            !.result = "none"]

Tick ==
  LET due == {d \in Deliveries \ notDue : queue[d].status \in Waiting}
  IN  /\ due # {}
      /\ Work("idle", [WorkerIdle EXCEPT !.pc = "pick", !.batch = due])
      /\ UNCHANGED <<note, queue, active, notDue, pushes, tries, cut, cuts>>

(* processItem looks at the notification and the token it is to send. *)
Pick ==
  /\ \/ worker.batch = {} /\ Work("pick", WorkerIdle)
     \/ \E d \in worker.batch :
          Work("pick", [worker EXCEPT !.d = d, !.seen = queue[d].attempts,
                 !.pc = IF Exists(queue[d].n) /\ queue[d].t \subseteq active THEN "send"
                        ELSE "failed"])
  /\ UNCHANGED <<note, queue, active, notDue, pushes, tries, cut, cuts>>

(* The provider accepts, names the token invalid, or does not accept; one  *)
(* that throws may have accepted, and goes to the catch.                   *)
SendPush ==
  \E result \in {"ok", "invalid", "refused", "thrown"}, accepted \in BOOLEAN :
    /\ result = "ok" => accepted
    /\ result \in {"invalid", "refused"} => ~accepted
    /\ result = "thrown" /\ accepted => cuts < MaxCuts
    /\ Work("send", [worker EXCEPT !.result = result,
                       !.pc = CASE result = "invalid" -> "failed"
                                [] result = "thrown" -> "catch"
                                [] OTHER -> "answer"])
    /\ tries' = [tries EXCEPT ![worker.d] = @ + 1]
    /\ pushes' = [pushes EXCEPT ![worker.d] = IF accepted THEN @ + 1 ELSE @]
    /\ IF result = "thrown" /\ accepted
       THEN cut' = cut \cup {worker.d} /\ cuts' = cuts + 1 ELSE UNCHANGED <<cut, cuts>>
    /\ active' = IF result = "invalid" THEN active \ Item.t ELSE active
    /\ UNCHANGED <<note, queue, notDue>>

SetItem(status, attempts) ==
  queue' = [queue EXCEPT ![worker.d].status = status, ![worker.d].attempts = attempts]

(* A delivery without notification or token, or with an invalid one, ends; *)
(* when its row is gone the write throws, and again in the catch.          *)
WriteFailed ==
  /\ IF Item.status = "none" THEN Work("failed", WorkerIdle) /\ UNCHANGED queue
     ELSE /\ Work("failed", NextItem)
          /\ SetItem("FAILED", IF worker.result = "none" THEN worker.seen ELSE worker.seen + 1)
  /\ UNCHANGED <<note, active, notDue, pushes, tries, cut, cuts>>

\* Mutant: the attempts are counted from one.
Exhausted_Early == worker.seen + 2 >= MaxAttempts

(* Attempts are counted on from those the batch was read with. *)
Exhausted == worker.seen + 1 >= MaxAttempts
Retry == IF Exhausted THEN "DEAD_LETTER" ELSE "RETRYING"

\* Mutant: only the notification is told of a push that was sent.
WriteAnswer_NotSent ==
  /\ Work("answer", IF Item.status = "none" THEN WorkerIdle ELSE [worker EXCEPT !.pc = "note"])
  /\ UNCHANGED <<note, queue, active, notDue, pushes, tries, cut, cuts>>

(* The delivery's status is written; SENT and DEAD_LETTER tell the notification too.*)
WriteAnswer ==
  LET status == IF worker.result = "ok" THEN "SENT" ELSE Retry
  IN  /\ IF Item.status = "none" THEN Work("answer", WorkerIdle) /\ UNCHANGED <<queue, notDue>>
         ELSE /\ Work("answer", IF status = "RETRYING" THEN NextItem
                                ELSE [worker EXCEPT !.pc = "note"])
              /\ SetItem(status, worker.seen + 1)
              /\ notDue' = IF status = "RETRYING" THEN notDue \cup {worker.d} ELSE notDue
      /\ UNCHANGED <<note, active, pushes, tries, cut, cuts>>

WriteNote ==
  LET n == Item.n
  IN  /\ Work("note", IF Exists(n) THEN NextItem ELSE WorkerIdle)
      /\ note' = IF ~Exists(n) THEN note
                 ELSE [note EXCEPT ![n].status =
                                     IF worker.result = "ok" THEN "DELIVERED" ELSE "FAILED"]
      /\ UNCHANGED <<queue, active, notDue, pushes, tries, cut, cuts>>

(* A write that fails after the push is caught, and the delivery is to be  *)
(* tried again even if it was sent.                                        *)
WriteThrows ==
  /\ cuts < MaxCuts /\ worker.pc \in {"answer", "note", "failed"} /\ worker.result # "none"
  /\ Work(worker.pc, [worker EXCEPT !.pc = "catch"])
  /\ cut' = cut \cup {worker.d} /\ cuts' = cuts + 1
  /\ UNCHANGED <<note, queue, active, notDue, pushes, tries>>

Catch ==
  /\ IF Item.status = "none" THEN Work("catch", WorkerIdle) /\ UNCHANGED <<queue, notDue>>
     ELSE /\ Work("catch", NextItem)
          /\ SetItem(Retry, worker.seen + 1)
          /\ notDue' = IF Exhausted THEN notDue ELSE notDue \cup {worker.d}
  /\ UNCHANGED <<note, active, pushes, tries, cut, cuts>>

BackoffEnds(d) ==
  /\ d \in notDue
  /\ notDue' = notDue \ {d}
  /\ UNCHANGED <<note, queue, active, lately, quiet, noteCall, worker, pushes, tries, cut, cuts>>

(* The process restarts: handlers, batch and rate limits are lost. *)
Restart ==
  /\ cuts < MaxCuts /\ cuts' = cuts + 1
  /\ noteCall' = [c \in Dispatchers |-> NoteIdle] /\ lately' = {}
  /\ worker' = WorkerIdle
  /\ cut' = cut \cup {d \in {worker.d} : d # 0 /\ worker.pc # "send"}
  /\ UNCHANGED <<note, queue, active, quiet, notDue, pushes, tries>>

NoteRequest(c) ==
  \/ \E k \in Events : BeginEvent(c, k)
  \/ BeginRelease(c)

NoteStep(c) == FindNote(c) \/ InsertNote(c) \/ FindTokens(c) \/ Enqueue(c) \/ Release(c)

WorkerStep ==
  Tick \/ Pick \/ SendPush \/ WriteFailed \/ WriteAnswer \/ WriteNote \/ Catch

NoteNext ==
  \/ \E c \in Dispatchers : NoteRequest(c) \/ NoteStep(c)
  \/ \E n \in Notes : DeleteNote(n)
  \/ \E t \in PushTokens : SetToken(t)
  \/ \E d \in Deliveries : BackoffEnds(d)
  \/ ToggleQuiet \/ WorkerStep \/ WriteThrows \/ Restart

NoteSpec == NoteInit /\ [][NoteNext]_noteVars

-----------------------------------------------------------------------------
(* A delivery reaches the phone once, and takes at most its attempts,      *)
(* unless a restart, a failed write or a lost answer met it between the    *)
(* push and its record.                                                    *)
PushedOnce == \A d \in Deliveries \ cut : pushes[d] <= 1 /\ tries[d] <= MaxAttempts

(* What is recorded happened, even after interruptions: SENT was accepted  *)
(* by the provider, DEAD_LETTER spent its attempts, and a notification is  *)
(* FAILED only if one of its deliveries spent them.                        *)
RecordIsTrue ==
  /\ \A d \in Deliveries :
       /\ queue[d].status = "SENT" => pushes[d] >= 1
       /\ queue[d].status = "DEAD_LETTER" => tries[d] >= MaxAttempts
  /\ \A n \in Notes : note[n].status = "FAILED" =>
       \E d \in Deliveries : queue[d].n = n /\ queue[d].status = "DEAD_LETTER"
=============================================================================
