--------------------------- MODULE CommandPipeline ---------------------------
(***************************************************************************)
(* The backend's command service and the firmware's command handler,       *)
(* joined by the broker's two topics.                                      *)
(***************************************************************************)
EXTENDS CommandService, DeviceCommands

pipelineVars == <<serviceVars, deviceVars, wireVars>>

PipelineInit == WireInit /\ ServiceInit /\ DeviceInit

PipelineNext ==
    \/ ServiceNext /\ UNCHANGED deviceVars
    \/ DeviceNext /\ UNCHANGED serviceVars
    \/ WireNext /\ UNCHANGED <<serviceVars, deviceVars>>

PipelineSpec == PipelineInit /\ [][PipelineNext]_pipelineVars

\* The firmware's MQTT task runs, the backend's event loop runs the requests and
\* the receipt callback.
PipelineFairness ==
    /\ WF_pipelineVars(MqttTask /\ UNCHANGED serviceVars)
    /\ \A r \in Requests : WF_pipelineVars(Progress(r) /\ UNCHANGED deviceVars)
    /\ \A x \in Receipts :
          WF_pipelineVars(HandleReceipt(x[1], x[2]) /\ UNCHANGED deviceVars)

FairPipelineSpec == PipelineSpec /\ PipelineFairness

-----------------------------------------------------------------------------

\* The pipeline is a service in front of a device, as CommandService assumes,
\* so what is proved of CommandService's Spec holds of it.
ImplementsService == Spec

\* The pipeline keeps the promises of CommandLifecycle (for clients that make
\* one commandId for each key).
Lifecycle == INSTANCE CommandLifecycle WITH
    Verdicts <- ReceiptStatus,
    shown <- status,
    committed <- outbox,
    dispatched <- published,
    told <- sent

LifecycleSpec == Lifecycle!Spec

\* A command is EXPIRED in the database only if a request for it did expire, or
\* the device judged it by a clock that did not show the backend's time: a device
\* that does not know the time finds nothing expired.
ExpiredStatusIsTrue ==
    \A c \in Commands : status[c] = "EXPIRED" =>
        c \in misjudged \/ \E r \in expired : CommandOf[r] = c

\* The device was made to act on a key only after the backend stored it.
ActedIsStored ==
    \A k \in Keys : acts[k] > 0 =>
        \E c \in Commands : Exists(c) /\ KeyOf[row[c]] = k

\* APPLIED in the database means that the device dispatched the command's key.
AppliedWasDispatched ==
    \A c \in Commands : status[c] = "APPLIED" =>
        \E r \in Requests : CommandOf[r] = c /\ acts[KeyOf[r]] > 0

\* A command has one verdict: it is not reported both APPLIED and FAILED.
DeterministicReceipt ==
    \A c \in Commands : ~(<<c, "APPLIED">> \in sent /\ <<c, "FAILED">> \in sent)

\* A well-formed command the broker has for a live device is eventually given
\* a final status, when nothing is lost and nobody crashes.
DeliveredIsAnswered ==
    \A r \in Requests :
        (Parses(r) /\ Exists(CommandOf[r]) /\ \E i \in DOMAIN toDevice : toDevice[i] = r)
            ~> (status[CommandOf[r]] # "CREATED")
=============================================================================
