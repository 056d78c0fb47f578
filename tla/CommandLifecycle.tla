--------------------------- MODULE CommandLifecycle ---------------------------
(***************************************************************************)
(* What the command pipeline promises about one command, whoever sends it, *)
(* whatever is lost or sent twice and whichever process dies: it is stored *)
(* before it is committed for dispatch, committed before it is dispatched, *)
(* dispatched once, told only after that, and the status the clients are   *)
(* shown is CREATED or something the device did tell.                      *)
(***************************************************************************)
CONSTANTS Requests, Commands, CommandOf, Verdicts

VARIABLES
    shown,       \* the status a client reads: "absent", "CREATED", a verdict
    committed,   \* commands whose outbox row is stored
    dispatched,  \* requests whose command was handed to the broker
    told         \* <<command, verdict>> receipts the device has published

lifecycleVars == <<shown, committed, dispatched, told>>

Init ==
    /\ shown = [c \in Commands |-> "absent"]
    /\ committed = {}
    /\ dispatched = {}
    /\ told = {}

Store(c) ==
    /\ shown[c] = "absent"
    /\ shown' = [shown EXCEPT ![c] = "CREATED"]
    /\ UNCHANGED <<committed, dispatched, told>>

Commit(c) ==
    /\ shown[c] # "absent"
    /\ c \notin committed
    /\ committed' = committed \union {c}
    /\ UNCHANGED <<shown, dispatched, told>>

Dispatch(r) ==
    /\ CommandOf[r] \in committed
    /\ \A q \in dispatched : CommandOf[q] # CommandOf[r]
    /\ dispatched' = dispatched \union {r}
    /\ UNCHANGED <<shown, committed, told>>

Tell(r, v) ==
    /\ r \in dispatched
    /\ told' = told \union {<<CommandOf[r], v>>}
    /\ UNCHANGED <<shown, committed, dispatched>>

Learn(c, v) ==
    /\ <<c, v>> \in told
    /\ shown' = [shown EXCEPT ![c] = v]
    /\ UNCHANGED <<committed, dispatched, told>>

Next ==
    \/ \E c \in Commands :
          Store(c) \/ Commit(c) \/ \E v \in Verdicts : Learn(c, v)
    \/ \E r \in Requests :
          Dispatch(r) \/ \E v \in Verdicts : Tell(r, v)

Spec == Init /\ [][Next]_lifecycleVars
=============================================================================
