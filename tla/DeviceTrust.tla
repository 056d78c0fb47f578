------------------------------ MODULE DeviceTrust ------------------------------
(***************************************************************************)
(* How far one device is trusted, and the ledger of its MQTT credentials:  *)
(* DeviceTrustService and DeviceTrustRepository.  Each request reads the   *)
(* state it decides by and writes some awaits later; a rotation begins in  *)
(* one request and is confirmed in another.  Scores, reasons and incidents *)
(* are left out, and so is evaluateTrust, which nothing calls.  The table  *)
(* device_credentials has no column updated_at: an update of its row fails *)
(* and ends the request, without a row it does nothing.                    *)
(***************************************************************************)
EXTENDS Handlers, Sequences, FiniteSetsExt

CONSTANT MaxRotations   \* bound: credentials in the ledger

ASSUME TrustAssumption == MaxRotations \in Nat

VARIABLES
  trust,         \* trust_state of the device, "none" without a row
  ledger,        \* device_credential_lifecycle: the status and generation of each record
  stored,        \* device_credentials has a row of the device
  trustCall,     \* the request each caller is in
  revokedUnder,  \* history: revoked while a request that saw no revocation was to write
  unrevoked,     \* history: some other request than a restoration ended a revocation
  begunTogether, \* history: two rotations were begun at once
  endedTogether, \* history: two rotations were confirmed at once
  revokedOpen,   \* history: records revoked while their confirmation was under way
  revived        \* history: revoked records that were confirmed or rotated after that

trustVars == <<trust, ledger, stored, trustCall, revokedUnder, unrevoked, begunTogether,
               endedTogether, revokedOpen, revived>>

\* The states a request writes of a device; "none" stands for those it has by default.
TrustStates == {"TRUSTED", "QUARANTINED", "FACTORY_RESET", "REVOKED"}
RotationStates == {"ROTATION_PENDING", "CONFIRMED", "ROTATED", "REVOKED"}
TrustPhases == {"idle", "find", "update", "insert", "list", "close", "number", "create",
                "others", "rotate"}

TrustMemo(pc, to, knew, rec, rest) ==
  [pc |-> pc, to |-> to, knew |-> knew, rec |-> rec, rest |-> rest]
TrustIdle == TrustMemo("idle", "none", FALSE, 0, {})

LedgerRows == 1 .. Len(ledger)
Having(status) == {r \in LedgerRows : ledger[r].status = status}

TrustTypeOK ==
  /\ trust \in TrustStates \cup {"none"}
  /\ ledger \in Seq([status : RotationStates, gen : Nat])
  /\ stored \in BOOLEAN
  /\ trustCall \in [Callers -> [pc : TrustPhases, to : TrustStates \cup {"none"},
                                knew : BOOLEAN, rec : Nat, rest : SUBSET Nat]]
  /\ \A c \in Callers :
       /\ trustCall[c].rest \subseteq LedgerRows
       /\ trustCall[c].pc \in {"others", "rotate"} => trustCall[c].rec \in LedgerRows
  /\ revokedUnder \in BOOLEAN /\ unrevoked \in BOOLEAN
  /\ begunTogether \in BOOLEAN /\ endedTogether \in BOOLEAN
  /\ revokedOpen \subseteq LedgerRows /\ revived \subseteq LedgerRows

TrustInit ==
  /\ trust = "none" /\ ledger = <<>> /\ stored \in BOOLEAN
  /\ trustCall = [c \in Callers |-> TrustIdle]
  /\ revokedUnder = FALSE /\ unrevoked = FALSE
  /\ begunTogether = FALSE /\ endedTogether = FALSE
  /\ revokedOpen = {} /\ revived = {}

TrustGoes(c, from, m) ==
  /\ trustCall[c].pc = from
  /\ trustCall' = [trustCall EXCEPT ![c] = m]
  /\ UNCHANGED stored

TrustRests == UNCHANGED <<trust, revokedUnder, unrevoked>>
LedgerRests == UNCHANGED <<ledger, begunTogether, endedTogether, revokedOpen, revived>>

-----------------------------------------------------------------------------
(* Trust.                                                                  *)

BeginQuarantine(c) ==
  /\ trust # "REVOKED"
  /\ TrustGoes(c, "idle", TrustMemo("find", "QUARANTINED", FALSE, 0, {}))
  /\ TrustRests /\ LedgerRests

\* Mutant: a factory reset does not look at the state the device is in.
BeginReset_Blind(c) ==
  /\ TrustGoes(c, "idle", TrustMemo("find", "FACTORY_RESET", FALSE, 0, {}))
  /\ TrustRests /\ LedgerRests

(* reconcileFactoryReset leaves a revoked device as it is. *)
BeginReset(c) ==
  /\ trust # "REVOKED"
  /\ TrustGoes(c, "idle", TrustMemo("find", "FACTORY_RESET", FALSE, 0, {}))
  /\ TrustRests /\ LedgerRests

BeginRevocation(c) ==
  /\ TrustGoes(c, "idle", TrustMemo("find", "REVOKED", FALSE, 0, {}))
  /\ TrustRests /\ LedgerRests

(* restoreTrust wants an attestation for a revoked device, whatever the    *)
(* revocation says of remediation; knew: it saw the revocation.            *)
BeginRestore(c) ==
  \E attested \in BOOLEAN :
    /\ trust = "REVOKED" => attested
    /\ TrustGoes(c, "idle", TrustMemo("find", "TRUSTED", trust = "REVOKED", 0, {}))
    /\ TrustRests /\ LedgerRests

(* upsertTrustState looks for a row, then updates it or inserts one. *)
FindTrust(c) ==
  /\ TrustGoes(c, "find", [trustCall[c] EXCEPT !.pc = IF trust = "none" THEN "insert"
                                                      ELSE "update"])
  /\ TrustRests /\ LedgerRests

(* A request that is to write a state without knowing of a revocation. *)
IsBlind(m) == m.pc \in {"find", "update", "insert"} /\ m.to # "REVOKED" /\ ~m.knew

(* The row is written, unless an insert finds one; after a revocation the  *)
(* ledger is next, if the authoritative credential let the request go on.  *)
WriteTrust(c) ==
  LET m == trustCall[c]
      ok == m.pc = "update" \/ trust = "none"
  IN  /\ m.pc \in {"update", "insert"}
      /\ TrustGoes(c, m.pc, IF ok /\ m.to = "REVOKED" /\ ~stored THEN [m EXCEPT !.pc = "list"]
                            ELSE TrustIdle)
      /\ trust' = IF ok THEN m.to ELSE trust
      /\ revokedUnder' = (revokedUnder \/ (ok /\ m.to = "REVOKED"
                                              /\ \E d \in Callers : IsBlind(trustCall[d])))
      /\ unrevoked' = (unrevoked \/ (ok /\ trust = "REVOKED" /\ IsBlind(m)))
      /\ LedgerRests

(* revokeDevice lists the records and revokes one after another. *)
ListLedger(c) ==
  /\ TrustGoes(c, "list", [trustCall[c] EXCEPT !.pc = "close",
                             !.rest = Having("CONFIRMED") \cup Having("ROTATION_PENDING")])
  /\ TrustRests /\ LedgerRests

RevokeRecord(c) ==
  LET m == trustCall[c]
  IN  /\ m.pc = "close" /\ m.rest # {}
      /\ \E r \in m.rest :
           /\ TrustGoes(c, "close", [m EXCEPT !.rest = @ \ {r}])
           /\ ledger' = [ledger EXCEPT ![r].status = "REVOKED"]
           /\ revokedOpen' = IF \E d \in Callers : \/ trustCall[d].pc \in {"others", "rotate"}
                                                     /\ r = trustCall[d].rec
                                                   \/ trustCall[d].pc = "rotate"
                                                     /\ r \in trustCall[d].rest
                             THEN revokedOpen \cup {r} ELSE revokedOpen
      /\ TrustRests /\ UNCHANGED <<begunTogether, endedTogether, revived>>

RevokeEnds(c) ==
  /\ trustCall[c].rest = {}
  /\ TrustGoes(c, "close", TrustIdle)
  /\ TrustRests /\ LedgerRests

-----------------------------------------------------------------------------
(* Rotation of the credentials.                                            *)

Rotating(m) == m.pc \in {"number", "create"}
Confirming(m) == m.pc \in {"others", "rotate"}

(* initiateCredentialRotation goes on when no rotation is pending, of a    *)
(* revoked device too; otherwise it answers with the pending one.          *)
BeginRotation(c) ==
  /\ Having("ROTATION_PENDING") = {}
  /\ Len(ledger) < MaxRotations
  /\ TrustGoes(c, "idle", TrustMemo("number", "none", FALSE, 0, {}))
  /\ begunTogether' = (begunTogether \/ \E d \in Callers : Rotating(trustCall[d]))
  /\ TrustRests /\ UNCHANGED <<ledger, endedTogether, revokedOpen, revived>>

NextGeneration == Max({0} \cup {ledger[r].gen : r \in LedgerRows}) + 1

NumberRotation(c) ==
  /\ TrustGoes(c, "number", [trustCall[c] EXCEPT !.pc = "create", !.rec = NextGeneration])
  /\ TrustRests /\ LedgerRests

CreateRotation(c) ==
  /\ Len(ledger) < MaxRotations
  /\ TrustGoes(c, "create", TrustIdle)
  /\ ledger' = Append(ledger, [status |-> "ROTATION_PENDING", gen |-> trustCall[c].rec])
  /\ TrustRests /\ UNCHANGED <<begunTogether, endedTogether, revokedOpen, revived>>

BeginConfirmation(c) ==
  \E r \in Having("ROTATION_PENDING") :
    /\ TrustGoes(c, "idle", TrustMemo("others", "none", FALSE, r, {}))
    /\ endedTogether' = (endedTogether \/ \E d \in Callers : Confirming(trustCall[d]))
    /\ TrustRests /\ UNCHANGED <<ledger, begunTogether, revokedOpen, revived>>

(* confirmCredentialRotation lists the confirmed records and turns one     *)
(* after another ROTATED, then its own CONFIRMED; that the row of          *)
(* device_credentials cannot be written ends the request after that.       *)
ListOthers(c) ==
  LET m == trustCall[c]
  IN  /\ TrustGoes(c, "others", [m EXCEPT !.pc = "rotate", !.rest = Having("CONFIRMED") \ {m.rec}])
      /\ TrustRests /\ LedgerRests

(* Record r becomes status; a revoked one is revived. *)
WriteRecord(r, status) ==
  /\ ledger' = [ledger EXCEPT ![r].status = status]
  /\ revived' = IF ledger[r].status = "REVOKED" THEN revived \cup {r} ELSE revived
  /\ TrustRests /\ UNCHANGED <<begunTogether, endedTogether, revokedOpen>>

RotateOther(c) ==
  LET m == trustCall[c]
  IN  \E r \in m.rest :
        /\ TrustGoes(c, "rotate", [m EXCEPT !.rest = @ \ {r}])
        /\ WriteRecord(r, "ROTATED")

ConfirmRecord(c) ==
  /\ trustCall[c].rest = {}
  /\ TrustGoes(c, "rotate", TrustIdle)
  /\ WriteRecord(trustCall[c].rec, "CONFIRMED")

TrustRequest(c) ==
  BeginQuarantine(c) \/ BeginReset(c) \/ BeginRevocation(c) \/ BeginRestore(c) \/ FindTrust(c)
  \/ WriteTrust(c) \/ ListLedger(c) \/ RevokeRecord(c) \/ RevokeEnds(c)

RotationRequest(c) ==
  BeginRotation(c) \/ NumberRotation(c) \/ CreateRotation(c) \/ BeginConfirmation(c)
  \/ ListOthers(c) \/ RotateOther(c) \/ ConfirmRecord(c)

(* The process restarts or a statement fails, and the request ends there.  *)
CutTrust(c) ==
  /\ trustCall[c].pc # "idle"
  /\ TrustGoes(c, trustCall[c].pc, TrustIdle)
  /\ TrustRests /\ LedgerRests

TrustNext == \E c \in Callers : TrustRequest(c) \/ RotationRequest(c) \/ CutTrust(c)

TrustSpec == TrustInit /\ [][TrustNext]_trustVars

-----------------------------------------------------------------------------
(* Only a restoration that saw the revocation ends it, unless the device   *)
(* was revoked while another request had yet to write the state it chose.  *)
RevokedStays == unrevoked => revokedUnder

(* At most one rotation is pending, and no two records have a generation,  *)
(* unless two rotations were begun at once.                                *)
OnePending ==
  \/ begunTogether
  \/ /\ \A r, s \in Having("ROTATION_PENDING") : r = s
     /\ \A r, s \in LedgerRows : ledger[r].gen = ledger[s].gen => r = s

(* At most one credential is confirmed, unless two rotations were          *)
(* confirmed at once.                                                      *)
OneConfirmed == endedTogether \/ \A r, s \in Having("CONFIRMED") : r = s

(* A record that was revoked stays so, unless a confirmation that was to   *)
(* write it had begun before.                                              *)
RevokedRecordStays == revived \subseteq revokedOpen

(* What is decided of a device's trust and credentials holds: revocation   *)
(* is final until it is undone on purpose, and one credential is in force. *)
TrustKept == RevokedStays /\ OnePending /\ OneConfirmed /\ RevokedRecordStays
=============================================================================
