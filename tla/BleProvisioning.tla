---------------------------- MODULE BleProvisioning ----------------------------
(***************************************************************************)
(* How a device is given its Wi-Fi: EH-PROV/1 over Bluetooth, between the  *)
(* app's provisioning page and the firmware (eh_prov1.c,                   *)
(* ble_commissioning.c, wifi_manager.c, reset_button.c).  In the firmware  *)
(* the host task handles requests, replies and the link; the events of     *)
(* Wi-Fi and the reset button are tasks beside it.  A page opens on a      *)
(* connection and does not survive it.  The link keeps order, so a request *)
(* arrives whole or breaks off with the link; replies are modelled frame   *)
(* by frame, for they wait in a queue of their own.  A session, its two    *)
(* challenges and the key derived from them go by one number.  The lights  *)
(* of app_lifecycle.c, product data and the flag of a consumed secret,     *)
(* which nothing sets, are left out.                                       *)
(***************************************************************************)
EXTENDS Naturals, Sequences

CONSTANTS
  Phones,      \* phones with the app
  Scanned,      \* those that have scanned the code of this device
  Networks,    \* Wi-Fi networks, each an SSID with its password
  Unfit,       \* those whose SSID is too long for the firmware
  Parts,       \* frames of a reply with a challenge or a proof (3 in the code)
  QueueSize,   \* frames that may wait to be sent (16 in the code)
  MaxHellos    \* bound: sessions begun; they are 1, 2, ...

ASSUME BleAssumption ==
  /\ Scanned \subseteq Phones /\ Unfit \subseteq Networks
  /\ "none" \notin Phones \cup Networks
  /\ Parts \in Nat \ {0} /\ QueueSize \in Nat \ {0}
  /\ MaxHellos \in Nat

VARIABLES
  page,        \* the page of each phone: where it is, and its session
  inbox,       \* frames of the reply it is receiving
  link,        \* the phone connected
  advertising,
  prov,        \* s_state of eh_prov1.c
  hand,        \* s_session: the session, whether it is_authenticated, and session_key
  host,        \* the Wi-Fi credentials the host task is applying
  txQueue,     \* s_tx_queue
  txPosted,    \* s_tx_event is in the event queue
  flash,       \* the SSID and the password in NVS
  station,     \* those in the configuration of the Wi-Fi driver
  wifi,         \* "off", "trying" or "up"
  hellos,      \* sessions begun
  proven,      \* history: the sessions that proved the secret to the device
  taken,       \* history: the credentials stored, with their session
  latest,      \* history: the network last stored
  torn,        \* history: a restart fell between the SSID and the password
  already    \* history: it was online already when it had taken the credentials

pageVars == <<page, inbox>>
txVars == <<txQueue, txPosted>>
wifiVars == <<flash, station, wifi>>
noteVarsBle == <<proven, taken, latest, torn, already>>
bleVars == <<page, inbox, link, advertising, prov, hand, host, txQueue, txPosted, flash, station,
             wifi, hellos, proven, taken, latest, torn, already>>

SessionIds == 0..MaxHellos
Exchanges == {"hello", "auth", "wifi"}
Replies == [kind : Exchanges \cup {"none", "garbled"}, sid : SessionIds, ok : BOOLEAN]
Reply(kind, sid, ok) == [kind |-> kind, sid |-> sid, ok |-> ok]
NoReply == Reply("none", 0, FALSE)
FramesOf(kind) == IF kind = "wifi" THEN 1 ELSE Parts
Frames == [reply : Replies, index : 0..(Parts - 1)]

Pages == [at : Exchanges \cup {"idle", "wait", "done"}, written : BOOLEAN, got : Replies,
          sid : SessionIds, chal : SessionIds, keyed : BOOLEAN, net : Networks \cup {"none"},
          alone : BOOLEAN]
NewPage == [at |-> "idle", written |-> FALSE, got |-> NoReply, sid |-> 0, chal |-> 0,
            keyed |-> FALSE, net |-> "none", alone |-> FALSE]

HostIdle == [at |-> "idle", net |-> "none", sid |-> 0]
Nowhere == [ssid |-> "none", pass |-> "none"]

BleTypeOK ==
  /\ page \in [Phones -> Pages] /\ inbox \in Seq(Frames) /\ Len(inbox) < Parts
  /\ link \in Phones \cup {"none"} /\ advertising \in BOOLEAN
  /\ prov \in {"NEW", "COMMISSIONING", "AUTHENTICATED", "CONNECTING", "ACTIVE", "FAILED"}
  /\ hand \in [sid : SessionIds, authed : BOOLEAN, key : SessionIds]
  /\ host \in [at : {"idle", "ssid", "pass", "start", "end"}, net : Networks \cup {"none"},
               sid : SessionIds]
  /\ txQueue \in Seq(Frames) /\ Len(txQueue) <= QueueSize /\ txPosted \in BOOLEAN
  /\ flash \in [ssid : Networks \cup {"none"}, pass : Networks \cup {"none"}]
  /\ station \in [ssid : Networks \cup {"none"}, pass : Networks \cup {"none"}]
  /\ wifi \in {"off", "trying", "up"}
  /\ hellos \in SessionIds
  /\ proven \in SUBSET SessionIds /\ taken \in SUBSET [sid : SessionIds, net : Networks]
  /\ latest \in Networks \cup {"none"} /\ torn \in BOOLEAN /\ already \in BOOLEAN

BleInit ==
  /\ page = [p \in Phones |-> NewPage] /\ inbox = <<>>
  /\ link = "none" /\ advertising = TRUE
  /\ prov = "NEW" /\ hand = [sid |-> 0, authed |-> FALSE, key |-> 0] /\ host = HostIdle
  /\ txQueue = <<>> /\ txPosted = FALSE
  /\ flash = Nowhere /\ station = Nowhere /\ wifi = "off"
  /\ hellos = 0 /\ proven = {} /\ taken = {} /\ latest = "none"
  /\ torn = FALSE /\ already = FALSE

-------------------------------------------------------------------------------
(* The page: _startProvisioning.                                           *)

Goes(p, w) == page' = [page EXCEPT ![p] = w]

(* An exception ends the run of the page.  If the device is found on the   *)
(* local network the page goes on all the same; the session is forgotten   *)
(* if the link is gone.                                                    *)
RunFails(p) ==
  \E found \in BOOLEAN :
    /\ found => wifi = "up"
    /\ Goes(p, [page[p] EXCEPT !.at = IF found THEN "done" ELSE "idle", !.written = FALSE,
                               !.got = NoReply, !.keyed = page[p].keyed /\ link = p])

(* The user asks for network n: a device that says it is ACTIVE needs      *)
(* nothing (reading its status may fail), a session with a key is used     *)
(* again, or a new one begun.                                              *)
StartProvisioning(p, n) ==
  /\ page[p].at = "idle" /\ link = p
  /\ \/ /\ prov = "ACTIVE"
        /\ Goes(p, [page[p] EXCEPT !.at = "done"])
        /\ UNCHANGED hellos
     \/ /\ page[p].keyed
        /\ Goes(p, [page[p] EXCEPT !.at = "wifi", !.net = n])
        /\ UNCHANGED hellos
     \/ /\ ~page[p].keyed /\ hellos < MaxHellos
        /\ hellos' = hellos + 1
        /\ Goes(p, [NewPage EXCEPT !.at = "hello", !.sid = hellos + 1, !.net = n])
  /\ UNCHANGED <<inbox, link, advertising, prov, hand, host>>
  /\ UNCHANGED txVars /\ UNCHANGED wifiVars /\ UNCHANGED noteVarsBle

\* The proof in the reply is of this page's session, and the page can tell.
Convinced(p) == p \in Scanned /\ page[p].got.sid = page[p].sid /\ page[p].chal = page[p].sid

(* sendAndReceive returns: each step takes any whole reply for its own, by *)
(* its length and kind, and verifies a proof.                              *)
TakeReply(p) ==
  LET w == page[p]  r == w.got
  IN  /\ w.written /\ r # NoReply
      /\ \/ /\ w.at = "hello" /\ r.kind = "hello"
            /\ Goes(p, [w EXCEPT !.at = "auth", !.chal = r.sid, !.written = FALSE,
                                 !.got = NoReply])
         \/ /\ w.at = "auth" /\ r.kind = "auth" /\ Convinced(p)
            /\ Goes(p, [w EXCEPT !.at = "wifi", !.keyed = TRUE, !.written = FALSE,
                                 !.got = NoReply])
         \/ /\ w.at = "wifi" /\ r.kind = "wifi" /\ r.ok
            /\ Goes(p, [w EXCEPT !.at = "wait", !.written = FALSE, !.got = NoReply])
         \/ /\ \/ w.at # r.kind
               \/ w.at = "auth" /\ ~Convinced(p)
               \/ w.at = "wifi" /\ ~r.ok
            /\ RunFails(p)
      /\ UNCHANGED <<inbox, link, advertising, prov, hand, host, hellos>>
      /\ UNCHANGED txVars /\ UNCHANGED wifiVars /\ UNCHANGED noteVarsBle

(* No reply in time.  A frame that is going to be sent is, in time: the    *)
(* page waits 15 seconds and more, the event loop takes one turn a frame.  *)
TimeOut(p) ==
  /\ page[p].at \in Exchanges /\ page[p].written /\ page[p].got = NoReply
  /\ link # p \/ (~txPosted /\ host.at = "idle")
  /\ RunFails(p)
  /\ UNCHANGED <<inbox, link, advertising, prov, hand, host, hellos>>
  /\ UNCHANGED txVars /\ UNCHANGED wifiVars /\ UNCHANGED noteVarsBle

(* With the link gone before a request is written the write fails, or the  *)
(* service finds it gone and goes on as if it had a reply; but it cannot   *)
(* make a proof without a challenge.                                       *)
LinkIsGone(p) ==
  /\ page[p].at \in Exchanges /\ ~page[p].written /\ link # p
  /\ \/ RunFails(p)
     \/ /\ page[p].at = "auth"
        /\ Goes(p, [page[p] EXCEPT !.at = "wifi", !.keyed = TRUE, !.alone = TRUE])
     \/ /\ page[p].at = "wifi"
        /\ Goes(p, [page[p] EXCEPT !.at = "wait", !.alone = TRUE])
  /\ UNCHANGED <<inbox, link, advertising, prov, hand, host, hellos>>
  /\ UNCHANGED txVars /\ UNCHANGED wifiVars /\ UNCHANGED noteVarsBle

(* waitForWifiConnection: until the status characteristic says ACTIVE, or  *)
(* the time is up; without a link at its start it does not wait.           *)
WaitEnds(p) ==
  /\ page[p].at = "wait"
  /\ \/ /\ IF link = p THEN prov = "ACTIVE" ELSE page[p].alone
        /\ Goes(p, [page[p] EXCEPT !.at = "done"])
     \/ RunFails(p)
  /\ UNCHANGED <<inbox, link, advertising, prov, hand, host, hellos>>
  /\ UNCHANGED txVars /\ UNCHANGED wifiVars /\ UNCHANGED noteVarsBle

-------------------------------------------------------------------------------
(* The host task: eh_prov1_handle_message, and the frames of its replies.  *)

Fitting(frames) ==
  IF Len(frames) <= QueueSize THEN frames ELSE SubSeq(frames, 1, QueueSize)

(* gatt_access_cb queues the frames of a reply, as many as there is room   *)
(* for, and posts the event that sends them.                               *)
Queue(r) ==
  /\ txQueue' = Fitting(txQueue \o [i \in 1..FramesOf(r.kind) |->
                                      [reply |-> r, index |-> i - 1]])
  /\ txPosted' = TRUE

Answers(p, r) == Goes(p, [page[p] EXCEPT !.written = TRUE]) /\ Queue(r)

(* An error is the answer to the write itself, and ends the run.           *)
Refuses(p) == RunFails(p) /\ UNCHANGED txVars

Writes(p, exchange) ==
  /\ page[p].at = exchange /\ ~page[p].written /\ link = p /\ host.at = "idle"
  /\ UNCHANGED <<inbox, link, advertising, hellos>> /\ UNCHANGED wifiVars

(* A HELLO is taken in any state.  It replaces the session, but neither    *)
(* is_authenticated nor the key.                                           *)
HandleHello(p) ==
  /\ Writes(p, "hello")
  /\ hand' = [hand EXCEPT !.sid = page[p].sid]
  /\ prov' = "COMMISSIONING"
  /\ Answers(p, Reply("hello", page[p].sid, TRUE))
  /\ UNCHANGED host /\ UNCHANGED noteVarsBle

ProofFits(p) == p \in Scanned /\ page[p].sid = hand.sid /\ page[p].chal = hand.sid

HandleAuth(p) ==
  /\ Writes(p, "auth")
  /\ \/ /\ prov # "COMMISSIONING"
        /\ Refuses(p) /\ UNCHANGED <<prov, hand, proven>>
     \/ /\ prov = "COMMISSIONING" /\ ~ProofFits(p)
        /\ prov' = "FAILED"
        /\ Refuses(p) /\ UNCHANGED <<hand, proven>>
     \/ /\ prov = "COMMISSIONING" /\ ProofFits(p)
        /\ hand' = [hand EXCEPT !.authed = TRUE, !.key = hand.sid]
        /\ prov' = "AUTHENTICATED"
        /\ proven' = proven \cup {hand.sid}
        /\ Answers(p, Reply("auth", hand.sid, TRUE))
  /\ UNCHANGED <<host, taken, latest, torn, already>>

TakesWifi == prov \in {"AUTHENTICATED", "CONNECTING", "FAILED"} /\ hand.authed
Decrypts(p) ==
  p \in Scanned /\ page[p].sid = hand.key /\ page[p].chal = hand.key /\ hand.key = hand.sid

\* Mutant: what the Wi-Fi handler says of the credentials is not looked at.
HandleWifi_Unchecked(p) ==
  /\ Writes(p, "wifi") /\ UNCHANGED hand /\ UNCHANGED noteVarsBle
  /\ \/ /\ ~(TakesWifi /\ Decrypts(p))
        /\ prov' = IF TakesWifi THEN "FAILED" ELSE prov
        /\ Refuses(p) /\ UNCHANGED host
     \/ /\ TakesWifi /\ Decrypts(p) /\ page[p].net \in Unfit
        /\ prov' = "CONNECTING"
        /\ Answers(p, Reply("wifi", hand.sid, TRUE)) /\ UNCHANGED host
     \/ /\ TakesWifi /\ Decrypts(p) /\ page[p].net \notin Unfit
        /\ host' = [at |-> "ssid", net |-> page[p].net, sid |-> hand.sid]
        /\ Goes(p, [page[p] EXCEPT !.written = TRUE])
        /\ UNCHANGED prov /\ UNCHANGED txVars

(* Credentials that decrypt are applied, which takes the steps below; the  *)
(* page's write is answered at the end of them.                            *)
HandleWifi(p) ==
  /\ Writes(p, "wifi") /\ UNCHANGED hand /\ UNCHANGED noteVarsBle
  /\ \/ /\ ~(TakesWifi /\ Decrypts(p))
        /\ prov' = IF TakesWifi THEN "FAILED" ELSE prov
        /\ Refuses(p) /\ UNCHANGED host
     \/ /\ TakesWifi /\ Decrypts(p) /\ page[p].net \in Unfit
        /\ prov' = "FAILED"
        /\ Answers(p, Reply("wifi", hand.sid, FALSE)) /\ UNCHANGED host
     \/ /\ TakesWifi /\ Decrypts(p) /\ page[p].net \notin Unfit
        /\ host' = [at |-> "ssid", net |-> page[p].net, sid |-> hand.sid]
        /\ Goes(p, [page[p] EXCEPT !.written = TRUE])
        /\ UNCHANGED prov /\ UNCHANGED txVars

Applies(from, to) == host.at = from /\ host' = [host EXCEPT !.at = to]

(* wifi_manager_set_credentials writes the SSID and then the password.     *)
StoreSsid ==
  /\ Applies("ssid", "pass")
  /\ flash' = [flash EXCEPT !.ssid = host.net]
  /\ UNCHANGED <<inbox, link, advertising, prov, hand, station, wifi, hellos>>
  /\ UNCHANGED page /\ UNCHANGED txVars /\ UNCHANGED noteVarsBle

StorePass ==
  /\ Applies("pass", "start")
  /\ flash' = [flash EXCEPT !.pass = host.net]
  /\ taken' = taken \cup {[sid |-> host.sid, net |-> host.net]}
  /\ latest' = host.net /\ torn' = FALSE
  /\ UNCHANGED <<page, inbox, link, advertising, prov, hand, station, wifi, hellos, proven,
                 already>>
  /\ UNCHANGED txVars

(* The driver may refuse a configuration while it is connecting, which the *)
(* code does not look at; started already, it goes on as it was, and with  *)
(* the credentials erased meanwhile it is not started.                     *)
StartWifi ==
  /\ Applies("start", "end")
  /\ station' \in {[ssid |-> host.net, pass |-> host.net]}
                    \cup (IF wifi = "trying" THEN {station} ELSE {})
  /\ wifi' = IF wifi = "off" /\ flash.ssid # "none" THEN "trying" ELSE wifi
  /\ UNCHANGED <<page, inbox, link, advertising, prov, hand, flash, hellos>>
  /\ UNCHANGED txVars /\ UNCHANGED noteVarsBle

(* Back in eh_prov1_handle_message, whatever the Wi-Fi has done meanwhile. *)
WifiTaken ==
  /\ host.at = "end" /\ host' = HostIdle
  /\ prov' = "CONNECTING"
  /\ already' = (wifi = "up")
  /\ Queue(Reply("wifi", host.sid, TRUE))
  /\ UNCHANGED <<page, inbox, link, advertising, hand, hellos, proven, taken, latest, torn>>
  /\ UNCHANGED wifiVars

(* The phone joins the frames of a reply, index by index, and hands it to  *)
(* whoever waits for one.                                                  *)
Joined(f) ==
  IF f.index = 0 THEN <<f>>
  ELSE IF inbox # <<>> /\ f.index = Len(inbox)
            /\ FramesOf(f.reply.kind) = FramesOf(inbox[1].reply.kind)
       THEN Append(inbox, f)
       ELSE <<>>
WholeReply(frames) ==
  IF \A i \in 1..Len(frames) : frames[i].reply = frames[1].reply
  THEN frames[1].reply ELSE Reply("garbled", 0, FALSE)

Receive(f) ==
  LET all == Joined(f)
  IN  IF all # <<>> /\ Len(all) = FramesOf(f.reply.kind)
      THEN /\ inbox' = <<>>
           /\ page' = [page EXCEPT ![link].got =
                         IF page[link].at \in Exchanges /\ @ = NoReply THEN WholeReply(all)
                         ELSE @]
      ELSE inbox' = all /\ UNCHANGED page

(* prov_tx_event_cb: one frame a turn.  A frame may be lost; one that gets *)
(* no memory ends the turn without posting the next.                       *)
SendFrame ==
  /\ txPosted /\ host.at = "idle"
  /\ IF txQueue = <<>>
     THEN txPosted' = FALSE /\ UNCHANGED <<txQueue, page, inbox>>
     ELSE /\ txQueue' = Tail(txQueue)
          /\ \/ /\ Receive(Head(txQueue))
                /\ txPosted' = (Tail(txQueue) # <<>>)
             \/ /\ txPosted' \in {FALSE, Tail(txQueue) # <<>>}
                /\ UNCHANGED <<page, inbox>>
  /\ UNCHANGED <<link, advertising, prov, hand, host, hellos>>
  /\ UNCHANGED wifiVars /\ UNCHANGED noteVarsBle

(* gap_event_cb.  A phone that connects opens a new page.                  *)
Connect(p) ==
  /\ link = "none" /\ advertising
  /\ link' = p /\ advertising' = FALSE
  /\ Goes(p, NewPage) /\ inbox' = <<>>
  /\ UNCHANGED <<prov, hand, host, hellos>>
  /\ UNCHANGED txVars /\ UNCHANGED wifiVars /\ UNCHANGED noteVarsBle

Disconnect ==
  /\ link # "none" /\ host.at = "idle"
  /\ link' = "none" /\ advertising' = (prov # "ACTIVE")
  /\ txQueue' = <<>> /\ inbox' = <<>>
  /\ UNCHANGED <<page, prov, hand, host, txPosted, hellos>>
  /\ UNCHANGED wifiVars /\ UNCHANGED noteVarsBle

-------------------------------------------------------------------------------
(* The other tasks.                                                        *)

(* on_wifi_connected: the driver joins the network it is configured for;   *)
(* on_mqtt_connected says the same.                                        *)
WifiConnects ==
  /\ wifi # "off"
  /\ wifi = "trying" => station.ssid = station.pass /\ station # Nowhere
  /\ wifi' = "up" /\ prov' = "ACTIVE"
  /\ UNCHANGED <<page, inbox, link, advertising, hand, host, flash, station, hellos>>
  /\ UNCHANGED txVars /\ UNCHANGED noteVarsBle

(* The network is gone; the event handler tries again for ever.            *)
WifiDrops ==
  /\ wifi = "up" /\ wifi' = "trying"
  /\ UNCHANGED <<page, inbox, link, advertising, prov, hand, host, flash, station, hellos>>
  /\ UNCHANGED txVars /\ UNCHANGED noteVarsBle

(* The reset button erases the credentials, and half a second later        *)
(* restarts the device (Reboot).                                           *)
EraseCredentials ==
  /\ flash' = Nowhere /\ latest' = "none" /\ torn' = FALSE
  /\ UNCHANGED <<page, inbox, link, advertising, prov, hand, host, station, wifi, hellos, proven,
                 taken, already>>
  /\ UNCHANGED txVars

(* The device starts again: with credentials it tries them and leaves      *)
(* Bluetooth off, without it advertises.                                   *)
Reboot ==
  /\ link' = "none" /\ advertising' = (flash.ssid = "none")
  /\ prov' = "NEW" /\ hand' = [sid |-> 0, authed |-> FALSE, key |-> 0] /\ host' = HostIdle
  /\ txQueue' = <<>> /\ txPosted' = FALSE /\ inbox' = <<>>
  /\ station' = IF flash.ssid = "none" THEN Nowhere ELSE flash
  /\ wifi' = IF flash.ssid = "none" THEN "off" ELSE "trying"
  /\ torn' = (torn \/ host.at = "pass") /\ already' = FALSE
  /\ UNCHANGED <<page, flash, hellos, proven, taken, latest>>

PageNext(p) ==
  \/ \E n \in Networks : StartProvisioning(p, n)
  \/ TakeReply(p) \/ TimeOut(p) \/ LinkIsGone(p) \/ WaitEnds(p)
HostNext(p) == HandleHello(p) \/ HandleAuth(p) \/ HandleWifi(p) \/ Connect(p)

BleNext ==
  \/ \E p \in Phones : PageNext(p) \/ HostNext(p)
  \/ StoreSsid \/ StorePass \/ StartWifi \/ WifiTaken \/ SendFrame \/ Disconnect
  \/ WifiConnects \/ WifiDrops \/ EraseCredentials \/ Reboot

BleSpec == BleInit /\ [][BleNext]_bleVars

-------------------------------------------------------------------------------
(* A page that was told its credentials are accepted is told the truth:    *)
(* they were stored in its session, and no earlier reply was taken for     *)
(* theirs.  (Unless the link was gone and it told itself so.)              *)
AckIsTrue ==
  \A p \in Phones :
    LET w == page[p]
    IN  (w.at = "wait" /\ ~w.alone) => [sid |-> w.sid, net |-> w.net] \in taken

(* A page that holds a session's key shares the session with the device,   *)
(* both having proved the secret in it, and the device stores credentials  *)
(* of such a session only.                                                 *)
KeyIsShared ==
  /\ \A p \in Phones : (page[p].keyed /\ ~page[p].alone) => page[p].sid \in proven
  /\ \A t \in taken : t.sid \in proven

(* What is stored is what was last accepted, SSID and password, unless the *)
(* power failed between the two.                                           *)
FlashIsWhole ==
  (flash.ssid # "none" /\ ~torn /\ host.at \notin {"pass"}) =>
    flash.ssid = latest /\ flash.pass = latest

(* A device that is online says so, unless it was online when it took the  *)
(* credentials: then it says CONNECTING as long as the network stays.      *)
OnlineIsTold == (wifi = "up" /\ prov = "CONNECTING") => already

(* Provisioning leaves the page and the device with one account of it.     *)
Provisioned == AckIsTrue /\ KeyIsShared /\ FlashIsWhole /\ OnlineIsTold
=============================================================================
