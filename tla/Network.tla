------------------------------ MODULE Network ------------------------------
(***************************************************************************)
(* The network layer (main/myNetwork.cpp) and the WiFi interfaces below it *)
(* (main/myWIFI.cpp): consumers ask for the access point or for a station, *)
(* and every change of the requests, and every networkUpdate, starts or    *)
(* stops what the requests call for.                                       *)
(*                                                                         *)
(* The layer is a record, and a call is the set of records it may leave    *)
(* behind, because starting an interface and setting the mode of the radio *)
(* may fail.  NETWORK_ANY and NETWORK_WIFI_STATION ask for the same        *)
(* interface and are one set of consumers.  The driver (linked, events) is *)
(* external: it loses and finds its network by itself and reports it       *)
(* later, in order, to the event task.                                     *)
(***************************************************************************)
EXTENDS Integers, Sequences

CONSTANTS NetworkSaved  (* wifiNetworkCount() > 0                           *)

ASSUME NetworkSavedAssumption == NetworkSaved \in BOOLEAN

Consumers == {"web", "other"}

(* What the layer knows, and what the driver has reported:                  *)
(*   softAp, station, users     gSoftApConsumers, gAnyConsumers, gUsers     *)
(*   apRunning, staRunning      wifiSoftApRunning, wifiStationRunning       *)
(*   staOnline                  wifiStationOnline                           *)
(*   linked                     WiFi.status() == WL_CONNECTED               *)
(*   events                     the reports that nobody has handled yet     *)
Networks == [softAp : SUBSET Consumers, station : SUBSET Consumers,
             users : SUBSET Consumers, apRunning : BOOLEAN, staRunning : BOOLEAN,
             staOnline : BOOLEAN, linked : BOOLEAN, events : Seq({"up", "down"})]

(* networkBegin.                                                            *)
NoNetwork == [softAp |-> {}, station |-> {}, users |-> {}, apRunning |-> FALSE,
              staRunning |-> FALSE, staOnline |-> FALSE, linked |-> FALSE, events |-> <<>>]

-----------------------------------------------------------------------------
(* RTK_WIFI.                                                                *)

Report(n, event) == [n EXCEPT !.linked = (event = "up"), !.events = Append(@, event)]

softApStart(n) == [n EXCEPT !.apRunning = TRUE]
softApStop(n) == [n EXCEPT !.apRunning = FALSE]

stationStarted(n) == [Report(n, "up") EXCEPT !.staRunning = TRUE, !.staOnline = TRUE]
stationNotStarted(n) == [n EXCEPT !.staRunning = FALSE, !.staOnline = FALSE]
stationStart(n) ==
    {stationNotStarted(n)} \union (IF NetworkSaved THEN {stationStarted(n)} ELSE {})

stationStop(n) == stationNotStarted(IF n.linked THEN Report(n, "down") ELSE n)

refreshOnlineFlags(n) == [n EXCEPT !.staOnline = n.staRunning /\ n.linked]

(* What need not run is stopped; then the mode is set, which may fail; then *)
(* what is not running yet is started, which may fail too.                  *)
enable(n, ap, sta) ==
    LET less == IF ~sta /\ n.staRunning THEN stationStop(n) ELSE n
        set == IF ~ap /\ less.apRunning THEN softApStop(less) ELSE less
        aps == IF ap /\ ~set.apRunning THEN {set, softApStart(set)} ELSE {set}
        stas == UNION {IF sta /\ ~x.staRunning THEN stationStart(x) ELSE {x} : x \in aps}
    IN  {refreshOnlineFlags(x) : x \in {set} \union stas}

(* eventHandler.                                                            *)
Handled(n) == [n EXCEPT !.staOnline = (Head(n.events) = "up"), !.events = Tail(@)]

-----------------------------------------------------------------------------
(* The network layer.                                                       *)

StartSoftAp(n) ==
    IF n.softAp # {} /\ ~n.apRunning THEN enable(n, TRUE, n.staRunning) ELSE {n}

StartStation(n) ==
    IF n.station # {} /\ ~n.staOnline /\ NetworkSaved
      THEN enable(n, n.apRunning, TRUE) ELSE {n}

(* Slip: the station is kept for as long as the access point is on.         *)
StopStationAfterAp(n) ==
    IF n.station = {} /\ n.staOnline /\ ~n.apRunning
      THEN enable(n, n.apRunning, FALSE) ELSE {n}

(* Only a station that is online is stopped.                                *)
StopStation(n) ==
    IF n.station = {} /\ n.staOnline THEN enable(n, n.apRunning, FALSE) ELSE {n}

StopSoftAp(n) ==
    IF n.softAp = {} /\ n.apRunning THEN enable(n, FALSE, n.staRunning) ELSE {n}

applyRequestedNetworkState(n) ==
    UNION {UNION {UNION {StopSoftAp(c) : c \in StopStation(b)}
                    : b \in StartStation(a)} : a \in StartSoftAp(n)}

ConsumerAdd(n, c) == applyRequestedNetworkState([n EXCEPT !.station = @ \union {c}])
SoftApConsumerAdd(n, c) == applyRequestedNetworkState([n EXCEPT !.softAp = @ \union {c}])

ConsumerRemove(n, c) ==
    applyRequestedNetworkState([n EXCEPT !.station = @ \ {c}, !.users = @ \ {c}])
SoftApConsumerRemove(n, c) ==
    applyRequestedNetworkState([n EXCEPT !.softAp = @ \ {c}, !.users = @ \ {c}])

UserAdd(n, c) == [n EXCEPT !.users = @ \union {c}]
UserRemove(n, c) == [n EXCEPT !.users = @ \ {c}]

ConsumerIsConnected(n, c) ==
    \/ c \in n.softAp /\ n.apRunning
    \/ c \in n.station /\ n.staOnline
=============================================================================
