----------------------------- MODULE WebProofs -----------------------------
(***************************************************************************)
(* What the web server does and stores, for any number of sockets, starts  *)
(* and waiting reports of the driver, and for any profiles, boundary and   *)
(* firmware requests: first WebServer, then WebUpload.                     *)
(***************************************************************************)
EXTENDS WebServer, WebUpload, SequenceTheorems, FiniteSetTheorems, TLAPS

(***************************************************************************)
(* The network layer.                                                      *)
(***************************************************************************)

(* What a call of the network layer leaves alone: the requests; and how     *)
(* many reports of the driver it may add.                                   *)
Follows(m, n, k) ==
    /\ m \in Networks
    /\ m.softAp = n.softAp /\ m.station = n.station /\ m.users = n.users
    /\ Len(m.events) <= Len(n.events) + k

(* The number of reports is one.                                            *)
LEMMA EventsCounted ==
    ASSUME NEW n \in Networks
    PROVE  Len(n.events) \in Nat
  BY DEF Networks

(* The driver reports once.                                                 *)
LEMMA ReportStep ==
    ASSUME NEW n \in Networks, NEW event \in {"up", "down"}
    PROVE  /\ Report(n, event) \in Networks
           /\ Follows(Report(n, event), n, 1)
  <1> DEFINE events == Append(n.events, event)
  <1>1. /\ n.events \in Seq({"up", "down"})
        /\ events \in Seq({"up", "down"}) /\ Len(events) = Len(n.events) + 1
    BY DEF Networks
  <1>2. (event = "up") \in BOOLEAN
    OBVIOUS
  <1>3. Report(n, event) = [n EXCEPT !.linked = (event = "up"), !.events = events]
    BY DEF Report
  <1> HIDE DEF events
  <1>4. Report(n, event) \in Networks /\ Report(n, event).events = events
    BY <1>1, <1>2, <1>3 DEF Networks
  <1> QED BY <1>1, <1>3, <1>4 DEF Follows, Networks

(* A station that is started reports once, or fails.                        *)
LEMMA StationStartStep ==
    ASSUME NEW n \in Networks, NEW m \in stationStart(n)
    PROVE  Follows(m, n, 1)
  <1>1. CASE m = stationNotStarted(n)
    <2>1. /\ m \in Networks /\ m.events = n.events
          /\ m.softAp = n.softAp /\ m.station = n.station /\ m.users = n.users
      BY <1>1 DEF stationNotStarted, Networks
    <2> QED BY <2>1, EventsCounted DEF Follows
  <1>2. CASE m = stationStarted(n)
    <2>1. Follows(Report(n, "up"), n, 1)
      BY ReportStep
    <2> DEFINE r == Report(n, "up")
    <2>2. m = [r EXCEPT !.staRunning = TRUE, !.staOnline = TRUE]
      BY <1>2 DEF stationStarted
    <2> HIDE DEF r
    <2> QED BY <2>1, <2>2 DEF Follows, Networks, r
  <1> QED BY <1>1, <1>2 DEF stationStart

(* A station that is stopped reports once if it was linked.                 *)
LEMMA StationStopStep ==
    ASSUME NEW n \in Networks
    PROVE  /\ Follows(stationStop(n), n, 1)
           /\ ~stationStop(n).staRunning
  <1> DEFINE r == IF n.linked THEN Report(n, "down") ELSE n
  <1>1. Follows(r, n, 1)
    <2>1. Follows(Report(n, "down"), n, 1)
      BY ReportStep
    <2>2. Follows(n, n, 1)
      BY EventsCounted DEF Follows
    <2> QED BY <2>1, <2>2
  <1>2. stationStop(n) = [r EXCEPT !.staRunning = FALSE, !.staOnline = FALSE]
    BY DEF stationStop, stationNotStarted
  <1> HIDE DEF r
  <1> QED BY <1>1, <1>2 DEF Follows, Networks

(* Setting the interfaces starts or stops the station at most once, and not *)
(* at all when it is to stay as it is.                                      *)
LEMMA EnableStep ==
    ASSUME NEW n \in Networks, NEW ap \in BOOLEAN, NEW sta \in BOOLEAN,
           NEW m \in enable(n, ap, sta)
    PROVE  /\ Follows(m, n, 1)
           /\ sta = n.staRunning => Follows(m, n, 0)
  <1> DEFINE k == IF sta = n.staRunning THEN 0 ELSE 1
             l == IF sta THEN 0 ELSE k
             less == IF ~sta /\ n.staRunning THEN stationStop(n) ELSE n
             set == IF ~ap /\ less.apRunning THEN softApStop(less) ELSE less
             aps == IF ap /\ ~set.apRunning THEN {set, softApStart(set)} ELSE {set}
             stas == UNION {IF sta /\ ~x.staRunning THEN stationStart(x) ELSE {x} : x \in aps}
  <1>1. Len(n.events) \in Nat /\ n.staRunning \in BOOLEAN
    BY EventsCounted DEF Networks
  <1>2. /\ k \in {0, 1} /\ l \in {0, 1} /\ l <= k
        /\ sta /\ ~n.staRunning => l = 0 /\ k = 1
        /\ ~sta /\ n.staRunning => l = 1
        /\ sta = n.staRunning => k = 0
    BY <1>1
  <1>3. Follows(less, n, l) /\ (sta => less.staRunning = n.staRunning)
    <2>1. CASE ~sta /\ n.staRunning
      <3>1. less = stationStop(n)
        BY <2>1
      <3> HIDE DEF less, k, l
      <3> QED BY <1>2, <2>1, <3>1, StationStopStep
    <2>2. CASE ~(~sta /\ n.staRunning)
      <3>1. less = n
        BY <2>2
      <3> HIDE DEF less, k, l
      <3> QED BY <1>1, <1>2, <3>1 DEF Follows
    <2> QED BY <2>1, <2>2
  <1>4. Follows(set, n, l) /\ (sta => set.staRunning = n.staRunning)
    <2>1. set \in {less, softApStop(less)}
      OBVIOUS
    <2> HIDE DEF set, less, k, l
    <2>2. CASE set = less
      BY <1>3, <2>2
    <2>3. CASE set = [less EXCEPT !.apRunning = FALSE]
      BY <1>3, <2>3 DEF Follows, Networks
    <2> QED BY <2>1, <2>2, <2>3 DEF softApStop
  <1>5. \A x \in aps : Follows(x, n, l) /\ (sta => x.staRunning = n.staRunning)
    <2> TAKE x \in aps
    <2>1. x \in {set, softApStart(set)}
      OBVIOUS
    <2> HIDE DEF set, less, aps, stas, k, l
    <2>2. CASE x = set
      BY <1>4, <2>2
    <2>3. CASE x = [set EXCEPT !.apRunning = TRUE]
      BY <1>4, <2>3 DEF Follows, Networks
    <2> QED BY <2>1, <2>2, <2>3 DEF softApStart
  <1>6. \A y \in stas : Follows(y, n, k)
    <2> SUFFICES ASSUME NEW x \in aps,
                        NEW y \in IF sta /\ ~x.staRunning THEN stationStart(x) ELSE {x}
                 PROVE  Follows(y, n, k)
      OBVIOUS
    <2> HIDE DEF aps, less, set, stas, k, l
    <2>1. Follows(x, n, l) /\ (sta => x.staRunning = n.staRunning)
      BY <1>5
    <2>2. x \in Networks /\ Len(x.events) \in Nat
      BY <2>1, EventsCounted DEF Follows
    <2>3. CASE sta /\ ~x.staRunning
      <3>1. Follows(y, x, 1)
        BY <2>2, <2>3, StationStartStep
      <3>2. l = 0 /\ k = 1
        BY <1>2, <2>1, <2>3
      <3>3. Len(y.events) \in Nat
        BY <3>1, EventsCounted DEF Follows
      <3> QED BY <1>1, <2>1, <2>2, <3>1, <3>2, <3>3 DEF Follows
    <2>4. CASE ~(sta /\ ~x.staRunning)
      BY <1>1, <1>2, <2>1, <2>2, <2>4 DEF Follows
    <2> QED BY <2>3, <2>4
  <1>7. PICK y \in {set} \union stas : m = refreshOnlineFlags(y)
    BY DEF enable
  <1> HIDE DEF k, l, less, set, aps, stas
  <1>8. Follows(y, n, k)
    <2>1. CASE y = set
      <3>1. Len(set.events) \in Nat
        BY <1>4, EventsCounted DEF Follows
      <3> QED BY <1>1, <1>2, <1>4, <2>1, <3>1 DEF Follows
    <2> QED BY <1>6, <1>7, <2>1
  <1>9. Follows(m, n, k)
    <2>1. (y.staRunning /\ y.linked) \in BOOLEAN
      OBVIOUS
    <2> QED BY <1>7, <1>8, <2>1 DEF Follows, Networks, refreshOnlineFlags
  <1>10. Len(m.events) \in Nat
    BY <1>9, EventsCounted DEF Follows
  <1> QED BY <1>1, <1>2, <1>9, <1>10 DEF Follows

(* What a record of the layer may be asked.                                 *)
LEMMA NetworkFlags ==
    ASSUME NEW n \in Networks
    PROVE  /\ n.apRunning \in BOOLEAN /\ n.staRunning \in BOOLEAN
           /\ n.softAp \subseteq Consumers /\ n.station \subseteq Consumers
           /\ n.users \subseteq Consumers
  BY DEF Networks

(* A change of the requests is carried out with at most one report: the     *)
(* station is started or stopped, according to its requests, and the access *)
(* point leaves it alone.                                                   *)
LEMMA ApplyStep ==
    ASSUME NEW n \in Networks, NEW m \in applyRequestedNetworkState(n)
    PROVE  Follows(m, n, 1)
  <1>1. PICK a \in StartSoftAp(n) :
            m \in UNION {UNION {StopSoftAp(c) : c \in StopStation(b)} : b \in StartStation(a)}
    BY DEF applyRequestedNetworkState
  <1>2. PICK b \in StartStation(a) : m \in UNION {StopSoftAp(c) : c \in StopStation(b)}
    BY <1>1
  <1>3. PICK c \in StopStation(b) : m \in StopSoftAp(c)
    BY <1>2
  <1>4. Follows(a, n, 0)
    <2>1. CASE a = n
      BY <2>1, EventsCounted DEF Follows
    <2>2. CASE a \in enable(n, TRUE, n.staRunning)
      <3>1. n.staRunning \in BOOLEAN
        BY NetworkFlags
      <3> QED BY <2>2, <3>1, EnableStep
    <2> QED BY <2>1, <2>2 DEF StartSoftAp
  <1>5. a \in Networks
    BY <1>4 DEF Follows
  <1>6. Follows(b, a, 1) /\ (a.station = {} => Follows(b, a, 0))
    <2>1. CASE b = a
      BY <1>5, <2>1, EventsCounted DEF Follows
    <2>2. CASE a.station # {} /\ b \in enable(a, a.apRunning, TRUE)
      <3>1. a.apRunning \in BOOLEAN
        BY <1>5, NetworkFlags
      <3> QED BY <1>5, <2>2, <3>1, EnableStep
    <2> QED BY <2>1, <2>2 DEF StartStation
  <1>7. b \in Networks
    BY <1>6 DEF Follows
  <1>8. Follows(c, b, 1) /\ (b.station # {} => Follows(c, b, 0))
    <2>1. CASE c = b
      BY <1>7, <2>1, EventsCounted DEF Follows
    <2>2. CASE b.station = {} /\ c \in enable(b, b.apRunning, FALSE)
      <3>1. b.apRunning \in BOOLEAN
        BY <1>7, NetworkFlags
      <3> QED BY <1>7, <2>2, <3>1, EnableStep
    <2> QED BY <2>1, <2>2 DEF StopStation
  <1>9. c \in Networks
    BY <1>8 DEF Follows
  <1>10. Follows(m, c, 0)
    <2>1. CASE m = c
      BY <1>9, <2>1, EventsCounted DEF Follows
    <2>2. CASE m \in enable(c, FALSE, c.staRunning)
      <3>1. c.staRunning \in BOOLEAN
        BY <1>9, NetworkFlags
      <3> QED BY <1>9, <2>2, <3>1, EnableStep
    <2> QED BY <1>3, <2>1, <2>2 DEF StopSoftAp
  <1>11. m \in Networks
    BY <1>10 DEF Follows
  <1>12. /\ Len(n.events) \in Nat /\ Len(a.events) \in Nat /\ Len(b.events) \in Nat
         /\ Len(c.events) \in Nat /\ Len(m.events) \in Nat
    BY <1>5, <1>7, <1>9, <1>11, EventsCounted
  <1>13. b.station = a.station
    BY <1>6 DEF Follows
  <1>14. /\ m.softAp = n.softAp /\ m.station = n.station /\ m.users = n.users
    BY <1>4, <1>6, <1>8, <1>10 DEF Follows
  <1>15. CASE a.station = {}
    <2>1. /\ Len(a.events) <= Len(n.events) + 0 /\ Len(b.events) <= Len(a.events) + 0
          /\ Len(c.events) <= Len(b.events) + 1 /\ Len(m.events) <= Len(c.events) + 0
      BY <1>4, <1>6, <1>8, <1>10, <1>15 DEF Follows
    <2>2. Len(m.events) <= Len(n.events) + 1
      BY <1>12, <2>1
    <2> QED BY <1>11, <1>14, <2>2 DEF Follows
  <1>16. CASE a.station # {}
    <2>1. /\ Len(a.events) <= Len(n.events) + 0 /\ Len(b.events) <= Len(a.events) + 1
          /\ Len(c.events) <= Len(b.events) + 0 /\ Len(m.events) <= Len(c.events) + 0
      BY <1>4, <1>6, <1>8, <1>10, <1>13, <1>16 DEF Follows
    <2>2. Len(m.events) <= Len(n.events) + 1
      BY <1>12, <2>1
    <2> QED BY <1>11, <1>14, <2>2 DEF Follows
  <1> QED BY <1>15, <1>16

(* The four ways in which a consumer comes and goes.                        *)
LEMMA ConsumerSteps ==
    ASSUME NEW n \in Networks, NEW c \in Consumers
    PROVE  /\ \A m \in ConsumerAdd(n, c) :
                /\ m \in Networks /\ Len(m.events) <= Len(n.events) + 1
                /\ m.softAp = n.softAp /\ m.station = n.station \union {c}
                /\ m.users = n.users
           /\ \A m \in SoftApConsumerAdd(n, c) :
                /\ m \in Networks /\ Len(m.events) <= Len(n.events) + 1
                /\ m.softAp = n.softAp \union {c} /\ m.station = n.station
                /\ m.users = n.users
           /\ \A m \in ConsumerRemove(n, c) :
                /\ m \in Networks /\ Len(m.events) <= Len(n.events) + 1
                /\ m.softAp = n.softAp /\ m.station = n.station \ {c}
                /\ m.users = n.users \ {c}
           /\ \A m \in SoftApConsumerRemove(n, c) :
                /\ m \in Networks /\ Len(m.events) <= Len(n.events) + 1
                /\ m.softAp = n.softAp \ {c} /\ m.station = n.station
                /\ m.users = n.users \ {c}
  <1>1. ASSUME NEW m \in ConsumerAdd(n, c)
        PROVE  /\ m \in Networks /\ Len(m.events) <= Len(n.events) + 1
               /\ m.softAp = n.softAp /\ m.station = n.station \union {c}
               /\ m.users = n.users
    <2> DEFINE x == [n EXCEPT !.station = @ \union {c}]
    <2>1. x \in Networks /\ x.events = n.events /\ x.softAp = n.softAp /\ x.users = n.users
          /\ x.station = n.station \union {c}
      BY DEF Networks
    <2>2. m \in applyRequestedNetworkState(x)
      BY DEF ConsumerAdd
    <2> HIDE DEF x
    <2>3. Follows(m, x, 1)
      BY <2>1, <2>2, ApplyStep
    <2> QED BY <2>1, <2>3 DEF Follows
  <1>2. ASSUME NEW m \in SoftApConsumerAdd(n, c)
        PROVE  /\ m \in Networks /\ Len(m.events) <= Len(n.events) + 1
               /\ m.softAp = n.softAp \union {c} /\ m.station = n.station
               /\ m.users = n.users
    <2> DEFINE x == [n EXCEPT !.softAp = @ \union {c}]
    <2>1. x \in Networks /\ x.events = n.events /\ x.station = n.station /\ x.users = n.users
          /\ x.softAp = n.softAp \union {c}
      BY DEF Networks
    <2>2. m \in applyRequestedNetworkState(x)
      BY DEF SoftApConsumerAdd
    <2> HIDE DEF x
    <2>3. Follows(m, x, 1)
      BY <2>1, <2>2, ApplyStep
    <2> QED BY <2>1, <2>3 DEF Follows
  <1>3. ASSUME NEW m \in ConsumerRemove(n, c)
        PROVE  /\ m \in Networks /\ Len(m.events) <= Len(n.events) + 1
               /\ m.softAp = n.softAp /\ m.station = n.station \ {c}
               /\ m.users = n.users \ {c}
    <2> DEFINE x == [n EXCEPT !.station = @ \ {c}, !.users = @ \ {c}]
    <2>1. x \in Networks /\ x.events = n.events /\ x.softAp = n.softAp
          /\ x.users = n.users \ {c} /\ x.station = n.station \ {c}
      BY DEF Networks
    <2>2. m \in applyRequestedNetworkState(x)
      BY DEF ConsumerRemove
    <2> HIDE DEF x
    <2>3. Follows(m, x, 1)
      BY <2>1, <2>2, ApplyStep
    <2> QED BY <2>1, <2>3 DEF Follows
  <1>4. ASSUME NEW m \in SoftApConsumerRemove(n, c)
        PROVE  /\ m \in Networks /\ Len(m.events) <= Len(n.events) + 1
               /\ m.softAp = n.softAp \ {c} /\ m.station = n.station
               /\ m.users = n.users \ {c}
    <2> DEFINE x == [n EXCEPT !.softAp = @ \ {c}, !.users = @ \ {c}]
    <2>1. x \in Networks /\ x.events = n.events /\ x.station = n.station
          /\ x.users = n.users \ {c} /\ x.softAp = n.softAp \ {c}
      BY DEF Networks
    <2>2. m \in applyRequestedNetworkState(x)
      BY DEF SoftApConsumerRemove
    <2> HIDE DEF x
    <2>3. Follows(m, x, 1)
      BY <2>1, <2>2, ApplyStep
    <2> QED BY <2>1, <2>3 DEF Follows
  <1> QED BY <1>1, <1>2, <1>3, <1>4

(***************************************************************************)
(* The server.                                                             *)
(***************************************************************************)

(* What the invariant says of the records of the network that a step may    *)
(* leave, given the server's state and the place of the main task.          *)
NetworkFits(n, w, at) ==
    /\ n \in Networks
    /\ Len(n.events) <= MaxEvents + 4
    /\ n.users \subseteq n.softAp \union n.station
    /\ w = "OFF" => "web" \notin n.softAp \union n.station \union n.users
    /\ w # "OFF" => "web" \in n.softAp
    /\ at = "web" => Len(n.events) <= MaxEvents
    /\ w = "OFF" => Len(n.events) <= MaxEvents + 2

(* The rest of the invariant does not look at the network.                  *)
SessionFits ==
    /\ web \in {"OFF", "WAIT_FOR_NETWORK", "NETWORK_CONNECTED", "RUNNING"}
    /\ handle \in BOOLEAN /\ recent \in BOOLEAN /\ dataInterface \in BOOLEAN
    /\ socket \in Sockets \union {None}
    /\ main \in {"network", "web", "send", "interface"} \union Sockets
    /\ http \in {Idle} \union [doing : {"open", "time", "answer", "close"}, socket : Sockets]
    /\ open \subseteq opened /\ opened \subseteq Sockets /\ stations \in BOOLEAN
    /\ openings \in 0 .. MaxOpenings /\ starts \in 0 .. MaxStarts
    /\ handle <=> web = "RUNNING"
    /\ ~handle => socket = None /\ ~recent /\ http = Idle
    /\ SessionsOfPages

(* The two halves are the invariant, before and after a step.               *)
LEMMA InHalves ==
    /\ ServerInv <=> NetworkFits(net, web, main) /\ SessionFits
    /\ ServerInv' <=> NetworkFits(net, web, main)' /\ SessionFits'
  BY DEF ServerInv, ServerMatchesState, TypeOK, ServerOnNetwork, NetworkFits, SessionFits

(* A step that does not touch the network, nor the server's state, and does *)
(* not come to its update, leaves the network's half as it is.              *)
LEMMA NetworkUntouched ==
    ASSUME NetworkFits(net, web, main), net' = net, web' = web,
           main' = main \/ main' # "web"
    PROVE  NetworkFits(net, web, main)'
  BY DEF NetworkFits

(* A start that finds the server off asks for the access point, and for the *)
(* station when it is online.                                               *)
LEMMA StartStep ==
    ASSUME ServerInv, webServerStart
    PROVE  ServerInv'
  <1>1. NetworkFits(net, web, main) /\ SessionFits
    BY InHalves
  <1>2. PICK n \in IF net.staOnline THEN ConsumerAdd(net, "web") ELSE {net} :
            net' \in SoftApConsumerAdd(n, "web")
    BY DEF webServerStart
  <1>3. /\ n \in Networks /\ Len(n.events) <= Len(net.events) + 1
        /\ n.softAp = net.softAp /\ n.users = net.users
        /\ n.station \in {net.station, net.station \union {"web"}}
    <2>1. CASE n = net
      BY <1>1, <2>1, EventsCounted DEF NetworkFits
    <2>2. CASE n \in ConsumerAdd(net, "web")
      <3>1. net \in Networks /\ "web" \in Consumers
        BY <1>1 DEF NetworkFits, Consumers
      <3> QED BY <2>2, <3>1, ConsumerSteps
    <2> QED BY <1>2, <2>1, <2>2
  <1>4. /\ net' \in Networks /\ Len(net'.events) <= Len(n.events) + 1
        /\ net'.softAp = n.softAp \union {"web"} /\ net'.users = n.users
        /\ net'.station = n.station
    <2>1. "web" \in Consumers
      BY DEF Consumers
    <2> QED BY <1>2, <1>3, <2>1, ConsumerSteps
  <1>5. /\ Len(net.events) \in Nat /\ Len(n.events) \in Nat /\ Len(net'.events) \in Nat
        /\ Len(net.events) <= MaxEvents + 2 /\ MaxEvents \in Nat
    BY <1>1, <1>3, <1>4, EventsCounted, WebServerAssumption
       DEF NetworkFits, webServerStart
  <1>6. NetworkFits(net, web, main)'
    <2>1. Len(net'.events) <= MaxEvents + 4
      BY <1>3, <1>4, <1>5
    <2>2. web' = "WAIT_FOR_NETWORK" /\ main' = "network"
      BY DEF webServerStart
    <2>3. net'.users \subseteq net'.softAp \union net'.station
      BY <1>1, <1>3, <1>4 DEF NetworkFits
    <2> QED BY <1>4, <2>1, <2>2, <2>3 DEF NetworkFits
  <1>7. SessionFits'
    <2>1. starts' \in 0 .. MaxStarts
      BY <1>1, WebServerAssumption DEF SessionFits, webServerStart
    <2> QED BY <1>1, <2>1 DEF SessionFits, SessionsOfPages, webServerStart, session, browser, Idle
  <1> QED BY <1>6, <1>7, InHalves

(* The other consumer of the station comes or goes.                         *)
LEMMA OtherConsumerStep ==
    ASSUME ServerInv, OtherConsumer, Len(net.events) < MaxEvents
    PROVE  ServerInv'
  <1>1. NetworkFits(net, web, main) /\ SessionFits
    BY InHalves
  <1>2. net \in Networks /\ "other" \in Consumers
    BY <1>1 DEF NetworkFits, Consumers
  <1>3. /\ net' \in Networks /\ Len(net'.events) <= Len(net.events) + 1
        /\ net'.softAp = net.softAp
        /\ \/ /\ net'.station = net.station \ {"other"}
              /\ net'.users = net.users \ {"other"}
           \/ /\ net'.station = net.station \union {"other"}
              /\ net'.users = net.users
    BY <1>2, ConsumerSteps DEF OtherConsumer
  <1>4. Len(net.events) \in Nat /\ Len(net'.events) \in Nat /\ MaxEvents \in Nat
    BY <1>2, <1>3, EventsCounted, WebServerAssumption
  <1>5. NetworkFits(net, web, main)'
    <2>1. Len(net'.events) <= MaxEvents
      BY <1>3, <1>4
    <2>2. Len(net'.events) <= MaxEvents + 4 /\ Len(net'.events) <= MaxEvents + 2
      BY <1>4, <2>1
    <2>3. web' = web /\ main' = main
      BY DEF OtherConsumer
    <2>4. /\ net'.users \subseteq net'.softAp \union net'.station
          /\ web = "OFF" => "web" \notin net'.softAp \union net'.station \union net'.users
      BY <1>1, <1>3 DEF NetworkFits
    <2> QED BY <1>1, <1>3, <2>1, <2>2, <2>3, <2>4 DEF NetworkFits
  <1>6. SessionFits'
    BY <1>1 DEF SessionFits, SessionsOfPages, OtherConsumer, session, browser, Idle
  <1> QED BY <1>5, <1>6, InHalves

(* The network layer's own update.                                          *)
LEMMA NetworkUpdateStep ==
    ASSUME ServerInv, networkUpdate, Len(net.events) < MaxEvents
    PROVE  ServerInv'
  <1>1. NetworkFits(net, web, main) /\ SessionFits
    BY InHalves
  <1>2. Follows(net', net, 1)
    BY <1>1, ApplyStep DEF NetworkFits, networkUpdate
  <1>3. Len(net.events) \in Nat /\ Len(net'.events) \in Nat /\ MaxEvents \in Nat
    BY <1>1, <1>2, EventsCounted, WebServerAssumption DEF NetworkFits, Follows
  <1>4. NetworkFits(net, web, main)'
    <2>1. Len(net'.events) <= MaxEvents
      BY <1>2, <1>3 DEF Follows
    <2>2. Len(net'.events) <= MaxEvents + 4 /\ Len(net'.events) <= MaxEvents + 2
      BY <1>3, <2>1
    <2>3. web' = web
      BY DEF networkUpdate
    <2> QED BY <1>1, <1>2, <2>1, <2>2, <2>3 DEF NetworkFits, Follows
  <1>5. SessionFits'
    BY <1>1, SocketsAssumption
       DEF SessionFits, SessionsOfPages, networkUpdate, session, browser, Idle
  <1> QED BY <1>4, <1>5, InHalves

(* The server is stopped: it asks for nothing any more, and with the HTTP   *)
(* server goes the session.                                                 *)
LEMMA StopStep ==
    ASSUME ServerInv, webServerUpdate, webServerStop, main' = "interface"
    PROVE  ServerInv'
  <1>1. NetworkFits(net, web, main) /\ SessionFits
    BY InHalves
  <1>2. main = "web" /\ web' = "OFF"
    BY DEF webServerUpdate, webServerStop
  <1> DEFINE u == UserRemove(net, "web")
  <1>3. PICK n \in ConsumerRemove(u, "web") : net' \in SoftApConsumerRemove(n, "web")
    BY DEF webServerStop
  <1>4. /\ u \in Networks /\ u.events = net.events /\ u.softAp = net.softAp
        /\ u.station = net.station /\ u.users = net.users \ {"web"}
    BY <1>1 DEF NetworkFits, UserRemove, Networks
  <1> HIDE DEF u
  <1>5. "web" \in Consumers
    BY DEF Consumers
  <1>6. /\ n \in Networks /\ Len(n.events) <= Len(net.events) + 1
        /\ n.softAp = net.softAp /\ n.station = net.station \ {"web"}
        /\ n.users = net.users \ {"web"}
    BY <1>3, <1>4, <1>5, ConsumerSteps
  <1>7. /\ net' \in Networks /\ Len(net'.events) <= Len(n.events) + 1
        /\ net'.softAp = net.softAp \ {"web"} /\ net'.station = net.station \ {"web"}
        /\ net'.users = net.users \ {"web"}
    BY <1>3, <1>5, <1>6, ConsumerSteps
  <1>8. /\ Len(net.events) \in Nat /\ Len(n.events) \in Nat /\ Len(net'.events) \in Nat
        /\ Len(net.events) <= MaxEvents /\ MaxEvents \in Nat
    BY <1>1, <1>2, <1>6, <1>7, EventsCounted, WebServerAssumption DEF NetworkFits
  <1>9. NetworkFits(net, web, main)'
    <2>1. Len(net'.events) <= MaxEvents + 2
      BY <1>6, <1>7, <1>8
    <2>2. Len(net'.events) <= MaxEvents + 4
      BY <1>8, <2>1
    <2>3. net'.users \subseteq net'.softAp \union net'.station
      BY <1>1, <1>7 DEF NetworkFits
    <2> QED BY <1>2, <1>7, <2>1, <2>2, <2>3 DEF NetworkFits
  <1>10. SessionFits'
    BY <1>1, <1>2, SocketsAssumption
       DEF SessionFits, SessionsOfPages, webServerUpdate, webServerStop, HttpStop, Idle
  <1> QED BY <1>9, <1>10, InHalves

(* webServerUpdate, case by case.                                           *)
LEMMA UpdateStep ==
    ASSUME ServerInv, webServerUpdate
    PROVE  ServerInv'
  <1>1. NetworkFits(net, web, main) /\ SessionFits
    BY InHalves
  <1>2. /\ main = "web"
        /\ UNCHANGED <<dataInterface, http, stations, openings, opened, starts>>
    BY DEF webServerUpdate
  <1>3. CASE Off
    <2>1. NetworkFits(net, web, main)'
      BY <1>1, <1>3, NetworkUntouched DEF Off
    <2>2. SessionFits'
      BY <1>1, <1>2, <1>3, SocketsAssumption
         DEF SessionFits, SessionsOfPages, Off, session, Idle
    <2> QED BY <2>1, <2>2, InHalves
  <1>4. CASE WaitForNetwork
    <2>1. NetworkFits(net, web, main)'
      <3>1. CASE UNCHANGED <<net, web>>
        BY <1>1, <1>4, <3>1, NetworkUntouched DEF WaitForNetwork
      <3>2. CASE net' = UserAdd(net, "web") /\ web' = "NETWORK_CONNECTED"
        <4>1. /\ net' \in Networks /\ net'.events = net.events
              /\ net'.softAp = net.softAp /\ net'.station = net.station
              /\ net'.users = net.users \union {"web"}
          BY <1>1, <3>2 DEF NetworkFits, UserAdd, Networks, Consumers
        <4>2. "web" \in net.softAp /\ main' = "interface"
          BY <1>1, <1>4 DEF NetworkFits, WaitForNetwork
        <4> QED BY <1>1, <3>2, <4>1, <4>2 DEF NetworkFits
      <3> QED BY <1>4, <3>1, <3>2 DEF WaitForNetwork
    <2>2. SessionFits'
      BY <1>1, <1>2, <1>4, SocketsAssumption
         DEF SessionFits, SessionsOfPages, WaitForNetwork, session, Idle
    <2> QED BY <2>1, <2>2, InHalves
  <1>5. CASE HttpStarts
    <2>1. NetworkFits(net, web, main)'
      BY <1>1, <1>5 DEF HttpStarts, NetworkFits
    <2>2. SessionFits'
      BY <1>1, <1>2, <1>5, SocketsAssumption
         DEF SessionFits, SessionsOfPages, HttpStarts, session, Idle
    <2> QED BY <2>1, <2>2, InHalves
  <1>6. CASE NetworkConnected
    <2>1. CASE webServerStop
      <3>1. main' = "interface"
        BY <1>6 DEF NetworkConnected
      <3> QED BY <2>1, <3>1, StopStep
    <2>2. CASE ~webServerStop
      <3>1. NetworkFits(net, web, main)'
        <4>1. CASE UNCHANGED <<net, web>>
          BY <1>1, <1>6, <4>1, NetworkUntouched DEF NetworkConnected
        <4>2. CASE net' = UserRemove(net, "web") /\ web' = "WAIT_FOR_NETWORK"
          <5>1. /\ net' \in Networks /\ net'.events = net.events
                /\ net'.softAp = net.softAp /\ net'.station = net.station
                /\ net'.users = net.users \ {"web"}
            BY <1>1, <4>2 DEF NetworkFits, UserRemove, Networks
          <5>2. "web" \in net.softAp /\ main' = "interface"
            BY <1>1, <1>6 DEF NetworkFits, NetworkConnected
          <5> QED BY <1>1, <4>2, <5>1, <5>2 DEF NetworkFits
        <4> QED BY <1>6, <2>2, <4>1, <4>2 DEF NetworkConnected, RegistrationFails
      <3>2. SessionFits'
        BY <1>1, <1>2, <1>6, <2>2, SocketsAssumption
           DEF SessionFits, SessionsOfPages, NetworkConnected, RegistrationFails, session, Idle
      <3> QED BY <3>1, <3>2, InHalves
    <2> QED BY <2>1, <2>2
  <1>7. CASE Running
    <2>1. NetworkFits(net, web, main)'
      BY <1>1, <1>7 DEF Running, NetworkFits
    <2>2. SessionFits'
      BY <1>1, <1>2, <1>7, SocketsAssumption
         DEF SessionFits, SessionsOfPages, Running, HttpStop, session, Idle
    <2> QED BY <2>1, <2>2, InHalves
  <1> QED BY <1>3, <1>4, <1>5, <1>6, <1>7 DEF webServerUpdate

(* Every other step leaves the network and the server's state alone, so     *)
(* that what is stored of the session is all there is to see to.            *)
LEMMA OtherSteps ==
    ASSUME ServerInv,
           \/ SendSkipped \/ SendBegin \/ Sent \/ DataInterface
           \/ StoreSocket \/ StoreTime \/ Answered \/ Closed
           \/ \E s \in Sockets : PageOpens(s) \/ Frame(s) \/ CloseFrame(s) \/ Vanish(s)
           \/ PageRequest \/ Associate \/ GraceEnds
    PROVE  ServerInv'
  <1>1. NetworkFits(net, web, main) /\ SessionFits
    BY InHalves
  <1>2. ASSUME net' = net, web' = web, main' = main \/ main' # "web", SessionFits'
        PROVE  ServerInv'
    BY <1>1, <1>2, NetworkUntouched, InHalves
  <1>3. CASE SendSkipped
    <2>1. SessionFits'
      BY <1>1, <1>3, SocketsAssumption
         DEF SessionFits, SessionsOfPages, SendSkipped, session, browser, Idle
    <2> QED BY <1>2, <1>3, <2>1 DEF SendSkipped
  <1>4. CASE SendBegin
    <2>1. main' \in Sockets /\ main' # "web"
      BY <1>1, <1>4, SocketsAssumption DEF SessionFits, SendBegin
    <2>2. SessionFits'
      BY <1>1, <1>4, <2>1 DEF SessionFits, SessionsOfPages, SendBegin, session, browser, Idle
    <2> QED BY <1>2, <1>4, <2>1, <2>2 DEF SendBegin
  <1>5. CASE Sent
    <2>1. SessionFits'
      BY <1>1, <1>5, SocketsAssumption DEF SessionFits, SessionsOfPages, Sent, browser, Idle
    <2> QED BY <1>2, <1>5, <2>1 DEF Sent
  <1>6. CASE DataInterface
    <2>1. dataInterface' \in BOOLEAN
      BY <1>6 DEF DataInterface
    <2>2. \/ socket' = None /\ recent' = FALSE
          \/ socket' = socket /\ recent' = recent
      BY <1>6 DEF DataInterface, session
    <2>3. main' = "network" /\ UNCHANGED <<net, web, handle, http, browser, starts>>
      BY <1>6 DEF DataInterface
    <2>4. SessionFits'
      <3>1. CASE socket' = None /\ recent' = FALSE
        BY <1>1, <2>1, <2>3, <3>1, SocketsAssumption DEF SessionFits, SessionsOfPages, browser, Idle
      <3>2. CASE socket' = socket /\ recent' = recent
        BY <1>1, <2>1, <2>3, <3>2, SocketsAssumption DEF SessionFits, SessionsOfPages, browser, Idle
      <3> QED BY <2>2, <3>1, <3>2
    <2> QED BY <1>2, <2>3, <2>4
  <1>7. CASE StoreSocket
    <2>1. http \in [doing : {"open", "time", "answer", "close"}, socket : Sockets]
      BY <1>1, <1>7 DEF SessionFits, StoreSocket, Idle
    <2>2. SessionFits'
      BY <1>1, <1>7, <2>1, SocketsAssumption
         DEF SessionFits, SessionsOfPages, StoreSocket, browser, Idle
    <2> QED BY <1>2, <1>7, <2>2 DEF StoreSocket
  <1>8. CASE StoreTime
    <2>1. SessionFits'
      BY <1>1, <1>8 DEF SessionFits, SessionsOfPages, StoreTime, browser, Idle
    <2> QED BY <1>2, <1>8, <2>1 DEF StoreTime
  <1>9. CASE Answered
    <2>1. /\ \/ socket' = None /\ recent' = recent
             \/ recent' = TRUE /\ socket' = socket
          /\ http' = Idle /\ UNCHANGED <<net, web, handle, dataInterface, main, browser, starts>>
      BY <1>9 DEF Answered
    <2>2. handle
      BY <1>1, <1>9 DEF SessionFits, Answered, Idle
    <2>3. SessionFits'
      <3>1. CASE socket' = None /\ recent' = recent
        BY <1>1, <2>1, <2>2, <3>1 DEF SessionFits, SessionsOfPages, browser, Idle
      <3>2. CASE recent' = TRUE /\ socket' = socket
        BY <1>1, <2>1, <2>2, <3>2 DEF SessionFits, SessionsOfPages, browser, Idle
      <3> QED BY <2>1, <3>1, <3>2
    <2> QED BY <1>2, <2>1, <2>3
  <1>10. CASE Closed
    <2>1. SessionFits'
      BY <1>1, <1>10 DEF SessionFits, SessionsOfPages, Closed, browser, Idle
    <2> QED BY <1>2, <1>10, <2>1 DEF Closed
  <1>11. ASSUME NEW s \in Sockets, PageOpens(s)
         PROVE  ServerInv'
    <2>1. openings' \in 0 .. MaxOpenings
      BY <1>1, <1>11, WebServerAssumption DEF SessionFits, PageOpens
    <2>2. SessionFits'
      BY <1>1, <1>11, <2>1 DEF SessionFits, SessionsOfPages, PageOpens, MayRequest, Idle
    <2> QED BY <1>2, <1>11, <2>2 DEF PageOpens
  <1>12. ASSUME NEW s \in Sockets, Frame(s)
         PROVE  ServerInv'
    <2>1. SessionFits'
      BY <1>1, <1>12, SocketsAssumption
         DEF SessionFits, SessionsOfPages, Frame, Sends, MayRequest, browser, Idle
    <2> QED BY <1>2, <1>12, <2>1 DEF Frame
  <1>13. ASSUME NEW s \in Sockets, CloseFrame(s)
         PROVE  ServerInv'
    <2>1. SessionFits'
      BY <1>1, <1>13 DEF SessionFits, SessionsOfPages, CloseFrame, Idle
    <2> QED BY <1>2, <1>13, <2>1 DEF CloseFrame
  <1>14. ASSUME NEW s \in Sockets, Vanish(s)
         PROVE  ServerInv'
    <2>1. SessionFits'
      BY <1>1, <1>14 DEF SessionFits, SessionsOfPages, Vanish, session, Idle
    <2> QED BY <1>2, <1>14, <2>1 DEF Vanish
  <1>15. CASE Associate
    <2>1. SessionFits'
      BY <1>1, <1>15 DEF SessionFits, SessionsOfPages, Associate, session, Idle
    <2> QED BY <1>2, <1>15, <2>1 DEF Associate
  <1>16. CASE GraceEnds
    <2>1. SessionFits'
      BY <1>1, <1>16 DEF SessionFits, SessionsOfPages, GraceEnds, browser, Idle
    <2> QED BY <1>2, <1>16, <2>1 DEF GraceEnds
  <1>17. CASE PageRequest
    <2>1. handle /\ UNCHANGED <<net, web, handle, socket, dataInterface, main, browser, starts>>
      BY <1>17 DEF PageRequest, MayRequest
    <2>2. \/ recent' = TRUE /\ http' = http
          \/ recent' = recent /\ http'.socket = socket
             /\ http' \in [doing : {"answer"}, socket : Sockets]
      BY <1>17 DEF PageRequest, Sends
    <2>3. SessionFits'
      <3>1. CASE recent' = TRUE /\ http' = http
        BY <1>1, <2>1, <3>1 DEF SessionFits, SessionsOfPages, browser, Idle
      <3>2. CASE recent' = recent /\ http'.socket = socket
                 /\ http' \in [doing : {"answer"}, socket : Sockets]
        BY <1>1, <2>1, <3>2, SocketsAssumption DEF SessionFits, SessionsOfPages, browser, Idle
      <3> QED BY <2>2, <3>1, <3>2
    <2> QED BY <1>2, <2>1, <2>3
  <1> QED BY <1>3, <1>4, <1>5, <1>6, <1>7, <1>8, <1>9, <1>10, <1>11, <1>12, <1>13, <1>14,
             <1>15, <1>16, <1>17

(* The driver loses or finds its network, and the event task learns of it.  *)
LEMMA DriverSteps ==
    ASSUME ServerInv, EventTask \/ Link
    PROVE  ServerInv'
  <1>1. NetworkFits(net, web, main) /\ SessionFits
    BY InHalves
  <1>2. SessionFits'
    BY <1>1 DEF SessionFits, SessionsOfPages, EventTask, Link, session, browser, Idle
  <1>3. web' = web /\ main' = main
    BY DEF EventTask, Link
  <1>4. Len(net.events) \in Nat /\ MaxEvents \in Nat
    BY <1>1, EventsCounted, WebServerAssumption DEF NetworkFits
  <1>5. CASE EventTask
    <2>1. /\ net.events \in Seq({"up", "down"}) /\ net.events # <<>>
          /\ net' = [net EXCEPT !.staOnline = (Head(net.events) = "up"),
                                !.events = Tail(@)]
      BY <1>1, <1>5 DEF EventTask, Handled, NetworkFits, Networks
    <2>2. /\ Tail(net.events) \in Seq({"up", "down"})
          /\ Len(Tail(net.events)) = Len(net.events) - 1
      BY <2>1
    <2>3. (Head(net.events) = "up") \in BOOLEAN
      OBVIOUS
    <2>4. /\ net' \in Networks /\ Len(net'.events) = Len(net.events) - 1
          /\ net'.softAp = net.softAp /\ net'.station = net.station /\ net'.users = net.users
      BY <1>1, <2>1, <2>2, <2>3 DEF NetworkFits, Networks
    <2>5. NetworkFits(net, web, main)'
      BY <1>1, <1>3, <1>4, <2>4 DEF NetworkFits
    <2> QED BY <1>2, <2>5, InHalves
  <1>6. CASE Link
    <2>1. Len(net.events) < MaxEvents
      BY <1>6 DEF Link
    <2>2. Follows(net', net, 1)
      BY <1>1, <1>6, ReportStep DEF NetworkFits, Link
    <2>3. Len(net'.events) \in Nat
      BY <2>2, EventsCounted DEF Follows
    <2>4. /\ Len(net'.events) <= MaxEvents /\ Len(net'.events) <= MaxEvents + 2
          /\ Len(net'.events) <= MaxEvents + 4
      BY <1>4, <2>1, <2>2, <2>3 DEF Follows
    <2>5. NetworkFits(net, web, main)'
      BY <1>1, <1>3, <2>2, <2>4 DEF NetworkFits, Follows
    <2> QED BY <1>2, <2>5, InHalves
  <1> QED BY <1>5, <1>6

(* The invariant is one.                                                    *)
LEMMA SessionInvariance == Spec => []ServerInv
  <1>1. Init => ServerInv
    <2> SUFFICES ASSUME Init PROVE ServerInv
      OBVIOUS
    <2>1. NoNetwork \in Networks /\ Len(NoNetwork.events) = 0
      BY DEF NoNetwork, Networks
    <2>2. NetworkFits(net, web, main)
      BY <2>1, WebServerAssumption DEF Init, NetworkFits, NoNetwork
    <2>3. SessionFits
      <3>1. 0 \in 0 .. MaxOpenings /\ 0 \in 0 .. MaxStarts
        BY WebServerAssumption
      <3>2. "network" \notin Sockets
        BY SocketsAssumption
      <3> QED BY <3>1, <3>2 DEF Init, SessionFits, SessionsOfPages, Idle
    <2> QED BY <2>2, <2>3, InHalves
  <1>2. ServerInv /\ [Next]_vars => ServerInv'
    <2> SUFFICES ASSUME ServerInv, [Next]_vars PROVE ServerInv'
      OBVIOUS
    <2>1. CASE Next
      BY <2>1, StartStep, OtherConsumerStep, NetworkUpdateStep, UpdateStep, OtherSteps,
         DriverSteps DEF Next, MainTask, HttpTask
    <2>2. CASE UNCHANGED vars
      BY <2>2 DEF vars, session, browser, ServerInv, ServerMatchesState, TypeOK,
                  ServerOnNetwork, SessionsOfPages, SessionFits
    <2> QED BY <2>1, <2>2
  <1> QED BY <1>1, <1>2, PTL DEF Spec

(* Server, state and session agree, whatever fails while the server starts  *)
(* and however the tasks interleave.                                        *)
THEOREM ServerAndStateAgree == Spec => []ServerMatchesState
  <1>1. ServerInv => ServerMatchesState
    BY DEF ServerInv
  <1> QED BY <1>1, SessionInvariance, PTL

(* The only page ever opened keeps its session: whoever ends a session is   *)
(* the main task finding nobody on the access point, a server that stops,   *)
(* a send that fails, which is a send to that page, or the CLOSE of a page, *)
(* which is that one and no longer open.                                    *)
THEOREM LonePageKept == Spec => LonePageKeepsSession
  <1>1. ServerInv /\ [Next]_vars =>
            [\A s \in Sockets :
                opened = {s} /\ socket = s /\ s \in open /\ s \in open'
                => socket' = s \/ ~handle' \/ SessionCleared \/ SendEnds(s)]_vars
    <2> SUFFICES ASSUME ServerInv, Next, NEW s \in Sockets,
                        opened = {s}, socket = s, s \in open
                 PROVE  socket' = s \/ ~handle' \/ SessionCleared \/ SendEnds(s)
      OBVIOUS
    <2>1. /\ main \in Sockets => main = s
          /\ http # Idle => http.socket = s
          /\ http.doing # "close"
      BY DEF ServerInv, SessionsOfPages, Idle
    <2>2. CASE webServerStart \/ OtherConsumer \/ networkUpdate \/ SendSkipped \/ SendBegin
               \/ StoreTime \/ EventTask \/ Link \/ Associate \/ GraceEnds \/ PageRequest
      BY <2>2 DEF webServerStart, OtherConsumer, networkUpdate, SendSkipped, SendBegin,
                  StoreTime, EventTask, Link, Associate, GraceEnds, PageRequest, session
    <2>3. CASE webServerUpdate
      BY <2>3 DEF webServerUpdate, Off, WaitForNetwork, HttpStarts, NetworkConnected,
                  RegistrationFails, webServerStop, Running, HttpStop, session
    <2>4. CASE Sent
      <3>1. main' = "interface" /\ "interface" # s
        BY <2>4, SocketsAssumption DEF Sent
      <3> QED BY <2>1, <2>4, <3>1 DEF Sent, SendEnds
    <2>5. CASE Answered
      BY <2>1, <2>5 DEF Answered, SendEnds, Idle
    <2>6. CASE DataInterface
      BY <2>6 DEF DataInterface, session
    <2>7. CASE StoreSocket \/ Closed
      BY <2>1, <2>7 DEF StoreSocket, Closed, Idle
    <2>8. ASSUME NEW q \in Sockets, PageOpens(q) \/ Frame(q) \/ CloseFrame(q) \/ Vanish(q)
          PROVE  socket' = s
      BY <2>8 DEF PageOpens, Frame, CloseFrame, Vanish, session
    <2> QED BY <2>2, <2>3, <2>4, <2>5, <2>6, <2>7, <2>8 DEF Next, MainTask, HttpTask
  <1> QED BY <1>1, SessionInvariance, PTL DEF Spec, LonePageKeepsSession

(***************************************************************************)
(* The handlers that store profiles and firmware.                          *)
(***************************************************************************)

USE NamesAssumption DEF Absent, NoRequest

(* What is known of the handler in progress.                                *)
LEMMA JobFacts ==
    ASSUME ProfileTypes
    PROVE  /\ job.at \in {"upload", "remove upload"} =>
                job \in [at : {"upload", "remove upload"}, name : Profiles, line : Lines]
           /\ job.at \in {"activate", "delete"} =>
                job \in [at : {"activate", "delete"}, name : Profiles]
           /\ NoRequest \in Jobs
           /\ \A at \in {"receive", "drain", "restart"} : [at |-> at] \in Jobs
  <1>1. job \in Jobs
    BY DEF ProfileTypes
  <1>2. CASE job = NoRequest
    BY <1>2 DEF Jobs
  <1>3. CASE job \in [at : {"receive", "drain", "restart"}]
    <2>1. job.at \in {"receive", "drain", "restart"}
      BY <1>3
    <2> QED BY <2>1 DEF Jobs
  <1>4. CASE job \in [at : {"upload", "remove upload"}, name : Profiles, line : Lines]
    <2>1. job.at \in {"upload", "remove upload"}
      BY <1>4
    <2> QED BY <1>4, <2>1 DEF Jobs
  <1>5. CASE job \in [at : {"activate", "delete"}, name : Profiles]
    <2>1. job.at \in {"activate", "delete"}
      BY <1>5
    <2> QED BY <1>5, <2>1 DEF Jobs
  <1> QED BY <1>1, <1>2, <1>3, <1>4, <1>5 DEF Jobs

-----------------------------------------------------------------------------
(* A firmware request, and a step that changes nothing, leave the profiles  *)
(* and the place of every profile handler alone.                            *)
LEMMA FirmwareStep ==
    ASSUME ProfileInv, UNCHANGED profileVars,
           job.at \notin {"upload", "remove upload", "activate", "delete"},
           job' \in {NoRequest, [at |-> "receive"], [at |-> "drain"], [at |-> "restart"]}
    PROVE  ProfileInv'
  <1>1. job'.at \in {"idle", "receive", "drain", "restart"}
    <2>1. CASE job' = NoRequest
      BY <2>1
    <2>2. CASE job' = [at |-> "receive"]
      BY <2>2
    <2>3. CASE job' = [at |-> "drain"]
      BY <2>3
    <2>4. CASE job' = [at |-> "restart"]
      BY <2>4
    <2> QED BY <2>1, <2>2, <2>3, <2>4
  <1>2. ProfileTypes'
    BY JobFacts DEF ProfileInv, ProfilesWhole, ProfileTypes, profileVars
  <1> QED BY <1>1, <1>2 DEF ProfileInv, ProfilesWhole, ActiveExists, HandlersHaveFiles, Writing,
                             profileVars

(* A step that changes nothing at all.                                      *)
LEMMA StutterStep == ProfileInv /\ UNCHANGED uploadVars => ProfileInv'
  <1> SUFFICES ASSUME ProfileInv, UNCHANGED uploadVars PROVE ProfileInv'
    OBVIOUS
  <1>1. UNCHANGED <<files, active, job, cut, loose, foreign>>
    BY DEF uploadVars, profileVars
  <1>2. ProfilesWhole'
    BY <1>1 DEF ProfileInv, ProfilesWhole, ProfileTypes, Writing
  <1>3. ActiveExists' /\ HandlersHaveFiles'
    BY <1>1 DEF ProfileInv, ActiveExists, HandlersHaveFiles
  <1> QED BY <1>2, <1>3 DEF ProfileInv

-----------------------------------------------------------------------------
(* Closing and removing a file keep the file table one.                     *)
LEMMA ClosesStep ==
    ASSUME ProfileTypes, NEW n \in Profiles, NEW state \in {"whole", "partial"},
           NEW line \in Lines, Closes(n, state, line)
    PROVE  /\ files' \in [Profiles -> {Absent, "whole"} \union Unfinished]
           /\ active' \in Lines
           /\ files'[n] = state /\ \A m \in Profiles \ {n} : files'[m] = files[m]
           /\ n # ActiveFile => active' = active
  <1>1. files \in [Profiles -> {Absent, "whole"} \union Unfinished] /\ active \in Lines
    BY DEF ProfileTypes
  <1>2. files' = [files EXCEPT ![n] = state] /\ active' = IF n = ActiveFile THEN line ELSE active
    BY DEF Closes
  <1>3. state \in {Absent, "whole"} \union Unfinished
    BY DEF Unfinished
  <1> QED BY <1>1, <1>2, <1>3

LEMMA RemovedStep ==
    ASSUME ProfileTypes, NEW n \in Profiles, Removed(n)
    PROVE  /\ files' \in [Profiles -> {Absent, "whole"} \union Unfinished]
           /\ active' \in Lines
           /\ files'[n] = Absent /\ \A m \in Profiles \ {n} : files'[m] = files[m]
           /\ active' = IF n = ActiveFile THEN "unnamed" ELSE active
           /\ cut' = cut \ {n} /\ foreign' \in BOOLEAN
           /\ n # ActiveFile => foreign' = foreign
  BY DEF ProfileTypes, Removed, Lines

LEMMA OpenedStep ==
    ASSUME ProfileTypes, NEW n \in Profiles, Opened(n)
    PROVE  /\ files' \in [Profiles -> {Absent, "whole"} \union Unfinished]
           /\ files'[n] = IF files[n] = Absent THEN "empty" ELSE files[n]
           /\ files'[n] # Absent
           /\ \A m \in Profiles \ {n} : files'[m] = files[m]
  BY DEF ProfileTypes, Opened, Unfinished

-----------------------------------------------------------------------------
(* Uploading a profile.                                                     *)
LEMMA UploadOpenStep ==
    ASSUME ProfileInv, NEW n \in Profiles, NEW line \in Lines, UploadOpen(n, line)
    PROVE  ProfileInv'
  <1>1. ProfileTypes /\ job = NoRequest
    BY DEF ProfileInv, ProfilesWhole, UploadOpen
  <1>2. /\ job' = [at |-> "upload", name |-> n, line |-> line]
        /\ Opened(n) /\ loose' = loose \ {n} /\ UNCHANGED <<active, cut, foreign>>
    BY DEF UploadOpen
  <1>3. /\ files' \in [Profiles -> {Absent, "whole"} \union Unfinished]
        /\ files'[n] # Absent
        /\ \A m \in Profiles \ {n} : files'[m] = files[m]
    BY <1>1, <1>2, OpenedStep
  <1>4. ProfileTypes'
    <2>1. job' \in Jobs
      BY <1>2 DEF Jobs
    <2> QED BY <1>1, <1>2, <1>3, <2>1 DEF ProfileTypes
  <1>5. Writing = {} /\ Writing' = {n}
    BY <1>1, <1>2 DEF Writing
  <1>6. ProfilesWhole'
    BY <1>2, <1>3, <1>4, <1>5 DEF ProfileInv, ProfilesWhole
  <1>7. ActiveExists'
    BY <1>1, <1>2, <1>3 DEF ProfileInv, ActiveExists
  <1>8. HandlersHaveFiles'
    BY <1>1, <1>2, <1>3 DEF ProfileInv, HandlersHaveFiles
  <1> QED BY <1>6, <1>7, <1>8 DEF ProfileInv

(* The upload is complete.                                                  *)
LEMMA UploadCloseStep ==
    ASSUME ProfileInv, UploadClose
    PROVE  ProfileInv'
  <1>1. /\ ProfileTypes /\ job.at = "upload"
        /\ job.name \in Profiles /\ job.line \in Lines
    BY JobFacts DEF ProfileInv, ProfilesWhole, UploadClose
  <1>2. /\ job' = NoRequest /\ Closes(job.name, "whole", job.line)
        /\ foreign' = (foreign \/ job.name = ActiveFile)
        /\ cut' = cut \ {job.name} /\ loose' = loose
    BY DEF UploadClose, Done
  <1>3. /\ files' \in [Profiles -> {Absent, "whole"} \union Unfinished]
        /\ active' \in Lines
        /\ files'[job.name] = "whole"
        /\ \A m \in Profiles \ {job.name} : files'[m] = files[m]
        /\ job.name # ActiveFile => active' = active
    BY <1>1, <1>2, ClosesStep
  <1>4. ProfileTypes'
    BY <1>1, <1>2, <1>3, JobFacts DEF ProfileTypes
  <1>5. Writing = {job.name} /\ Writing' = {}
    BY <1>1, <1>2 DEF Writing
  <1>6. ProfilesWhole'
    BY <1>1, <1>2, <1>3, <1>4, <1>5 DEF ProfileInv, ProfilesWhole, Unfinished
  <1>7. ActiveExists'
    BY <1>1, <1>2, <1>3 DEF ProfileInv, ActiveExists
  <1>8. HandlersHaveFiles'
    BY <1>1, <1>2, <1>3 DEF ProfileInv, HandlersHaveFiles
  <1> QED BY <1>6, <1>7, <1>8 DEF ProfileInv

(* The file system refuses to write.                                        *)
LEMMA UploadFailsStep ==
    ASSUME ProfileInv, UploadFails
    PROVE  ProfileInv'
  <1>1. /\ ProfileTypes /\ job.at = "upload" /\ job.name \in Profiles
        /\ job \in [at : {"upload", "remove upload"}, name : Profiles, line : Lines]
    BY JobFacts DEF ProfileInv, ProfilesWhole, UploadFails
  <1>2. /\ job'.at = "remove upload" /\ job'.name = job.name
        /\ job' \in [at : {"upload", "remove upload"}, name : Profiles, line : Lines]
    BY <1>1 DEF UploadFails
  <1>3. /\ foreign' = (foreign \/ job.name = ActiveFile)
        /\ UNCHANGED <<cut, loose>>
    BY DEF UploadFails
  <1>4. PICK line \in Lines : Closes(job.name, "partial", line)
    BY DEF UploadFails
  <1>5. /\ files' \in [Profiles -> {Absent, "whole"} \union Unfinished]
        /\ active' \in Lines
        /\ files'[job.name] = "partial"
        /\ \A m \in Profiles \ {job.name} : files'[m] = files[m]
        /\ job.name # ActiveFile => active' = active
    BY <1>1, <1>4, ClosesStep
  <1>6. ProfileTypes'
    BY <1>1, <1>2, <1>3, <1>5 DEF ProfileTypes, Jobs
  <1>7. Writing = {job.name} /\ Writing' = {job.name}
    BY <1>1, <1>2 DEF Writing
  <1>8. ProfilesWhole'
    BY <1>1, <1>3, <1>5, <1>6, <1>7 DEF ProfileInv, ProfilesWhole
  <1>9. ActiveExists'
    BY <1>1, <1>3, <1>5 DEF ProfileInv, ActiveExists
  <1>10. HandlersHaveFiles'
    BY <1>1, <1>2, <1>5 DEF ProfileInv, HandlersHaveFiles
  <1> QED BY <1>8, <1>9, <1>10 DEF ProfileInv

(* What a failed upload left is removed.                                    *)
LEMMA UploadRemoveStep ==
    ASSUME ProfileInv, UploadRemove
    PROVE  ProfileInv'
  <1>1. ProfileTypes /\ job.at = "remove upload" /\ job.name \in Profiles
    BY JobFacts DEF ProfileInv, ProfilesWhole, UploadRemove
  <1>2. job' = NoRequest
    BY DEF UploadRemove, Done
  <1>3. Writing = {job.name} /\ Writing' = {}
    BY <1>1, <1>2 DEF Writing
  <1>4. job.at # "delete"
    BY <1>1
  <1>5. CASE Removed(job.name)
             /\ loose' = IF active' = job.name THEN loose \union {job.name} ELSE loose
    <2>1. /\ files' \in [Profiles -> {Absent, "whole"} \union Unfinished]
          /\ active' \in Lines
          /\ files'[job.name] = Absent
          /\ \A m \in Profiles \ {job.name} : files'[m] = files[m]
          /\ active' = IF job.name = ActiveFile THEN "unnamed" ELSE active
          /\ cut' = cut \ {job.name} /\ foreign' \in BOOLEAN
          /\ job.name # ActiveFile => foreign' = foreign
      BY <1>1, <1>5, RemovedStep
    <2>2. ProfileTypes'
      BY <1>1, <1>2, <1>5, <2>1, JobFacts DEF ProfileTypes
    <2>3. ProfilesWhole'
      BY <1>1, <1>3, <2>1, <2>2 DEF ProfileInv, ProfilesWhole, Unfinished
    <2>4. ActiveExists'
      <3>1. CASE job.name = ActiveFile
        BY <2>1, <3>1 DEF ActiveExists
      <3>2. CASE job.name # ActiveFile
        <4>1. /\ active' = active /\ foreign' = foreign
              /\ ActiveFile \in cut => ActiveFile \in cut'
          BY <2>1, <3>2
        <4>2. loose \subseteq loose' /\ (active' = job.name => job.name \in loose')
          BY <1>5
        <4> QED BY <1>1, <1>4, <2>1, <4>1, <4>2 DEF ProfileInv, ActiveExists
      <3> QED BY <3>1, <3>2
    <2>5. HandlersHaveFiles'
      BY <1>1, <1>2, <2>1 DEF ProfileInv, HandlersHaveFiles
    <2> QED BY <2>3, <2>4, <2>5 DEF ProfileInv
  <1>6. CASE cut' = cut \union {job.name} /\ UNCHANGED <<files, active, loose, foreign>>
    <2>1. ProfileTypes'
      BY <1>1, <1>2, <1>6, JobFacts DEF ProfileTypes
    <2>2. ProfilesWhole'
      BY <1>1, <1>3, <1>6, <2>1 DEF ProfileInv, ProfilesWhole
    <2>3. ActiveExists'
      BY <1>1, <1>6 DEF ProfileInv, ActiveExists
    <2>4. HandlersHaveFiles'
      BY <1>2, <1>6 DEF ProfileInv, HandlersHaveFiles
    <2> QED BY <2>2, <2>3, <2>4 DEF ProfileInv
  <1> QED BY <1>5, <1>6 DEF UploadRemove

-----------------------------------------------------------------------------
(* Activating and deleting one.                                             *)
LEMMA ActivateOpenStep ==
    ASSUME ProfileInv, NEW n \in Profiles, ActivateOpen(n)
    PROVE  ProfileInv'
  <1>1. ProfileTypes /\ job = NoRequest /\ files[n] # Absent /\ ActiveFile \in Profiles
    BY DEF ProfileInv, ProfilesWhole, ActivateOpen
  <1>2. /\ job' = [at |-> "activate", name |-> n]
        /\ Opened(ActiveFile) /\ UNCHANGED <<active, cut, loose, foreign>>
    BY DEF ActivateOpen
  <1>3. /\ files' \in [Profiles -> {Absent, "whole"} \union Unfinished]
        /\ files'[ActiveFile] # Absent
        /\ \A m \in Profiles \ {ActiveFile} : files'[m] = files[m]
    BY <1>1, <1>2, OpenedStep
  <1>4. ProfileTypes'
    <2>1. job' \in Jobs
      BY <1>2 DEF Jobs
    <2> QED BY <1>1, <1>2, <1>3, <2>1 DEF ProfileTypes
  <1>5. Writing = {} /\ Writing' = {ActiveFile}
    BY <1>1, <1>2 DEF Writing
  <1>6. ProfilesWhole'
    BY <1>2, <1>3, <1>4, <1>5 DEF ProfileInv, ProfilesWhole
  <1>7. ActiveExists'
    BY <1>1, <1>2, <1>3 DEF ProfileInv, ActiveExists
  <1>8. HandlersHaveFiles'
    BY <1>1, <1>2, <1>3 DEF HandlersHaveFiles
  <1> QED BY <1>6, <1>7, <1>8 DEF ProfileInv

(* The name of the active profile is stored, or a part of it.               *)
LEMMA ActivateCloseStep ==
    ASSUME ProfileInv, ActivateClose
    PROVE  ProfileInv'
  <1>1. /\ ProfileTypes /\ job.at = "activate" /\ job.name \in Profiles
        /\ files[job.name] # Absent /\ ActiveFile \in Profiles
    BY JobFacts DEF ProfileInv, ProfilesWhole, HandlersHaveFiles, ActivateClose
  <1>2. job' = NoRequest /\ foreign' = FALSE /\ loose' = loose
    BY DEF ActivateClose, Done
  <1>3. Writing = {ActiveFile} /\ Writing' = {}
    BY <1>1, <1>2 DEF Writing
  <1>4. CASE Closes(ActiveFile, "whole", job.name) /\ cut' = cut \ {ActiveFile}
    <2>1. job.name \in Lines
      BY <1>1 DEF Lines
    <2>2. /\ files' \in [Profiles -> {Absent, "whole"} \union Unfinished]
          /\ active' = job.name
          /\ files'[ActiveFile] = "whole"
          /\ \A m \in Profiles \ {ActiveFile} : files'[m] = files[m]
      BY <1>1, <1>4, <2>1, ClosesStep DEF Closes
    <2>3. ProfileTypes'
      BY <1>1, <1>2, <1>4, <2>1, <2>2, JobFacts DEF ProfileTypes
    <2>4. ProfilesWhole'
      BY <1>1, <1>3, <1>4, <2>2, <2>3 DEF ProfileInv, ProfilesWhole, Unfinished
    <2>5. ActiveExists'
      BY <1>1, <2>2 DEF ActiveExists
    <2>6. HandlersHaveFiles'
      BY <1>2, <2>2 DEF HandlersHaveFiles
    <2> QED BY <2>4, <2>5, <2>6 DEF ProfileInv
  <1>5. CASE /\ \E line \in Lines : Closes(ActiveFile, "partial", line)
             /\ cut' = cut \union {ActiveFile}
    <2>1. PICK line \in Lines : Closes(ActiveFile, "partial", line)
      BY <1>5
    <2>2. /\ files' \in [Profiles -> {Absent, "whole"} \union Unfinished]
          /\ active' \in Lines
          /\ files'[ActiveFile] = "partial"
          /\ \A m \in Profiles \ {ActiveFile} : files'[m] = files[m]
      BY <1>1, <2>1, ClosesStep
    <2>3. ProfileTypes'
      BY <1>1, <1>2, <1>5, <2>2, JobFacts DEF ProfileTypes
    <2>4. ProfilesWhole'
      BY <1>1, <1>3, <1>5, <2>2, <2>3 DEF ProfileInv, ProfilesWhole
    <2>5. ActiveExists'
      BY <1>5 DEF ActiveExists
    <2>6. HandlersHaveFiles'
      BY <1>2, <2>2 DEF HandlersHaveFiles
    <2> QED BY <2>4, <2>5, <2>6 DEF ProfileInv
  <1> QED BY <1>4, <1>5 DEF ActivateClose

(* A profile's file is removed.                                             *)
LEMMA DeleteFileStep ==
    ASSUME ProfileInv, NEW n \in Profiles, DeleteFile(n)
    PROVE  ProfileInv'
  <1>1. ProfileTypes /\ job = NoRequest
    BY DEF ProfileInv, ProfilesWhole, DeleteFile
  <1>2. job' = [at |-> "delete", name |-> n] /\ Removed(n) /\ loose' = loose
    BY DEF DeleteFile
  <1>3. /\ files' \in [Profiles -> {Absent, "whole"} \union Unfinished]
        /\ active' \in Lines
        /\ files'[n] = Absent /\ \A m \in Profiles \ {n} : files'[m] = files[m]
        /\ active' = IF n = ActiveFile THEN "unnamed" ELSE active
        /\ cut' = cut \ {n} /\ foreign' \in BOOLEAN
        /\ n # ActiveFile => foreign' = foreign
    BY <1>1, <1>2, RemovedStep
  <1>4. ProfileTypes'
    <2>1. job' \in Jobs
      BY <1>2 DEF Jobs
    <2> QED BY <1>1, <1>2, <1>3, <2>1 DEF ProfileTypes
  <1>5. Writing = {} /\ Writing' = {}
    BY <1>1, <1>2 DEF Writing
  <1>6. ProfilesWhole'
    BY <1>1, <1>3, <1>4, <1>5 DEF ProfileInv, ProfilesWhole, Unfinished
  <1>7. ActiveExists'
    BY <1>1, <1>2, <1>3 DEF ProfileInv, ActiveExists
  <1>8. HandlersHaveFiles'
    BY <1>2, <1>3 DEF ProfileInv, HandlersHaveFiles
  <1> QED BY <1>6, <1>7, <1>8 DEF ProfileInv

(* The name of a deleted active profile is forgotten.                       *)
LEMMA DeleteActiveStep ==
    ASSUME ProfileInv, DeleteActive
    PROVE  ProfileInv'
  <1>1. /\ ProfileTypes /\ job.at = "delete" /\ job.name \in Profiles
        /\ ActiveFile \in Profiles
    BY JobFacts DEF ProfileInv, ProfilesWhole, DeleteActive
  <1>2. job' = NoRequest
    BY DEF DeleteActive, Done
  <1>3. Writing = {} /\ Writing' = {}
    BY <1>1, <1>2 DEF Writing
  <1>4. CASE active # job.name /\ UNCHANGED profileVars
    <2>1. ProfileTypes'
      BY <1>1, <1>2, <1>4, JobFacts DEF ProfileTypes, profileVars
    <2> QED BY <1>1, <1>2, <1>3, <1>4, <2>1
            DEF ProfileInv, ProfilesWhole, ActiveExists, HandlersHaveFiles, profileVars
  <1>5. CASE active = job.name /\ Removed(ActiveFile) /\ loose' = loose
    <2>1. /\ files' \in [Profiles -> {Absent, "whole"} \union Unfinished]
          /\ active' = "unnamed" /\ active' \in Lines
          /\ files'[ActiveFile] = Absent
          /\ \A m \in Profiles \ {ActiveFile} : files'[m] = files[m]
          /\ cut' = cut \ {ActiveFile} /\ foreign' \in BOOLEAN
      BY <1>1, <1>5, RemovedStep
    <2>2. ProfileTypes'
      BY <1>1, <1>2, <1>5, <2>1, JobFacts DEF ProfileTypes
    <2>3. ProfilesWhole'
      BY <1>1, <1>3, <2>1, <2>2 DEF ProfileInv, ProfilesWhole, Unfinished
    <2>4. ActiveExists' /\ HandlersHaveFiles'
      BY <1>2, <2>1 DEF ActiveExists, HandlersHaveFiles
    <2> QED BY <2>3, <2>4 DEF ProfileInv
  <1>6. CASE active = job.name /\ loose' = loose \union {job.name}
             /\ UNCHANGED <<files, active, cut, foreign>>
    <2>1. ProfileTypes'
      BY <1>1, <1>2, <1>6, JobFacts DEF ProfileTypes
    <2>2. ProfilesWhole'
      BY <1>1, <1>3, <1>6, <2>1 DEF ProfileInv, ProfilesWhole
    <2>3. ActiveExists' /\ HandlersHaveFiles'
      BY <1>1, <1>2, <1>6 DEF ProfileInv, ActiveExists, HandlersHaveFiles
    <2> QED BY <2>2, <2>3 DEF ProfileInv
  <1> QED BY <1>4, <1>5, <1>6 DEF DeleteActive

(* Power is lost, wherever the handler is.                                  *)
LEMMA RestartStep ==
    ASSUME ProfileInv, Restart
    PROVE  ProfileInv'
  <1>1. ProfileTypes
    BY DEF ProfileInv, ProfilesWhole
  <1>2. /\ job' = NoRequest /\ UNCHANGED <<files, active, foreign>>
        /\ cut' = cut \union {n \in Writing : files[n] \in Unfinished}
        /\ loose' = IF job.at = "delete" /\ active = job.name
                      THEN loose \union {job.name} ELSE loose
    BY DEF Restart, Done
  <1>3. /\ job.at = "delete" => job.name \in Profiles
        /\ Writing \subseteq Profiles
    BY <1>1, JobFacts DEF Writing
  <1>4. ProfileTypes'
    BY <1>1, <1>2, <1>3, JobFacts DEF ProfileTypes
  <1>5. ProfilesWhole'
    BY <1>2, <1>4 DEF ProfileInv, ProfilesWhole
  <1>6. ActiveExists'
    BY <1>2 DEF ProfileInv, ActiveExists
  <1>7. HandlersHaveFiles'
    BY <1>2 DEF ProfileInv, HandlersHaveFiles
  <1> QED BY <1>5, <1>6, <1>7 DEF ProfileInv

-----------------------------------------------------------------------------
(* The invariant holds in every state.                                      *)
LEMMA ProfileInvariance == UploadSpec => []ProfileInv
  <1>1. UploadInit => ProfileInv
    <2> SUFFICES ASSUME UploadInit PROVE ProfileInv
      OBVIOUS
    <2>1. ProfileTypes
      BY DEF UploadInit, ProfileTypes, Jobs, Lines
    <2> QED BY <2>1 DEF UploadInit, ProfileInv, ProfilesWhole, ActiveExists, HandlersHaveFiles,
                        Unfinished
  <1>2. ProfileInv /\ [UploadNext]_uploadVars => ProfileInv'
    <2> SUFFICES ASSUME ProfileInv, [UploadNext]_uploadVars PROVE ProfileInv'
      OBVIOUS
    <2>1. CASE \E n \in Profiles :
                 (\E line \in Lines : UploadOpen(n, line)) \/ ActivateOpen(n) \/ DeleteFile(n)
      BY <2>1, UploadOpenStep, ActivateOpenStep, DeleteFileStep
    <2>2. CASE UploadClose \/ UploadFails \/ UploadRemove
      BY <2>2, UploadCloseStep, UploadFailsStep, UploadRemoveStep
    <2>3. CASE ActivateClose \/ DeleteActive \/ Restart
      BY <2>3, ActivateCloseStep, DeleteActiveStep, RestartStep
    <2>4. CASE \E b \in Bodies : FirmwareBegin(b)
      BY <2>4, FirmwareStep DEF FirmwareBegin
    <2>5. CASE \E n \in 1 .. BufferLength : Receive(n) \/ Drain(n)
      <3> PICK n \in 1 .. BufferLength : Receive(n) \/ Drain(n)
        BY <2>5
      <3>1. UNCHANGED profileVars /\ job.at \in {"receive", "drain"}
        BY DEF Receive, Drain
      <3>2. job' = job \/ job' = [at |-> "drain"]
        BY DEF Receive, Drain
      <3>3. job \in {[at |-> "receive"], [at |-> "drain"]}
        <4>1. job \in Jobs
          BY DEF ProfileInv, ProfilesWhole, ProfileTypes
        <4>2. job \in [at : {"receive", "drain", "restart"}]
          BY <3>1, <4>1 DEF Jobs
        <4> QED BY <3>1, <4>2
      <3> QED BY <3>1, <3>2, <3>3, FirmwareStep
    <2>6. CASE UpdateEnd \/ UpdateAbort
      BY <2>6, FirmwareStep DEF UpdateEnd, UpdateAbort, Done
    <2>7. CASE UNCHANGED uploadVars
      BY <2>7, StutterStep
    <2> QED BY <2>1, <2>2, <2>3, <2>4, <2>5, <2>6, <2>7 DEF UploadNext
  <1> QED BY <1>1, <1>2, PTL DEF UploadSpec

(* Whatever is uploaded, activated and deleted, wherever a call fails or    *)
(* the power goes: a stored profile is whole unless a failure left it cut.  *)
THEOREM StoredProfilesWhole == UploadSpec => []ProfilesWhole
  <1>1. ProfileInv => ProfilesWhole
    BY DEF ProfileInv
  <1> QED BY <1>1, ProfileInvariance, PTL

(* And the active profile exists, except between the two removals of a      *)
(* deletion, or after a failure between them, in an upload over it or in    *)
(* writing its name, or once active.txt itself was uploaded as a profile.   *)
THEOREM ActiveProfileExists == UploadSpec => []ActiveExists
  <1>1. ProfileInv => ActiveExists
    BY DEF ProfileInv
  <1> QED BY <1>1, ProfileInvariance, PTL

-----------------------------------------------------------------------------
(* The firmware image.  First what findBytes finds, and how the parts of a  *)
(* request fit together.                                                    *)

(* The length of a boundary.                                                *)
LEMMA BoundaryFacts ==
    /\ Len(Boundary) \in Nat /\ Len(Boundary) >= 1
    /\ BufferLength \in Nat /\ BufferLength > Len(Boundary)
    /\ Overlap \in Nat /\ Overlap = Len(Boundary) - 1
  <1>1. Boundary \in Seq(0 .. 255) /\ Boundary # <<>>
    BY BytesAssumption
  <1>2. Len(Boundary) \in Nat /\ Len(Boundary) >= 1
    BY <1>1
  <1> QED BY <1>2, BufferAssumption DEF Overlap

(* A set of numbers that is not empty has a least one.                      *)
LEMMA LeastNumber ==
    ASSUME NEW S \in SUBSET Nat, S # {}
    PROVE  \E i \in S : \A j \in S : i <= j
  <1> DEFINE R == StrictSubsetOrdering(Nat)
             T == {0 .. i : i \in S}
  <1>1. IsWellFoundedOn(R, FiniteSubsetsOf(Nat))
    BY FS_StrictSubsetOrderingWellFounded
  <1>2. T \subseteq FiniteSubsetsOf(Nat) /\ T # {}
    <2>1. ASSUME NEW i \in S PROVE 0 .. i \in SUBSET Nat /\ IsFiniteSet(0 .. i)
      <3>1. 0 \in Int /\ i \in Int
        OBVIOUS
      <3>2. IsFiniteSet(0 .. i)
        BY <3>1, FS_Interval
      <3> QED BY <3>2
    <2> QED BY <2>1 DEF FiniteSubsetsOf
  <1>3. PICK t \in T : \A u \in T : <<u, t>> \notin R
    <2> HIDE DEF R, T
    <2> QED BY <1>1, <1>2, WFMin
  <1>4. PICK i \in S : t = 0 .. i
    OBVIOUS
  <1>5. ASSUME NEW j \in S, j < i PROVE FALSE
    <2>1. 0 .. j \in T /\ 0 .. j \subseteq 0 .. i /\ i \in 0 .. i /\ i \notin 0 .. j
      BY <1>5
    <2>2. <<0 .. j, 0 .. i>> \in R
      BY <2>1 DEF StrictSubsetOrdering
    <2> QED BY <1>3, <1>4, <2>1, <2>2
  <1> QED BY <1>5

(* findBytes finds the first boundary, and says that there is none only     *)
(* when there is none.                                                      *)
LEMMA FirstBoundary ==
    ASSUME NEW data \in Seq(0 .. 255)
    PROVE  LET end == findBytes(data)
               last == Len(data) - Len(Boundary)
           IN  \/ end = -1 /\ \A i \in 0 .. last : ~BoundaryAt(data, i)
               \/ /\ end \in 0 .. last /\ BoundaryAt(data, end)
                  /\ \A i \in 0 .. last : BoundaryAt(data, i) => end <= i
  <1> DEFINE places == {i \in 0 .. Len(data) - Len(Boundary) : BoundaryAt(data, i)}
  <1>1. Len(data) \in Nat /\ Len(Boundary) \in Nat
    BY BoundaryFacts
  <1>2. CASE places = {}
    BY <1>2 DEF findBytes
  <1>3. CASE places # {}
    <2>1. places \in SUBSET Nat
      BY <1>1
    <2>2. \E i \in places : \A j \in places : i <= j
      <3> HIDE DEF places
      <3> QED BY <1>3, <2>1, LeastNumber
    <2>3. findBytes(data) = CHOOSE i \in places : \A j \in places : i <= j
      BY <1>3 DEF findBytes
    <2>4. findBytes(data) \in places /\ \A j \in places : findBytes(data) <= j
      <3> HIDE DEF places
      <3> QED BY <2>2, <2>3
    <2> QED BY <2>4
  <1> QED BY <1>2, <1>3

(* And it is the only number that can be said of.                           *)
LEMMA FirstBoundaryOnly ==
    ASSUME NEW data \in Seq(0 .. 255), NEW i \in 0 .. Len(data) - Len(Boundary),
           BoundaryAt(data, i),
           \A j \in 0 .. i - 1 : ~BoundaryAt(data, j)
    PROVE  findBytes(data) = i
  <1> DEFINE end == findBytes(data)
             last == Len(data) - Len(Boundary)
  <1>1. last \in Int
    BY BoundaryFacts
  <1>2. \/ end = -1 /\ \A j \in 0 .. last : ~BoundaryAt(data, j)
        \/ /\ end \in 0 .. last /\ BoundaryAt(data, end)
           /\ \A j \in 0 .. last : BoundaryAt(data, j) => end <= j
    BY FirstBoundary
  <1>3. i \in 0 .. last
    OBVIOUS
  <1> HIDE DEF end, last
  <1>4. end \in 0 .. last /\ BoundaryAt(data, end) /\ end <= i
    BY <1>2, <1>3
  <1>5. end = i
    BY <1>1, <1>3, <1>4
  <1> QED BY <1>5 DEF end

-----------------------------------------------------------------------------
(* A part of a part of a request is a part of the request.                  *)
LEMMA PartOfPart ==
    ASSUME NEW s \in Seq(0 .. 255), NEW a \in Nat, NEW b \in a .. Len(s),
           NEW i \in Nat, NEW j \in i .. b - a
    PROVE  SubSeq(SubSeq(s, a + 1, b), i + 1, j) = SubSeq(s, a + i + 1, a + j)
  <1>1. CASE i = j
    BY <1>1, SubSeqEmpty
  <1>2. CASE i < j
    <2>1. /\ a + 1 \in 1 .. Len(s) /\ b \in 1 .. Len(s)
          /\ i + 1 \in 1 .. b - (a + 1) + 1 /\ j \in 1 .. b - (a + 1) + 1
      BY <1>2
    <2>2. SubSeq(SubSeq(s, a + 1, b), i + 1, j) = SubSeq(s, (a + 1) + (i + 1) - 1, (a + 1) + j - 1)
      BY <2>1, SubSeqOfSubSeq
    <2>3. (a + 1) + (i + 1) - 1 = a + i + 1 /\ (a + 1) + j - 1 = a + j
      BY <2>1
    <2> QED BY <2>2, <2>3
  <1> QED BY <1>1, <1>2

(* Two parts that follow each other are one.                                *)
LEMMA PartsJoin ==
    ASSUME NEW s \in Seq(0 .. 255), NEW a \in Nat, NEW b \in a .. Len(s), NEW c \in b .. Len(s)
    PROVE  SubSeq(s, a + 1, b) \o SubSeq(s, b + 1, c) = SubSeq(s, a + 1, c)
  <1>1. a + 1 \in 1 .. Len(s) + 1 /\ b \in (a + 1) - 1 .. Len(s) /\ c \in b .. Len(s)
    OBVIOUS
  <1> QED BY <1>1, ConcatAdjacentSubSeq

(* The length of a part, and what it is made of.                            *)
LEMMA PartLength ==
    ASSUME NEW s \in Seq(0 .. 255), NEW a \in Nat, NEW b \in a .. Len(s)
    PROVE  /\ SubSeq(s, a + 1, b) \in Seq(0 .. 255)
           /\ Len(SubSeq(s, a + 1, b)) = b - a
  <1>1. \A k \in a + 1 .. b : s[k] \in 0 .. 255
    <2>1. ASSUME NEW k \in a + 1 .. b PROVE s[k] \in 0 .. 255
      <3>1. k \in 1 .. Len(s)
        OBVIOUS
      <3> QED BY <3>1, ElementOfSeq
    <2> QED BY <2>1
  <1>2. a + 1 \in Int /\ b \in Int
    OBVIOUS
  <1>3. /\ SubSeq(s, a + 1, b) \in Seq(0 .. 255)
        /\ Len(SubSeq(s, a + 1, b)) = IF a + 1 <= b THEN b - (a + 1) + 1 ELSE 0
    BY <1>1, <1>2, SubSeqProperties
  <1> QED BY <1>3

(* And of a part at the front.                                              *)
LEMMA FrontLength ==
    ASSUME NEW s \in Seq(0 .. 255), NEW b \in 0 .. Len(s)
    PROVE  SubSeq(s, 1, b) \in Seq(0 .. 255) /\ Len(SubSeq(s, 1, b)) = b
  <1>1. 0 \in Nat /\ b \in 0 .. Len(s) /\ 0 + 1 = 1 /\ b - 0 = b
    OBVIOUS
  <1>2. SubSeq(s, 0 + 1, b) \in Seq(0 .. 255) /\ Len(SubSeq(s, 0 + 1, b)) = b - 0
    BY <1>1, PartLength
  <1> QED BY <1>1, <1>2

(* A boundary in a part is a boundary of the request.                       *)
LEMMA BoundaryOfPart ==
    ASSUME NEW s \in Seq(0 .. 255), NEW a \in Nat, NEW b \in a .. Len(s),
           NEW i \in 0 .. b - a - Len(Boundary)
    PROVE  BoundaryAt(SubSeq(s, a + 1, b), i) <=> BoundaryAt(s, a + i)
  <1> DEFINE L == Len(Boundary)
             d == b - a
  <1>0. L \in Nat /\ d \in Int /\ i \in 0 .. d - L
    BY BoundaryFacts
  <1>1. i \in Nat /\ i + L \in i .. b - a
    <2>1. i \in Nat /\ i + L \in i .. d
      <3> HIDE DEF L, d
      <3> QED BY <1>0
    <2> QED BY <2>1
  <1>2. SubSeq(SubSeq(s, a + 1, b), i + 1, i + Len(Boundary))
          = SubSeq(s, a + i + 1, a + (i + Len(Boundary)))
    BY <1>1, PartOfPart
  <1>3. a + (i + Len(Boundary)) = a + i + Len(Boundary)
    BY BoundaryFacts
  <1> QED BY <1>2, <1>3 DEF BoundaryAt

(* Looking for the boundary in what was kept and what has just arrived is   *)
(* looking for it in the request: none can have begun before.               *)
LEMMA SearchInParts ==
    ASSUME NEW s \in Seq(0 .. 255), NEW a \in Nat, NEW r \in a .. Len(s), NEW e \in r + 1 .. Len(s),
           \A i \in 0 .. r - Len(Boundary) : ~BoundaryAt(s, i),
           a > 0 => r - a = Overlap
    PROVE  LET end == findBytes(SubSeq(s, a + 1, e))
           IN  \/ /\ end \in 0 .. e - a - Len(Boundary)
                  /\ findBytes(s) = a + end
               \/ /\ end = -1
                  /\ \A i \in 0 .. e - Len(Boundary) : ~BoundaryAt(s, i)
  <1> DEFINE L == Len(Boundary)
             data == SubSeq(s, a + 1, e)
             end == findBytes(data)
             N == Len(s)
  <1>1. /\ L \in Nat \ {0} /\ Overlap = L - 1
        /\ N \in Nat /\ r \in Nat /\ a <= r /\ r <= N /\ e \in Nat /\ r < e /\ e <= N
        /\ e \in a .. Len(s)
    BY BoundaryFacts
  <1>2. data \in Seq(0 .. 255) /\ Len(data) = e - a
    <2>1. e \in a .. Len(s)
      BY <1>1
    <2> QED BY <2>1, PartLength
  <1>3. \A i \in 0 .. e - a - L : BoundaryAt(data, i) <=> BoundaryAt(s, a + i)
    BY <1>1, BoundaryOfPart
  <1>4. \/ end = -1 /\ \A i \in 0 .. e - a - L : ~BoundaryAt(data, i)
        \/ /\ end \in 0 .. e - a - L /\ BoundaryAt(data, end)
           /\ \A i \in 0 .. e - a - L : BoundaryAt(data, i) => end <= i
    BY <1>2, FirstBoundary
  <1>5. \A i \in 0 .. r - L : ~BoundaryAt(s, i)
    OBVIOUS
  <1>6. a > 0 => r - a = L - 1
    BY <1>1
  <1> HIDE DEF L, data, end, N
  <1>7. ASSUME NEW i \in Nat, i < a PROVE ~BoundaryAt(s, i)
    <2>1. i \in 0 .. r - L
      BY <1>1, <1>6, <1>7
    <2> QED BY <2>1, <1>5
  <1>8. CASE end = -1
    <2>1. ASSUME NEW i \in 0 .. e - L PROVE ~BoundaryAt(s, i)
      <3>1. CASE i < a
        BY <3>1, <1>7
      <3>2. CASE i >= a
        <4>1. i - a \in 0 .. e - a - L /\ a + (i - a) = i
          BY <3>2, <1>1
        <4> QED BY <4>1, <1>3, <1>4, <1>8
      <3> QED BY <3>1, <3>2
    <2> QED BY <2>1, <1>8 DEF L, end, data
  <1>9. CASE end # -1
    <2>1. /\ end \in 0 .. e - a - L /\ BoundaryAt(data, end)
          /\ \A i \in 0 .. e - a - L : BoundaryAt(data, i) => end <= i
      BY <1>4, <1>9
    <2>2. BoundaryAt(s, a + end) /\ a + end \in 0 .. N - L
      BY <1>1, <1>3, <2>1
    <2>3. ASSUME NEW j \in 0 .. (a + end) - 1 PROVE ~BoundaryAt(s, j)
      <3>1. CASE j < a
        BY <3>1, <1>7
      <3>2. CASE j >= a
        <4>1. j - a \in 0 .. e - a - L /\ a + (j - a) = j /\ j - a < end
          BY <3>2, <1>1, <2>1
        <4>2. ~(end <= j - a)
          BY <4>1, <2>1, <1>1
        <4> QED BY <4>1, <4>2, <1>3, <2>1
      <3> QED BY <3>1, <3>2, <2>1, <1>1
    <2>4. findBytes(s) = a + end
      <3>1. a + end \in 0 .. Len(s) - Len(Boundary)
        BY <2>2 DEF N, L
      <3> QED BY <3>1, <2>2, <2>3, FirstBoundaryOnly
    <2> QED BY <2>1, <2>4 DEF L, end, data
  <1> QED BY <1>8, <1>9

-----------------------------------------------------------------------------
(* What a request is while it is received: its length, what is still to     *)
(* come, and what the buffer holds once n bytes more have arrived.          *)
LEMMA ReceiveFacts ==
    ASSUME FirmwareInv, NEW n \in 1 .. BufferLength, Receive(n)
    PROVE  LET a == Len(image)
               r == a + Len(buffer)
               e == r + n
               data == buffer \o SubSeq(body, 1, n)
           IN  /\ a \in Nat /\ r \in a .. Len(sent) /\ e \in r + 1 .. Len(sent)
               /\ data = SubSeq(sent, a + 1, e)
               /\ SubSeq(body, n + 1, Len(body)) = SubSeq(sent, e + 1, Len(sent))
               /\ \A k \in 0 .. e - a :
                      image \o SubSeq(data, 1, k) = SubSeq(sent, 1, a + k)
  <1> DEFINE a == Len(image)
             r == a + Len(buffer)
             e == r + n
             N == Len(sent)
             data == buffer \o SubSeq(body, 1, n)
  <1>1. /\ sent \in Seq(0 .. 255) /\ body \in Seq(0 .. 255)
        /\ buffer \in Seq(0 .. 255) /\ image \in Seq(0 .. 255)
    BY DEF FirmwareInv, ImageFollowsRequest
  <1>2. RequestInParts /\ n \in 1 .. Len(body)
    BY DEF FirmwareInv, ImageFollowsRequest, Receive
  <1>3. /\ r <= N
        /\ image = SubSeq(sent, 1, a)
        /\ buffer = SubSeq(sent, a + 1, r)
        /\ body = SubSeq(sent, r + 1, N)
    BY <1>2 DEF RequestInParts
  <1>4. /\ a \in Nat /\ N \in Nat /\ r \in a .. N /\ N \in r .. Len(sent)
        /\ r \in Nat /\ n \in Nat
    BY <1>1, <1>3
  <1>5. Len(body) = N - r
    BY <1>1, <1>3, <1>4, PartLength
  <1>6. e \in r + 1 .. Len(sent) /\ e \in Nat /\ n \in 0 .. N - r
    BY <1>2, <1>4, <1>5
  <1> HIDE DEF a, r, e, N
  <1>7. SubSeq(body, 1, n) = SubSeq(sent, r + 1, e)
    <2>1. SubSeq(SubSeq(sent, r + 1, N), 0 + 1, n) = SubSeq(sent, r + 0 + 1, r + n)
      <3>1. 0 \in Nat /\ n \in 0 .. N - r
        BY <1>6
      <3> QED BY <1>1, <1>4, <3>1, PartOfPart
    <2>2. 0 + 1 = 1 /\ r + 0 + 1 = r + 1
      BY <1>4
    <2> QED BY <1>3, <2>1, <2>2 DEF e
  <1>8. data = SubSeq(sent, a + 1, e)
    <2>1. r \in a .. Len(sent) /\ e \in r .. Len(sent)
      BY <1>4, <1>6 DEF N
    <2>2. SubSeq(sent, a + 1, r) \o SubSeq(sent, r + 1, e) = SubSeq(sent, a + 1, e)
      BY <1>1, <1>4, <2>1, PartsJoin
    <2> QED BY <1>3, <1>7, <2>2
  <1>9. SubSeq(body, n + 1, Len(body)) = SubSeq(sent, e + 1, N)
    <2>1. n \in Nat /\ N - r \in n .. N - r
      BY <1>4, <1>6
    <2>2. SubSeq(SubSeq(sent, r + 1, N), n + 1, N - r) = SubSeq(sent, r + n + 1, r + (N - r))
      BY <1>1, <1>4, <2>1, PartOfPart
    <2>3. r + (N - r) = N
      BY <1>4
    <2> QED BY <1>3, <1>5, <2>2, <2>3 DEF e
  <1>10. ASSUME NEW k \in 0 .. e - a
         PROVE  image \o SubSeq(data, 1, k) = SubSeq(sent, 1, a + k)
    <2>1. /\ e \in a .. Len(sent) /\ 0 \in Nat /\ k \in 0 .. e - a
          /\ a \in 0 .. Len(sent) /\ a + k \in a .. Len(sent)
      BY <1>4, <1>6
    <2>2. SubSeq(SubSeq(sent, a + 1, e), 0 + 1, k) = SubSeq(sent, a + 0 + 1, a + k)
      BY <1>1, <1>4, <2>1, PartOfPart
    <2>3. SubSeq(sent, 0 + 1, a) \o SubSeq(sent, a + 1, a + k) = SubSeq(sent, 0 + 1, a + k)
      BY <1>1, <1>4, <2>1, PartsJoin
    <2>4. 0 + 1 = 1 /\ a + 0 + 1 = a + 1
      BY <1>4
    <2> QED BY <1>3, <1>8, <2>2, <2>3, <2>4
  <1>11. /\ a \in Nat /\ r \in a .. Len(sent) /\ e \in r + 1 .. Len(sent)
         /\ data = SubSeq(sent, a + 1, e)
         /\ SubSeq(body, n + 1, Len(body)) = SubSeq(sent, e + 1, Len(sent))
         /\ \A k \in 0 .. e - a : image \o SubSeq(data, 1, k) = SubSeq(sent, 1, a + k)
    BY <1>4, <1>6, <1>8, <1>9, <1>10 DEF N
  <1> QED BY <1>11 DEF a, r, e

(* Bytes arrive.                                                            *)
LEMMA ReceiveStep ==
    ASSUME FirmwareInv, ProfileTypes, NEW n \in 1 .. BufferLength, Receive(n)
    PROVE  FirmwareInv'
  <1> DEFINE a == Len(image)
             r == a + Len(buffer)
             e == r + n
             N == Len(sent)
             L == Len(Boundary)
             data == buffer \o SubSeq(body, 1, n)
             end == findBytes(data)
             writable == IF end >= 0 THEN end
                         ELSE IF Len(data) > Overlap THEN Len(data) - Overlap ELSE 0
  <1>1. /\ sent \in Seq(0 .. 255) /\ sent' = sent /\ boot' = boot
        /\ L \in Nat \ {0} /\ Overlap = L - 1 /\ N \in Nat
    BY BoundaryFacts DEF FirmwareInv, ImageFollowsRequest, Receive
  <1>2. /\ job.at = "receive" /\ RequestInParts /\ boot = RunningImage
        /\ Len(buffer) \in Nat /\ Len(buffer) < L
    BY DEF FirmwareInv, ImageFollowsRequest, InstallsWhatWasSent, FirmwareTypes, Receive
  <1>3. /\ a \in Nat /\ r \in a .. N /\ e \in r + 1 .. N
        /\ data = SubSeq(sent, a + 1, e)
        /\ SubSeq(body, n + 1, Len(body)) = SubSeq(sent, e + 1, N)
        /\ \A k \in 0 .. e - a : image \o SubSeq(data, 1, k) = SubSeq(sent, 1, a + k)
    BY ReceiveFacts
  <1>4. /\ \A i \in 0 .. r - L : ~BoundaryAt(sent, i)
        /\ a > 0 => r - a = Overlap
    BY <1>1, <1>2 DEF RequestInParts
  <1>5. /\ image' = image \o SubSeq(data, 1, writable)
        /\ buffer' = IF end >= 0 THEN <<>> ELSE SubSeq(data, writable + 1, Len(data))
        /\ body' = SubSeq(body, n + 1, Len(body))
        /\ job' = IF end >= 0 THEN [at |-> "drain"] ELSE job
    BY DEF Receive, Kept
  <1>6. /\ a <= r /\ r < e /\ e <= N /\ r \in Nat /\ e \in Nat
        /\ e \in a .. Len(sent) /\ e \in Nat /\ N \in e .. Len(sent)
        /\ r - a < L
    BY <1>1, <1>2, <1>3
  <1>7. Len(data) = e - a
    BY <1>1, <1>3, <1>6, PartLength
  <1>8. N = Len(sent) /\ L = Len(Boundary) /\ end = findBytes(data)
    OBVIOUS
  <1>9. writable = IF end >= 0 THEN end
                   ELSE IF e - a > L - 1 THEN e - a - (L - 1) ELSE 0
    BY <1>1, <1>6, <1>7
  <1> HIDE DEF a, r, e, N, L, data, end, writable
  <1>10. \/ end \in 0 .. e - a - L /\ findBytes(sent) = a + end
         \/ end = -1 /\ \A i \in 0 .. e - L : ~BoundaryAt(sent, i)
    <2>1. a \in Nat /\ r \in a .. Len(sent) /\ e \in r + 1 .. Len(sent)
      BY <1>3, <1>8
    <2>2. \A i \in 0 .. r - Len(Boundary) : ~BoundaryAt(sent, i)
      BY <1>4, <1>8
    <2>3. \/ end \in 0 .. e - a - Len(Boundary) /\ findBytes(sent) = a + end
          \/ end = -1 /\ \A i \in 0 .. e - Len(Boundary) : ~BoundaryAt(sent, i)
      <3>1. end = findBytes(SubSeq(sent, a + 1, e))
        BY <1>3, <1>8
      <3> QED BY <1>1, <1>4, <2>1, <2>2, <3>1, SearchInParts
    <2> QED BY <1>8, <2>3
  <1>11. body' = SubSeq(sent, e + 1, N) /\ body' \in Seq(0 .. 255) /\ Len(body') = N - e
    <2>1. /\ SubSeq(sent, e + 1, N) \in Seq(0 .. 255)
          /\ Len(SubSeq(sent, e + 1, N)) = N - e
      BY <1>1, <1>6, PartLength
    <2> QED BY <1>3, <1>5, <2>1
  <1>14. writable \in 0 .. e - a /\ image' = SubSeq(sent, 1, a + writable)
    <2>1. writable \in 0 .. e - a
      BY <1>1, <1>3, <1>6, <1>9, <1>10
    <2> QED BY <2>1, <1>3, <1>5
  <1>15. image' \in Seq(0 .. 255) /\ Len(image') = a + writable
    <2>1. 0 \in Nat /\ a + writable \in 0 .. Len(sent) /\ a + writable \in Nat
      BY <1>3, <1>6, <1>8, <1>14
    <2> QED BY <1>1, <1>14, <2>1, FrontLength
  <1>12. CASE end # -1
    <2>1. end \in 0 .. e - a - L /\ findBytes(sent) = a + end /\ end >= 0 /\ writable = end
      BY <1>1, <1>6, <1>9, <1>10, <1>12
    <2>2. job' = [at |-> "drain"] /\ buffer' = <<>>
      BY <1>5, <2>1
    <2>3. ImageCutOff'
      BY <1>1, <1>14, <1>15, <2>1 DEF ImageCutOff
    <2>4. FirmwareTypes'
      <3>1. Len(buffer') = 0 /\ Len(Boundary) = L /\ Len(sent') = N
        BY <1>1, <1>8, <2>2
      <3>2. Len(image') + 0 + Len(body') <= N /\ 0 < L
        BY <1>1, <1>3, <1>6, <1>11, <1>15, <2>1
      <3> QED BY <3>1, <3>2 DEF FirmwareTypes
    <2>5. buffer' \in Seq(0 .. 255)
      BY <2>2
    <2> QED BY <1>1, <1>2, <1>11, <1>15, <2>2, <2>3, <2>4, <2>5
          DEF FirmwareInv, ImageFollowsRequest, InstallsWhatWasSent
  <1>13. CASE end = -1
    <2> DEFINE w == writable
    <2>1. /\ w = IF e - a > L - 1 THEN e - a - (L - 1) ELSE 0
          /\ job' = job /\ buffer' = SubSeq(data, w + 1, e - a)
      BY <1>1, <1>5, <1>7, <1>9, <1>13
    <2> HIDE DEF w
    <2>2. w \in 0 .. e - a /\ image' = SubSeq(sent, 1, a + w) /\ Len(image') = a + w
      BY <1>14, <1>15 DEF w
    <2>3. buffer' = SubSeq(sent, a + w + 1, e)
      <3>1. w \in Nat /\ e - a \in w .. e - a /\ a + (e - a) = e
        BY <1>3, <1>6, <2>2
      <3>2. SubSeq(SubSeq(sent, a + 1, e), w + 1, e - a) = SubSeq(sent, a + w + 1, a + (e - a))
        BY <1>1, <1>3, <1>6, <3>1, PartOfPart
      <3> QED BY <1>3, <2>1, <3>1, <3>2
    <2>4. buffer' \in Seq(0 .. 255) /\ Len(buffer') = e - (a + w)
      <3>1. a + w \in Nat /\ e \in a + w .. Len(sent)
        BY <1>3, <1>6, <2>2
      <3> QED BY <1>1, <2>3, <3>1, PartLength
    <2>5. /\ Len(image') + Len(buffer') = e /\ Len(buffer') <= L - 1
          /\ a + w > 0 => Len(buffer') = L - 1
      BY <1>1, <1>3, <1>4, <1>6, <2>1, <2>2, <2>4
    <2>6. image' # <<>> => a + w > 0
      BY <1>15, <1>3, <2>2
    <2>7. RequestInParts'
      <3>1. \A i \in 0 .. e - L : ~BoundaryAt(sent, i)
        BY <1>10, <1>13, <1>6
      <3> QED BY <1>1, <1>6, <1>11, <2>2, <2>3, <2>5, <2>6, <3>1
            DEF RequestInParts, BoundaryAt, Overlap, L, N
    <2>8. FirmwareTypes'
      <3>1. Len(Boundary) = L /\ Len(sent') = N
        BY <1>1, <1>8
      <3>2. Len(image') + Len(buffer') + Len(body') = N /\ Len(buffer') < L
        BY <1>1, <1>6, <1>11, <2>4, <2>5
      <3> QED BY <1>1, <3>1, <3>2 DEF FirmwareTypes
    <2> QED BY <1>1, <1>2, <1>11, <1>15, <2>1, <2>4, <2>7, <2>8
          DEF FirmwareInv, ImageFollowsRequest, InstallsWhatWasSent
  <1> QED BY <1>12, <1>13

(* A request begins.                                                        *)
LEMMA BeginStep ==
    ASSUME FirmwareInv, NEW b \in Bodies, FirmwareBegin(b)
    PROVE  FirmwareInv'
  <1>1. b \in Seq(0 .. 255) /\ <<>> \in Seq(0 .. 255)
    BY BytesAssumption
  <1>2. /\ job = NoRequest /\ job' = [at |-> "receive"] /\ boot' = boot
        /\ body' = b /\ sent' = b /\ buffer' = <<>> /\ image' = <<>>
    BY DEF FirmwareBegin
  <1>3. boot' = RunningImage
    BY <1>2 DEF FirmwareInv, InstallsWhatWasSent
  <1>4. Len(buffer') = 0 /\ Len(image') = 0 /\ Len(b) \in Nat
    BY <1>1, <1>2
  <1>5. FirmwareTypes'
    BY <1>2, <1>4, BoundaryFacts DEF FirmwareTypes
  <1>6. RequestInParts'
    <2>1. SubSeq(b, 1, 0) = <<>> /\ SubSeq(b, 1, Len(b)) = b
      BY <1>1, SubSeqEmpty, SubSeqFull
    <2>2. 0 + 0 = 0 /\ 0 + 1 = 1
      OBVIOUS
    <2>3. \A i \in 0 .. 0 - Len(Boundary) : FALSE
      BY BoundaryFacts
    <2> QED BY <1>2, <1>4, <2>1, <2>2, <2>3 DEF RequestInParts
  <1> QED BY <1>1, <1>2, <1>3, <1>5, <1>6 DEF FirmwareInv, InstallsWhatWasSent, ImageFollowsRequest

(* The rest of a request is drained.                                        *)
LEMMA DrainStep ==
    ASSUME FirmwareInv, NEW n \in 1 .. BufferLength, Drain(n)
    PROVE  FirmwareInv'
  <1>1. /\ job.at = "drain" /\ n \in 1 .. Len(body)
        /\ body' = SubSeq(body, n + 1, Len(body))
        /\ UNCHANGED <<job, buffer, image, boot, sent>>
    BY DEF Drain
  <1>2. body \in Seq(0 .. 255) /\ {sent, buffer, image} \subseteq Seq(0 .. 255)
    BY DEF FirmwareInv, ImageFollowsRequest
  <1>3. body' \in Seq(0 .. 255) /\ Len(body') = Len(body) - n
    <2>1. n \in Nat /\ Len(body) \in n .. Len(body)
      BY <1>1, <1>2
    <2> QED BY <1>1, <1>2, <2>1, PartLength
  <1>4. FirmwareTypes'
    <2>1. FirmwareTypes
      BY DEF FirmwareInv, InstallsWhatWasSent
    <2>2. /\ Len(buffer) \in Nat /\ Len(image) \in Nat /\ Len(body) \in Nat /\ Len(sent) \in Nat
      BY <1>2
    <2>3. /\ n \in Nat /\ Len(buffer') = Len(buffer) /\ Len(image') = Len(image)
          /\ Len(sent') = Len(sent)
      BY <1>1
    <2>4. Len(buffer) < Len(Boundary) /\ Len(image) + Len(buffer) + Len(body) <= Len(sent)
      BY <2>1 DEF FirmwareTypes
    <2>5. Len(image') + Len(buffer') + Len(body') <= Len(sent')
      BY <1>3, <2>2, <2>3, <2>4
    <2> QED BY <2>3, <2>4, <2>5 DEF FirmwareTypes
  <1>5. ImageCutOff'
    BY <1>1 DEF FirmwareInv, ImageFollowsRequest, ImageCutOff
  <1>6. boot' = RunningImage
    BY <1>1 DEF FirmwareInv, InstallsWhatWasSent
  <1> QED BY <1>1, <1>2, <1>3, <1>4, <1>5, <1>6
        DEF FirmwareInv, InstallsWhatWasSent, ImageFollowsRequest

(* The image of a request that was received without a boundary.             *)
LEMMA UncutImage ==
    ASSUME FirmwareInv, job.at = "receive", body = <<>>
    PROVE  /\ findBytes(sent) = -1
           /\ image = SubSeq(sent, 1, IF Len(sent) >= Len(Boundary)
                                      THEN Len(sent) - Len(Boundary) + 1 ELSE 0)
  <1> DEFINE a == Len(image)
             r == a + Len(buffer)
             N == Len(sent)
             L == Len(Boundary)
  <1>1. /\ sent \in Seq(0 .. 255) /\ buffer \in Seq(0 .. 255) /\ image \in Seq(0 .. 255)
        /\ RequestInParts /\ Len(buffer) < L
        /\ L \in Nat \ {0} /\ Overlap = L - 1
    BY BoundaryFacts DEF FirmwareInv, ImageFollowsRequest, InstallsWhatWasSent, FirmwareTypes
  <1>2. /\ r <= N /\ image = SubSeq(sent, 1, a)
        /\ <<>> = SubSeq(sent, r + 1, N)
        /\ \A i \in 0 .. r - L : ~BoundaryAt(sent, i)
        /\ image # <<>> => Len(buffer) = Overlap
    BY <1>1 DEF RequestInParts
  <1>3. /\ a \in Nat /\ N \in Nat /\ r \in Nat /\ N \in r .. Len(sent)
        /\ Len(buffer) = r - a /\ a <= r
        /\ a > 0 => image # <<>>
    BY <1>1, <1>2
  <1>4. N = Len(sent) /\ L = Len(Boundary)
    OBVIOUS
  <1> HIDE DEF a, r, N, L
  <1>5. r = N
    <2>1. Len(SubSeq(sent, r + 1, N)) = N - r
      BY <1>1, <1>3, PartLength
    <2> QED BY <1>2, <1>3, <2>1
  <1>6. findBytes(sent) = -1
    <2>1. \A i \in 0 .. Len(sent) - Len(Boundary) : ~BoundaryAt(sent, i)
      BY <1>2, <1>4, <1>5
    <2> QED BY <1>1, <2>1, FirstBoundary
  <1>7. a = IF N >= L THEN N - L + 1 ELSE 0
    <2>1. a > 0 => r - a = L - 1
      BY <1>1, <1>2, <1>3
    <2>2. r - a < L
      BY <1>1, <1>3, <1>4
    <2> QED BY <1>1, <1>3, <1>5, <2>1, <2>2
  <1> QED BY <1>2, <1>4, <1>6, <1>7

(* The image is installed.                                                  *)
LEMMA UpdateEndStep ==
    ASSUME FirmwareInv, UpdateEnd
    PROVE  FirmwareInv'
  <1>1. /\ job.at \in {"receive", "drain"} /\ body = <<>>
        /\ boot' = image /\ job' = [at |-> "restart"]
        /\ UNCHANGED <<body, buffer, image, sent>>
    BY DEF UpdateEnd
  <1> DEFINE length == IF findBytes(sent) >= 0 THEN findBytes(sent)
                       ELSE IF Len(sent) >= Len(Boundary)
                              THEN Len(sent) - Len(Boundary) + 1 ELSE 0
  <1>2. image = SubSeq(sent, 1, length)
    <2>1. CASE job.at = "receive"
      BY <1>1, <2>1, UncutImage
    <2>2. CASE job.at = "drain"
      <3>1. ImageCutOff /\ Len(image) \in Nat
        BY <2>2 DEF FirmwareInv, ImageFollowsRequest
      <3> QED BY <3>1 DEF ImageCutOff
    <2> QED BY <1>1, <2>1, <2>2
  <1>3. FirmwareTypes'
    BY <1>1 DEF FirmwareInv, InstallsWhatWasSent, FirmwareTypes
  <1>4. InstallsWhatWasSent'
    BY <1>1, <1>2, <1>3 DEF InstallsWhatWasSent
  <1> QED BY <1>1, <1>4 DEF FirmwareInv, ImageFollowsRequest

(* A request fails or the unit restarts: nothing is left of the request,    *)
(* and the unit runs the image it was running.                              *)
LEMMA ResetStep ==
    ASSUME Reset, job' = NoRequest, boot' = RunningImage
    PROVE  FirmwareInv'
  <1>1. /\ image' = <<>> /\ body' = <<>> /\ buffer' = <<>> /\ sent' = <<>>
        /\ <<>> \in Seq(0 .. 255) /\ Len(<<>>) = 0
    BY DEF Reset
  <1>2. FirmwareTypes'
    BY <1>1, BoundaryFacts DEF FirmwareTypes
  <1> QED BY <1>1, <1>2 DEF FirmwareInv, InstallsWhatWasSent, ImageFollowsRequest

(* A profile handler, and a step that changes nothing.                      *)
LEMMA NoRequestStep ==
    ASSUME FirmwareInv, UNCHANGED firmwareVars,
           job' = job \/ {job.at, job'.at} \cap {"receive", "drain", "restart"} = {}
    PROVE  FirmwareInv'
  <1>1. /\ UNCHANGED <<body, buffer, image, boot, sent>>
        /\ {job.at, job'.at} \cap {"receive", "drain", "restart"} # {} => job' = job
    BY DEF firmwareVars
  <1>2. FirmwareTypes' /\ (RequestInParts <=> RequestInParts') /\ (ImageCutOff <=> ImageCutOff')
    BY <1>1 DEF FirmwareInv, InstallsWhatWasSent, FirmwareTypes, RequestInParts, ImageCutOff
  <1> QED BY <1>1, <1>2 DEF FirmwareInv, InstallsWhatWasSent, ImageFollowsRequest

(* The firmware half is an invariant too.                                   *)
LEMMA ImageInvariance == UploadSpec => []FirmwareInv
  <1>1. UploadInit => FirmwareInv
    <2> SUFFICES ASSUME UploadInit PROVE FirmwareInv
      OBVIOUS
    <2>1. /\ job = NoRequest /\ boot = RunningImage
          /\ body = <<>> /\ buffer = <<>> /\ image = <<>> /\ sent = <<>>
          /\ <<>> \in Seq(0 .. 255) /\ Len(<<>>) = 0
      BY DEF UploadInit
    <2>2. FirmwareTypes
      BY <2>1, BoundaryFacts DEF FirmwareTypes
    <2> QED BY <2>1, <2>2 DEF FirmwareInv, InstallsWhatWasSent, ImageFollowsRequest
  <1>2. FirmwareInv /\ ProfileInv /\ [UploadNext]_uploadVars => FirmwareInv'
    <2> SUFFICES ASSUME FirmwareInv, ProfileInv, [UploadNext]_uploadVars PROVE FirmwareInv'
      OBVIOUS
    <2>1. CASE \E n \in Profiles :
                 (\E line \in Lines : UploadOpen(n, line)) \/ ActivateOpen(n) \/ DeleteFile(n)
      BY <2>1, NoRequestStep DEF UploadOpen, ActivateOpen, DeleteFile
    <2>2. CASE UploadClose \/ UploadFails \/ UploadRemove
      <3>1. {job.at, job'.at} \cap {"receive", "drain", "restart"} = {}
        <4>1. CASE UploadClose \/ UploadRemove
          <5>1. job.at \in {"upload", "remove upload"} /\ job' = NoRequest
            BY <4>1 DEF UploadClose, UploadRemove, Done
          <5>2. job'.at = "idle"
            BY <5>1
          <5> QED BY <5>1, <5>2
        <4>2. CASE UploadFails
          <5>1. /\ job \in [at : {"upload", "remove upload"}, name : Profiles, line : Lines]
                /\ job.at = "upload"
            BY <4>2, JobFacts DEF ProfileInv, ProfilesWhole, UploadFails
          <5>2. job'.at = "remove upload"
            BY <4>2, <5>1 DEF UploadFails
          <5> QED BY <5>1, <5>2
        <4> QED BY <2>2, <4>1, <4>2
      <3> QED BY <2>2, <3>1, NoRequestStep DEF UploadClose, UploadFails, UploadRemove
    <2>3. CASE ActivateClose \/ DeleteActive
      BY <2>3, NoRequestStep DEF ActivateClose, DeleteActive, Done
    <2>4. CASE \E b \in Bodies : FirmwareBegin(b)
      BY <2>4, BeginStep
    <2>5. CASE \E n \in 1 .. BufferLength : Receive(n) \/ Drain(n)
      <3>1. ProfileTypes
        BY DEF ProfileInv, ProfilesWhole
      <3> QED BY <2>5, <3>1, ReceiveStep, DrainStep
    <2>6. CASE UpdateEnd
      BY <2>6, UpdateEndStep
    <2>7. CASE UpdateAbort
      <3>1. boot = RunningImage
        BY <2>7 DEF UpdateAbort, FirmwareInv, InstallsWhatWasSent
      <3> QED BY <2>7, <3>1, ResetStep DEF UpdateAbort, Done
    <2>8. CASE Restart
      BY <2>8, ResetStep DEF Restart, Done
    <2>9. CASE UNCHANGED uploadVars
      BY <2>9, NoRequestStep DEF uploadVars
    <2> QED BY <2>1, <2>2, <2>3, <2>4, <2>5, <2>6, <2>7, <2>8, <2>9 DEF UploadNext
  <1> QED BY <1>1, <1>2, ProfileInvariance, PTL DEF UploadSpec

(* Wherever the network cuts a firmware request and whatever fails: what is *)
(* installed is what precedes the first boundary in it, for every boundary, *)
(* every request and every size of the buffer that can hold a boundary.     *)
THEOREM InstalledImageIsWhatWasSent == UploadSpec => []InstallsWhatWasSent
  <1>1. FirmwareInv => InstallsWhatWasSent
    BY DEF FirmwareInv
  <1> QED BY <1>1, ImageInvariance, PTL
=============================================================================
