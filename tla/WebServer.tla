----------------------------- MODULE WebServer -----------------------------
(***************************************************************************)
(* The web configuration server (main/myWebServer.cpp) on top of Network:  *)
(* its state machine in the main task, the WebSocket session that the HTTP *)
(* server's own task opens and closes, and what HAL_Update makes of that   *)
(* session: the Bluetooth data interface is off while one is active.       *)
(*                                                                         *)
(* The two tasks share the client socket and the times of the last         *)
(* activity with no lock, so the stores of a handler are steps of their    *)
(* own, and so are the choice of a socket to send to and the store that    *)
(* follows a failed send.  The times only decide whether 5 s have passed:  *)
(* recent is that decision.  httpd_stop waits for the handler in progress. *)
(* The browser pages, the descriptors the HTTP server gives them and the   *)
(* stations on the access point are external.                              *)
(***************************************************************************)
EXTENDS Network, FiniteSets

CONSTANTS Sockets,      (* descriptors of the HTTP server for WebSockets    *)
          MaxOpenings,  (* bound: times a page opens its WebSocket          *)
          MaxStarts,    (* bound: calls of webServerStart                   *)
          MaxEvents,    (* bound: driver events that wait                   *)
          None

ASSUME WebServerAssumption == MaxOpenings \in Nat /\ MaxStarts \in Nat /\ MaxEvents \in Nat
ASSUME SocketsAssumption ==
    /\ None \notin Sockets
    /\ Sockets \cap {"network", "web", "send", "interface"} = {}

VARIABLES net,            (* the network layer                              *)
          web,            (* webServerState                                 *)
          handle,         (* webServerHandle # nullptr                      *)
          socket,         (* webServerClientSocket                          *)
          recent,         (* activity less than webServerConfigSessionGraceMs ago *)
          dataInterface,  (* last bluetoothSetDataInterfaceEnabled          *)
          main,           (* where the main task is in HAL_Update           *)
          http,           (* what the HTTP task is handling                 *)
          open,           (* sockets with a page at the other end           *)
          stations,       (* somebody is on the access point                *)
          openings, starts,
          opened          (* history: sockets a page ever opened            *)

session == <<socket, recent>>
browser == <<open, stations, openings, opened>>
vars == <<net, web, handle, session, dataInterface, main, http, browser, starts>>

Idle == [doing |-> "nothing", socket |-> None]

Init ==
    /\ net = NoNetwork
    /\ web = "OFF" /\ handle = FALSE
    /\ socket = None /\ recent = FALSE
    /\ dataInterface = TRUE
    /\ main = "network"
    /\ http = Idle
    /\ open = {} /\ stations = FALSE
    /\ openings = 0 /\ starts = 0 /\ opened = {}

-----------------------------------------------------------------------------
(* The main task.                                                           *)

(* networkInterfaceHasInternet(NETWORK_WIFI_STATION) decides whether the    *)
(* station is wanted too; wifiConfigOverAP is set in every build.           *)
webServerStart ==
    /\ main = "network"
    /\ web = "OFF"
    /\ starts < MaxStarts
    /\ starts' = starts + 1
    /\ \E n \in IF net.staOnline THEN ConsumerAdd(net, "web") ELSE {net} :
          net' \in SoftApConsumerAdd(n, "web")
    /\ web' = "WAIT_FOR_NETWORK"
    /\ UNCHANGED <<handle, session, dataInterface, main, http, browser>>

(* Another consumer of the station comes and goes.                          *)
OtherConsumer ==
    /\ main = "network"
    /\ net' \in (IF "other" \in net.station THEN ConsumerRemove(net, "other")
                                            ELSE ConsumerAdd(net, "other"))
    /\ UNCHANGED <<web, handle, session, dataInterface, main, http, browser, starts>>

networkUpdate ==
    /\ main = "network"
    /\ net' \in applyRequestedNetworkState(net)
    /\ main' = "web"
    /\ UNCHANGED <<web, handle, session, dataInterface, http, browser, starts>>

(* Slip: the session survives the server it belonged to.                    *)
HttpStopKeepsSession ==
    /\ http = Idle
    /\ handle' = FALSE
    /\ open' = {}
    /\ UNCHANGED session

(* httpd_stop, then webServerClearClientSession.                            *)
HttpStop ==
    /\ http = Idle
    /\ handle' = FALSE
    /\ open' = {}
    /\ socket' = None /\ recent' = FALSE

webServerStop ==
    /\ HttpStop
    /\ \E n \in ConsumerRemove(UserRemove(net, "web"), "web") :
          net' \in SoftApConsumerRemove(n, "web")
    /\ web' = "OFF"

(* Slip: only the station counts as a network.                              *)
NetworkUsableStation == "web" \in net.station /\ net.staOnline

NetworkUsable == ConsumerIsConnected(net, "web") \/ net.apRunning

(* webServerUpdate, one disjunct per case.                                  *)
Off ==
    /\ web = "OFF"
    /\ main' = "interface"
    /\ UNCHANGED <<net, web, handle, session, open>>

WaitForNetwork ==
    /\ web = "WAIT_FOR_NETWORK"
    /\ \/ /\ NetworkUsable
          /\ net' = UserAdd(net, "web")
          /\ web' = "NETWORK_CONNECTED"
       \/ ~NetworkUsable /\ UNCHANGED <<net, web>>
    /\ main' = "interface"
    /\ UNCHANGED <<handle, session, open>>

(* A handler that cannot be registered: what was started is stopped, the    *)
(* consumers go, and nothing starts the server again.                       *)
RegistrationFails == webServerStop

(* webServerAssignResources: within a second of the last attempt, or when   *)
(* httpd_start fails, everything stays as it is.                            *)
HttpStarts ==
    /\ web = "NETWORK_CONNECTED" /\ NetworkUsable
    /\ handle' = TRUE
    /\ web' = "RUNNING"
    /\ main' = "interface"
    /\ UNCHANGED <<net, session, open>>

NetworkConnected ==
    /\ web = "NETWORK_CONNECTED"
    /\ \/ /\ ~NetworkUsable
          /\ net' = UserRemove(net, "web")
          /\ web' = "WAIT_FOR_NETWORK"
          /\ UNCHANGED <<handle, session, open>>
       \/ NetworkUsable /\ UNCHANGED <<net, web, handle, session, open>>
       \/ NetworkUsable /\ RegistrationFails
    /\ main' = "interface"

(* The consumer stays a user of the network it lost.                        *)
Running ==
    /\ web = "RUNNING"
    /\ \/ /\ ~NetworkUsable
          /\ HttpStop
          /\ web' = "WAIT_FOR_NETWORK"
       \/ NetworkUsable /\ UNCHANGED <<handle, web, session, open>>
    /\ main' = "send"
    /\ UNCHANGED net

webServerUpdate ==
    /\ main = "web"
    /\ Off \/ WaitForNetwork \/ HttpStarts \/ NetworkConnected \/ Running
    /\ UNCHANGED <<dataInterface, http, stations, openings, opened, starts>>

(* webServerSendLiveStatus, with which a running server's update ends: no   *)
(* server, no client or less than 5 s since the last time, or a send to the *)
(* socket there is.                                                         *)
SendSkipped ==
    /\ main = "send"
    /\ main' = "interface"
    /\ UNCHANGED <<net, web, handle, session, dataInterface, http, browser, starts>>

SendBegin ==
    /\ main = "send"
    /\ handle /\ socket # None
    /\ main' = socket
    /\ UNCHANGED <<net, web, handle, session, dataInterface, http, browser, starts>>

(* Slip: a send that failed is tried again for ever.                        *)
SentKeepsSocket ==
    /\ main \in Sockets
    /\ \/ recent' = TRUE /\ UNCHANGED socket
       \/ UNCHANGED session
    /\ main' = "interface"
    /\ UNCHANGED <<net, web, handle, dataInterface, http, browser, starts>>

(* webServerSendString: a send that fails, to a page that is still there as *)
(* well as to one that is gone, ends the session, whosever it is by now.  A *)
(* send to a page that is gone may go well for a while.                     *)
Sent ==
    /\ main \in Sockets
    /\ \/ recent' = TRUE /\ UNCHANGED socket
       \/ socket' = None /\ UNCHANGED recent
    /\ main' = "interface"
    /\ UNCHANGED <<net, web, handle, dataInterface, http, browser, starts>>

(* webServerHasActiveConfigSession: nobody on the access point ends the     *)
(* session; a socket is an active session; without one 5 s of grace.        *)
SessionCleared == handle /\ ~(net.apRunning /\ stations)

(* Slip: the time of the last activity is asked for before the socket is.   *)
DataInterfaceByTime ==
    /\ main = "interface"
    /\ IF web = "RUNNING" /\ (SessionCleared \/ ~recent)
         THEN socket' = None /\ recent' = FALSE
         ELSE UNCHANGED session
    /\ dataInterface' = ~(web = "RUNNING" /\ ~SessionCleared /\ recent)
    /\ main' = "network"
    /\ UNCHANGED <<net, web, handle, http, browser, starts>>

DataInterface ==
    /\ main = "interface"
    /\ IF web = "RUNNING" /\ SessionCleared
         THEN socket' = None /\ recent' = FALSE
         ELSE UNCHANGED session
    /\ dataInterface' = ~(/\ web = "RUNNING" /\ ~SessionCleared
                          /\ socket # None \/ recent)
    /\ main' = "network"
    /\ UNCHANGED <<net, web, handle, http, browser, starts>>

-----------------------------------------------------------------------------
(* The HTTP task: one handler at a time.                                    *)

MayRequest == /\ http = Idle
              /\ handle
              /\ stations \/ net.staOnline

(* webServerHandlerWebSockets, the GET that opens a page's WebSocket: three *)
(* stores.  The socket is any that no page has open: a page that opens its  *)
(* WebSocket again may get another one, or the one another page had.        *)
PageOpens(s) ==
    /\ MayRequest
    /\ s \notin open
    /\ openings < MaxOpenings
    /\ openings' = openings + 1
    /\ open' = open \union {s} /\ opened' = opened \union {s}
    /\ recent' = TRUE
    /\ http' = [doing |-> "open", socket |-> s]
    /\ UNCHANGED <<net, web, handle, socket, dataInterface, main, stations, starts>>

StoreSocket ==
    /\ http.doing = "open"
    /\ socket' = http.socket
    /\ http' = [http EXCEPT !.doing = "time"]
    /\ UNCHANGED <<net, web, handle, recent, dataInterface, main, browser, starts>>

StoreTime ==
    /\ http.doing = "time"
    /\ recent' = TRUE
    /\ http' = Idle
    /\ UNCHANGED <<net, web, handle, socket, dataInterface, main, browser, starts>>

(* What a handler sends goes to the socket of whichever page opened last.   *)
Sends == {[doing |-> "answer", socket |-> s] : s \in Sockets \intersect {socket}}

(* A frame from a page: clientReady is answered; any other sets fields.     *)
Frame(s) ==
    /\ MayRequest
    /\ s \in open
    /\ recent' = TRUE
    /\ http' \in {Idle} \union Sends
    /\ UNCHANGED <<net, web, handle, socket, dataInterface, main, browser, starts>>

(* A request of any client, WebSocket or none: for a page, its head or what *)
(* there is not, which mark activity; or an uploaded profile, which does    *)
(* not but tells the page that opened last.                                 *)
PageRequest ==
    /\ MayRequest
    /\ \/ recent' = TRUE /\ UNCHANGED http
       \/ http' \in Sends /\ UNCHANGED recent
    /\ UNCHANGED <<net, web, handle, socket, dataInterface, main, browser, starts>>

Answered ==
    /\ http.doing = "answer"
    /\ \/ recent' = TRUE /\ UNCHANGED socket
       \/ socket' = None /\ UNCHANGED recent
    /\ http' = Idle
    /\ UNCHANGED <<net, web, handle, dataInterface, main, browser, starts>>

(* A CLOSE frame ends the session, also when it is another page's.          *)
CloseFrame(s) ==
    /\ http = Idle /\ handle
    /\ s \in open
    /\ open' = open \ {s}
    /\ recent' = TRUE
    /\ http' = [doing |-> "close", socket |-> s]
    /\ UNCHANGED <<net, web, handle, socket, dataInterface, main, stations, openings, opened,
                   starts>>

Closed ==
    /\ http.doing = "close"
    /\ socket' = None
    /\ http' = Idle
    /\ UNCHANGED <<net, web, handle, recent, dataInterface, main, browser, starts>>

HttpTask == StoreSocket \/ StoreTime \/ Answered \/ Closed

-----------------------------------------------------------------------------
(* The surroundings.                                                        *)

(* eventHandler, in the task of the WiFi events.                            *)
EventTask ==
    /\ net.events # <<>>
    /\ net' = Handled(net)
    /\ UNCHANGED <<web, handle, session, dataInterface, main, http, browser, starts>>

(* A running station loses its network, or finds it again by itself.        *)
Link ==
    /\ net.staRunning
    /\ Len(net.events) < MaxEvents
    /\ net' = Report(net, IF net.linked THEN "down" ELSE "up")
    /\ UNCHANGED <<web, handle, session, dataInterface, main, http, browser, starts>>

(* Someone joins the access point, or the last one leaves it; a page is     *)
(* gone without a word; 5 s pass without activity.                          *)
Associate ==
    /\ stations' = ~stations
    /\ UNCHANGED <<net, web, handle, session, dataInterface, main, http, open, openings,
                   opened, starts>>

Vanish(s) ==
    /\ s \in open
    /\ open' = open \ {s}
    /\ UNCHANGED <<net, web, handle, session, dataInterface, main, http, stations, openings,
                   opened, starts>>

GraceEnds ==
    /\ recent
    /\ recent' = FALSE
    /\ UNCHANGED <<net, web, handle, socket, dataInterface, main, http, browser, starts>>

-----------------------------------------------------------------------------
(* The driver's events do not pile up while the main task goes on.          *)
MainTask == \/ networkUpdate /\ Len(net.events) < MaxEvents
            \/ webServerUpdate \/ SendSkipped \/ SendBegin \/ Sent \/ DataInterface

Next ==
    \/ webServerStart
    \/ OtherConsumer /\ Len(net.events) < MaxEvents
    \/ MainTask
    \/ HttpTask
    \/ \E s \in Sockets : PageOpens(s) \/ Frame(s) \/ CloseFrame(s) \/ Vanish(s)
    \/ PageRequest
    \/ EventTask \/ Link \/ Associate \/ GraceEnds

Spec == Init /\ [][Next]_vars

(* Every task goes on; time passes; a server whose update comes round again *)
(* and again sends; the access point and the HTTP server do start one day,  *)
(* and a send to a page that is gone does fail one day.                     *)
Fairness ==
    /\ WF_vars(MainTask)
    /\ WF_vars(HttpTask)
    /\ WF_vars(EventTask)
    /\ WF_vars(GraceEnds)
    /\ SF_vars(SendBegin)
    /\ SF_vars(networkUpdate /\ net'.apRunning)
    /\ SF_vars(webServerUpdate /\ HttpStarts)
    /\ SF_vars(Sent /\ main \notin open /\ socket' = None)

FairSpec == Spec /\ Fairness

-----------------------------------------------------------------------------
TypeOK ==
    /\ net \in Networks
    /\ Len(net.events) <= MaxEvents + 4
    /\ net.users \subseteq net.softAp \union net.station
    /\ web \in {"OFF", "WAIT_FOR_NETWORK", "NETWORK_CONNECTED", "RUNNING"}
    /\ handle \in BOOLEAN /\ recent \in BOOLEAN /\ dataInterface \in BOOLEAN
    /\ socket \in Sockets \union {None}
    /\ main \in {"network", "web", "send", "interface"} \union Sockets
    /\ http \in {Idle} \union [doing : {"open", "time", "answer", "close"}, socket : Sockets]
    /\ open \subseteq opened /\ opened \subseteq Sockets /\ stations \in BOOLEAN
    /\ openings \in 0 .. MaxOpenings /\ starts \in 0 .. MaxStarts

(* The HTTP server runs exactly in the state that says so, whatever failed  *)
(* while it was started; a server that is off asks for no network and is    *)
(* none of its users; and without a server there is no session, although    *)
(* the session is opened by another task (webServerStop, the network lost   *)
(* in webServerUpdate).                                                     *)
ServerMatchesState ==
    /\ TypeOK
    /\ handle <=> web = "RUNNING"
    /\ web = "OFF" => "web" \notin net.softAp \union net.station \union net.users
    /\ ~handle => socket = None /\ ~recent /\ http = Idle

(* A page that is the only one ever opened keeps its session, however long  *)
(* it is silent, until the server stops, nobody is on the access point or a *)
(* send to it fails.  (With a second page it may lose it: the second's      *)
(* CLOSE, or a send that failed before it connected, resets whichever       *)
(* socket is stored.)                                                       *)
SendEnds(s) == \/ main = s /\ main' # s
               \/ http.doing = "answer" /\ http.socket = s /\ http' = Idle

LonePageKeepsSession ==
    [][\A s \in Sockets :
          opened = {s} /\ socket = s /\ s \in open /\ s \in open'
              => socket' = s \/ ~handle' \/ SessionCleared \/ SendEnds(s)]_vars

(* Once every page is gone, closed or not, and no client makes requests any *)
(* more, the session ends and Bluetooth gets its data interface back for    *)
(* good.                                                                    *)
SessionEnds ==
    <>[](open = {}) /\ <>[][~PageRequest]_vars => <>[]dataInterface

(* A server that was started gets to run in spite of interfaces and sockets *)
(* that fail to start, unless its pages cannot be registered, which turns   *)
(* it off for good (myWebServer.cpp:1607).                                  *)
ServerRuns == web = "WAIT_FOR_NETWORK" ~> web \in {"RUNNING", "OFF"}

(* A station that no consumer asks for goes offline, in whatever order the  *)
(* driver's events are handled.  (It may keep running: a station is stopped *)
(* only while it is online, myNetwork.cpp:154.)                             *)
StationGoesOffline ==
    net.station = {} /\ net.staOnline ~> ~net.staOnline \/ net.station # {}

-----------------------------------------------------------------------------
(* What makes the two inductive.                                            *)

(* A server that is not off asks for the access point; the driver's reports *)
(* pile up only while a server starts or stops.                             *)
ServerOnNetwork ==
    /\ web # "OFF" => "web" \in net.softAp
    /\ main = "web" => Len(net.events) <= MaxEvents
    /\ web = "OFF" => Len(net.events) <= MaxEvents + 2

(* Whoever is sent to, stored or answered is a page that was opened, and a  *)
(* server is there while the main task sends.  A page whose CLOSE is being  *)
(* handled is not open.                                                     *)
SessionsOfPages ==
    /\ main \in Sockets => handle /\ main \in opened
    /\ socket # None => socket \in opened
    /\ http # Idle => http.socket \in opened
    /\ http.doing = "close" => http.socket \notin open

(* The inductive invariant.                                                 *)
ServerInv == ServerMatchesState /\ ServerOnNetwork /\ SessionsOfPages
=============================================================================
