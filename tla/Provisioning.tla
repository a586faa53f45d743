---------------------------- MODULE Provisioning ----------------------------
(***************************************************************************)
(* Getting a device onto a network: the Wi-Fi part of app_main (main.cpp), *)
(* the connection state machine driven by the events of the driver         *)
(* (wifi_manager.c, wifi_events.c), the stored credentials                 *)
(* (wifi_config.c), the setup form (web_routes.c) and the captive portal   *)
(* with its DNS task (captive_portal.c).                                   *)
(*                                                                         *)
(* Four tasks run at once: app_main, the event task, which takes events in *)
(* order and sleeps in a handler while it backs off, the web server and    *)
(* the DNS task.  The driver, the network in reach and the user of the     *)
(* setup form are the environment.                                         *)
(***************************************************************************)
EXTENDS Integers, Sequences

CONSTANTS
  Ssids, Psks,  \* What the user may enter in the setup page.
  Encoded,      \* Encoded[x]: how the page spells the text x in its form.
  Wide,         \* The spelled texts of 64 characters and more.
  Clip,         \* Clip[x]: the first 63 characters of x.
  Long,         \* The spelled names too long for wifi_config_load's 32 bytes.
  Empty,        \* The empty text.
  None,         \* No value.
  Air,          \* The pairs that the network in reach accepts.
  MaxRetry,     \* MAX_RETRY_ATTEMPTS (10 in the code).
  MaxEvents,    \* Bound: events that wait for the event task.
  MaxPosts,     \* Bound: forms submitted.
  MaxScans,     \* Bound: scans asked for.
  MaxCuts,      \* Bound: power cuts and restarts by the web page.
  MaxFaults     \* Bound: calls that fail.

\* setup_post_handler takes a name and a password from the form as they are
\* spelled there.  A name that does not fit counts as none; the password, the last
\* field of the form, is cut.
Name(s) == IF Encoded[s] \in Wide THEN Empty ELSE Encoded[s]
Word(p) == IF Encoded[p] \in Wide THEN Clip[Encoded[p]] ELSE Encoded[p]

Names == {Name(s) : s \in Ssids} \ {Empty}
Words == {Word(p) : p \in Psks}

\* The forms that are not refused for want of a name.
Forms == {f \in Ssids \X Psks : Name(f[1]) # Empty}

ASSUME NetworkAssumption ==
  /\ None \notin Names \cup Words \cup Forms \cup (Names \X Words)
  /\ Empty \in Words
  /\ Air \subseteq Ssids \X Psks
  /\ MaxRetry \in Nat \ {0} /\ MaxEvents \in Nat \ {0}
  /\ MaxPosts \in Nat /\ MaxScans \in Nat /\ MaxCuts \in Nat /\ MaxFaults \in Nat

VARIABLES
  ssid, psk,   \* Flash: the stored credentials.
  pc,          \* Where app_main is.
  state, retry, softap,  \* ctx of the Wi-Fi manager.
  events,      \* The events that wait for the event task.
  handler,     \* What the event task does.
  portal, sock, dns,     \* The portal: its flag, its socket, its task.
  web, form,   \* The web server's task, and the form it handles.
  link,        \* The driver: how far the station is connected.
  target,      \* The driver: the credentials it was given.
  air,         \* The network is in reach.
  accepted,    \* History: the form answered with success last, unless another
               \* one was begun since.
  lost,        \* History: since it was begun the password could not be read or
               \* erased.
  posts, scans, cuts, faults  \* Bounds.

\* What is stored, and what became of it.
flash == <<ssid, psk, lost>>
ctx == <<state, retry, softap>>
portalVars == <<portal, sock, dns>>
webVars == <<web, form, accepted, posts, scans>>
driver == <<link, target>>
vars == <<flash, pc, ctx, events, handler, portalVars, webVars, driver, air,
          cuts, faults>>

\* The memory of a device that is off.
Off ==
  /\ pc = "off"
  /\ state = "INIT" /\ retry = 0 /\ softap = FALSE
  /\ events = <<>> /\ handler = "idle"
  /\ portal = FALSE /\ sock = FALSE /\ dns = "none"
  /\ web = "idle" /\ form = None
  /\ link = "idle" /\ target = None

Init ==
  /\ Off
  /\ ssid \in Names \cup {None} /\ psk \in (Words \ {Empty}) \cup {None}
  /\ air \in BOOLEAN
  /\ accepted = None /\ lost = FALSE
  /\ posts = 0 /\ scans = 0 /\ cuts = 0 /\ faults = 0

\* Memory is lost.
Down ==
  /\ pc' = "off"
  /\ state' = "INIT" /\ retry' = 0 /\ softap' = FALSE
  /\ events' = <<>> /\ handler' = "idle"
  /\ portal' = FALSE /\ sock' = FALSE /\ dns' = "none"
  /\ web' = "idle" /\ form' = None
  /\ link' = "idle" /\ target' = None
  /\ UNCHANGED <<flash, air, accepted, posts, scans>>

Fault == faults < MaxFaults /\ faults' = faults + 1

\* wifi_config_load and wifi_config_exists read a name into 32 bytes.
Loadable(s) == s \notin Long \cup {None}

\* A password that was erased is loaded as an empty one.
Loaded == <<ssid, IF psk = None THEN Empty ELSE psk>>

-----------------------------------------------------------------------------
(***************************************************************************)
(* app_main.                                                               *)
(***************************************************************************)
\* wifi_manager_init samples the button and starts the driver in both modes;
\* the driver reports that the access point runs.
WifiManagerInit ==
  /\ pc = "off"
  /\ events' = <<"AP_START">>
  /\ pc' = "creds"
  /\ UNCHANGED <<flash, ctx, handler, portalVars, webVars, driver, air, cuts,
                 faults>>

NoCredentials ==
  /\ pc = "creds"
  /\ ~Loadable(ssid)
  /\ pc' = "enter"
  /\ UNCHANGED <<flash, ctx, events, handler, portalVars, webVars, driver,
                 air, cuts, faults>>

\* wifi_config_load takes a password that cannot be read for an empty one, and
\* wifi_sta_connect stores what was loaded once more: the password is erased then,
\* or not even that is possible.
Read(word) ==
  /\ word \in {Loaded[2], Empty}
  /\ psk' \in {psk, IF word = Empty THEN None ELSE psk}
  /\ lost' = (lost \/ word # Loaded[2])
  /\ UNCHANGED ssid

\* wifi_sta_connect_from_config.
StaConnect ==
  /\ pc = "creds"
  /\ Loadable(ssid)
  /\ \E word \in {Loaded[2], Empty} :
       /\ Read(word)
       /\ IF word = Loaded[2] THEN UNCHANGED faults ELSE Fault
       /\ target' = <<ssid, word>> /\ link' = "joining"
  /\ state' = "CONNECTING" /\ retry' = 0
  /\ pc' = "decide"
  /\ UNCHANGED <<softap, events, handler, portalVars, webVars, air, cuts>>

\* It fails before the state is set, or the driver refuses to connect after it.
StaConnectFails ==
  /\ pc = "creds"
  /\ Loadable(ssid)
  /\ Fault
  /\ \E word \in {Loaded[2], Empty} :
       /\ Read(word)
       /\ \/ UNCHANGED <<state, retry, driver>>
          \/ /\ state' = "CONNECTING" /\ retry' = 0
             /\ target' = <<ssid, word>> /\ link' = "refused"
  /\ pc' = "enter"
  /\ UNCHANGED <<softap, events, handler, portalVars, webVars, air, cuts>>

\* check_forced_portal: the button was low in one of 30 samples, or in none.
Forced == BOOLEAN

\* wifi_should_enter_portal.
ShouldEnterPortal(forced) ==
  \/ forced
  \/ ~Loadable(ssid)
  \/ retry >= MaxRetry /\ ~softap

\* The portal is asked for, or no connection was begun.
Enters(forced) == pc = "enter" \/ ShouldEnterPortal(forced)

\* wifi_start_softap: the access point gets its name.
StartSoftAp == softap' = TRUE

\* The access point is set up if the portal is entered; then the web server is
\* started.
Decide ==
  /\ pc \in {"decide", "enter"}
  /\ \E forced \in Forced :
       IF Enters(forced) THEN StartSoftAp ELSE UNCHANGED softap
  /\ pc' = "up"
  /\ UNCHANGED <<flash, state, retry, events, handler, portalVars, webVars, driver, air,
                 cuts, faults>>

\* The driver refuses: app_main aborts, and the device starts anew.
StartSoftApFails ==
  /\ pc \in {"decide", "enter"}
  /\ \E forced \in Forced : Enters(forced)
  /\ Fault
  /\ Down
  /\ UNCHANGED cuts

AppMain ==
  \/ WifiManagerInit \/ NoCredentials \/ StaConnect \/ StaConnectFails
  \/ Decide \/ StartSoftApFails

-----------------------------------------------------------------------------
(***************************************************************************)
(* wifi_event_handler, in the event task.                                  *)
(***************************************************************************)
Comes(e) == handler = "idle" /\ events # <<>> /\ Head(events) = e

HandleConnected ==
  /\ Comes("CONNECTED")
  /\ state' = "CONNECTING" /\ retry' = 0
  /\ events' = Tail(events)
  /\ UNCHANGED <<flash, pc, softap, handler, portalVars, webVars, driver, air,
                 cuts, faults>>

HandleGotIp ==
  /\ Comes("GOT_IP")
  /\ state' = "STATION"
  /\ events' = Tail(events)
  /\ UNCHANGED <<flash, pc, retry, softap, handler, portalVars, webVars, driver,
                 air, cuts, faults>>

\* Mutant: the limit is off by one.
HandleDisconnectedOnceMore ==
  /\ Comes("DISCONNECTED")
  /\ retry <= MaxRetry
  /\ state' = "DISCONNECTED" /\ retry' = retry + 1
  /\ handler' = "sleeping"
  /\ UNCHANGED <<flash, pc, softap, events, portalVars, webVars, driver, air,
                 cuts, faults>>

\* Mutant: the state is not changed.
HandleDisconnectedSilent ==
  /\ Comes("DISCONNECTED")
  /\ retry < MaxRetry
  /\ retry' = retry + 1
  /\ handler' = "sleeping"
  /\ UNCHANGED <<flash, pc, state, softap, events, portalVars, webVars, driver,
                 air, cuts, faults>>

\* The handler sleeps for 4 to 60 seconds; no other event is handled.
HandleDisconnected ==
  /\ Comes("DISCONNECTED")
  /\ retry < MaxRetry
  /\ state' = "DISCONNECTED" /\ retry' = retry + 1
  /\ handler' = "sleeping"
  /\ UNCHANGED <<flash, pc, softap, events, portalVars, webVars, driver, air,
                 cuts, faults>>

\* Mutant: the handler sleeps and does not connect again.
ReconnectForgotten ==
  /\ handler = "sleeping"
  /\ handler' = "idle"
  /\ events' = Tail(events)
  /\ UNCHANGED <<flash, pc, ctx, portalVars, webVars, driver, air, cuts, faults>>

\* Whether the driver refuses to connect is not looked at.
Reconnect ==
  /\ handler = "sleeping"
  /\ handler' = "idle"
  /\ \/ link' = "joining" /\ UNCHANGED faults
     \/ link' = "refused" /\ Fault
  /\ events' = Tail(events)
  /\ UNCHANGED <<flash, pc, ctx, portalVars, webVars, target, air, cuts>>

\* wifi_events.c passes on the number of an event and not its base, and the end
\* of a scan has the number of a lost address.
HandleScanDone ==
  /\ Comes("SCAN_DONE")
  /\ state' = "DISCONNECTED"
  /\ events' = Tail(events)
  /\ UNCHANGED <<flash, pc, retry, softap, handler, portalVars, webVars, driver,
                 air, cuts, faults>>

\* The device gives up; the access point is started unless it runs.
HandleExhausted ==
  /\ Comes("DISCONNECTED")
  /\ retry >= MaxRetry
  /\ state' = "DISCONNECTED"
  /\ softap' = TRUE
  /\ events' = Tail(events)
  /\ UNCHANGED <<flash, pc, retry, handler, portalVars, webVars, driver, air,
                 cuts, faults>>

\* captive_portal_start opens the socket and creates the DNS task.
HandleApStart ==
  /\ Comes("AP_START")
  /\ state' = "AP_ONLY" /\ softap' = TRUE
  /\ \/ /\ sock' = TRUE /\ dns' = "created" /\ handler' = "starting"
        /\ UNCHANGED <<events, faults>>
     \/ /\ Fault
        /\ events' = Tail(events)
        /\ UNCHANGED <<sock, dns, handler>>
  /\ UNCHANGED <<flash, pc, retry, portal, webVars, driver, air, cuts>>

\* Mutant: the flag is not set.
PortalUpUnset ==
  /\ handler = "starting"
  /\ handler' = "idle"
  /\ events' = Tail(events)
  /\ UNCHANGED <<flash, pc, ctx, portalVars, webVars, driver, air, cuts, faults>>

\* Only then it sets the flag that the DNS task looks at.
PortalUp ==
  /\ handler = "starting"
  /\ portal' = TRUE
  /\ handler' = "idle"
  /\ events' = Tail(events)
  /\ UNCHANGED <<flash, pc, ctx, sock, dns, webVars, driver, air, cuts, faults>>

EventTask ==
  \/ HandleConnected \/ HandleGotIp \/ HandleDisconnected \/ Reconnect
  \/ HandleExhausted \/ HandleScanDone \/ HandleApStart \/ PortalUp

\* dns_server_task: the condition of its loop, looked at when it starts, after
\* each datagram, and when the socket is closed.
DnsTask ==
  /\ dns \in {"created", "serving"}
  /\ dns' = IF portal /\ sock THEN "serving" ELSE "ended"
  /\ UNCHANGED <<flash, pc, ctx, events, handler, portal, sock, webVars, driver,
                 air, cuts, faults>>

-----------------------------------------------------------------------------
(***************************************************************************)
(* setup_post_handler, in the web server's task.                           *)
(***************************************************************************)
\* A form without a name is refused.
SetupPost(s, p) ==
  /\ pc = "up" /\ web = "idle"
  /\ posts < MaxPosts
  /\ posts' = posts + 1
  /\ IF Name(s) = Empty THEN UNCHANGED <<accepted, lost, form, web>>
     ELSE accepted' = None /\ lost' = FALSE /\ form' = <<s, p>> /\ web' = "ssid"
  /\ UNCHANGED <<scans, ssid, psk, pc, ctx, events, handler, portalVars, driver,
                 air, cuts, faults>>

\* wifi_config_save: the name, then the password, each durable at once.
SaveSsid ==
  /\ web = "ssid"
  /\ \/ ssid' = Name(form[1]) /\ web' = "psk" /\ UNCHANGED <<form, faults>>
     \/ Fault /\ web' = "idle" /\ form' = None /\ UNCHANGED ssid
  /\ UNCHANGED <<psk, lost, pc, ctx, events, handler, portalVars, accepted, posts,
                 scans, driver, air, cuts>>

\* Mutant: an empty password leaves the old one in place.
SavePskKeeps ==
  /\ web = "psk"
  /\ psk' = IF Word(form[2]) = Empty THEN psk ELSE Word(form[2])
  /\ web' = "stop"
  /\ UNCHANGED <<ssid, lost, pc, ctx, events, handler, portalVars, form, accepted,
                 posts, scans, driver, air, cuts, faults>>

\* An empty password erases the key, and whether that fails is not looked at; if
\* writing fails, or the commit after it, the form is answered with an error.
SavePsk ==
  /\ web = "psk"
  /\ LET new == IF Word(form[2]) = Empty THEN None ELSE Word(form[2]) IN
     \/ psk' = new /\ web' = "stop" /\ UNCHANGED <<form, lost, faults>>
     \/ /\ new = None /\ Fault
        /\ lost' = TRUE /\ web' = "stop"
        /\ UNCHANGED <<psk, form>>
     \/ /\ Fault
        /\ psk' \in {psk, new} /\ web' = "idle" /\ form' = None
        /\ UNCHANGED lost
  /\ UNCHANGED <<ssid, pc, ctx, events, handler, portalVars, accepted, posts,
                 scans, driver, air, cuts>>

\* captive_portal_stop, then the answer.
StopPortal ==
  /\ web = "stop"
  /\ portal' = FALSE
  /\ sock' = (sock /\ ~portal)
  /\ web' = "restart"
  /\ accepted' = form
  /\ UNCHANGED <<flash, pc, ctx, events, handler, dns, form, posts, scans,
                 driver, air, cuts, faults>>

\* Mutant: the server answers and goes on.
RestartSkipped ==
  /\ web = "restart"
  /\ web' = "idle" /\ form' = None
  /\ UNCHANGED <<flash, pc, ctx, events, handler, portalVars, accepted, posts,
                 scans, driver, air, cuts, faults>>

Restart == web = "restart" /\ Down /\ UNCHANGED <<cuts, faults>>

\* A power cut, or reboot_post_handler.
PowerCut ==
  /\ pc # "off"
  /\ cuts < MaxCuts
  /\ cuts' = cuts + 1
  /\ Down
  /\ UNCHANGED faults

WebServer == SaveSsid \/ SavePsk \/ StopPortal \/ Restart

-----------------------------------------------------------------------------
(***************************************************************************)
(* The driver.  It reports what happens in events; the loss of the address *)
(* alone is not among those wifi_events_init registers for.                *)
(***************************************************************************)
Report(e) == Len(events) < MaxEvents /\ events' = Append(events, e)
Elsewhere ==
  UNCHANGED <<flash, pc, ctx, handler, portalVars, webVars, target, cuts, faults>>

Join ==
  /\ link = "joining" /\ air /\ target \in Air
  /\ link' = "joined"
  /\ Report("CONNECTED")
  /\ UNCHANGED air /\ Elsewhere

JoinFails ==
  /\ link = "joining" /\ ~(air /\ target \in Air)
  /\ link' = "idle"
  /\ Report("DISCONNECTED")
  /\ UNCHANGED air /\ Elsewhere

GetAddress ==
  /\ link = "joined" /\ air
  /\ link' = "addressed"
  /\ Report("GOT_IP")
  /\ UNCHANGED air /\ Elsewhere

LoseAddress ==
  /\ link = "addressed"
  /\ link' = "joined"
  /\ UNCHANGED <<events, air>> /\ Elsewhere

LoseLink ==
  /\ link \in {"joined", "addressed"} /\ ~air
  /\ link' = "idle"
  /\ Report("DISCONNECTED")
  /\ UNCHANGED air /\ Elsewhere

NetworkChanges ==
  /\ air' = ~air
  /\ UNCHANGED <<events, link>> /\ Elsewhere

\* wifi_scan_get_handler: the driver refuses to scan while it connects.
WifiScan ==
  /\ pc = "up" /\ web = "idle" /\ link # "joining"
  /\ scans < MaxScans
  /\ scans' = scans + 1
  /\ Report("SCAN_DONE")
  /\ UNCHANGED <<flash, pc, ctx, handler, portalVars, web, form, accepted, posts,
                 driver, air, cuts, faults>>

Driver == Join \/ JoinFails \/ GetAddress \/ LoseLink

Next ==
  \/ AppMain \/ EventTask \/ DnsTask \/ WebServer
  \/ \E s \in Ssids, p \in Psks : SetupPost(s, p)
  \/ WifiScan \/ Driver \/ LoseAddress \/ NetworkChanges
  \/ PowerCut

Spec == Init /\ [][Next]_vars

\* The scheduler serves every task, and the driver answers.
FairSpec ==
  /\ Spec
  /\ WF_vars(AppMain) /\ WF_vars(EventTask) /\ WF_vars(WebServer)
  /\ WF_vars(Driver)

-----------------------------------------------------------------------------
(***************************************************************************)
(* Correctness.                                                            *)
(***************************************************************************)
Event == {"AP_START", "CONNECTED", "DISCONNECTED", "GOT_IP", "SCAN_DONE"}

\* The types of all variables.
TypeOK ==
  /\ ssid \in Names \cup {None} /\ psk \in (Words \ {Empty}) \cup {None}
  /\ pc \in {"off", "creds", "decide", "enter", "up"}
  /\ state \in {"INIT", "CONNECTING", "STATION", "AP_ONLY", "DISCONNECTED"}
  /\ retry \in 0..MaxRetry /\ softap \in BOOLEAN
  /\ events \in Seq(Event) /\ Len(events) \in 0..MaxEvents
  /\ handler \in {"idle", "sleeping", "starting"}
  /\ portal \in BOOLEAN /\ sock \in BOOLEAN
  /\ dns \in {"none", "created", "serving", "ended"}
  /\ web \in {"idle", "ssid", "psk", "stop", "restart"}
  /\ form \in Forms \cup {None}
  /\ link \in {"idle", "refused", "joining", "joined", "addressed"}
  /\ target \in (Names \X Words) \cup {None}
  /\ air \in BOOLEAN
  /\ accepted \in Forms \cup {None} /\ lost \in BOOLEAN
  /\ posts \in 0..MaxPosts /\ scans \in 0..MaxScans
  /\ cuts \in 0..MaxCuts /\ faults \in 0..MaxFaults

Pending(e) == \E i \in 1..Len(events) : events[i] = e

\* Until the station is started, only the access point has been heard of.
Unheard ==
  /\ pc = "off" => Off
  /\ pc = "creds" => /\ link = "idle" /\ target = None /\ state # "STATION"
                     /\ \A n \in 1..Len(events) : events[n] = "AP_START"
  /\ web # "idle" => pc = "up"

\* The access point is the first thing heard of; a lost connection is the last,
\* but for scans, until the station is told to connect again.
EventsInOrder ==
  \A n \in 1..Len(events) :
    /\ events[n] = "AP_START" => n = 1
    /\ events[n] = "DISCONNECTED" =>
         link = "idle" /\ \A m \in n+1..Len(events) : events[m] = "SCAN_DONE"
    /\ events[n] = "GOT_IP" => link \in {"joined", "addressed"} \/ Pending("DISCONNECTED")

\* The handler that is busy is at the first event.
HandlerBusy ==
  /\ handler # "idle" => events # <<>>
  /\ handler = "sleeping" => Head(events) = "DISCONNECTED" /\ state # "STATION"
  /\ handler = "starting" => Head(events) = "AP_START" /\ softap

\* Once the access point was heard of it runs and its portal is up; an attempt
\* fails only after that.
PortalFirst ==
  /\ pc # "off" /\ ~Pending("AP_START") =>
       softap /\ (faults = 0 => portal \/ web = "restart")
  /\ retry > 0 => pc # "off" /\ ~Pending("AP_START")

\* A pair is what was taken from a form; its password may be excused.
Agrees(pair, f, excused) ==
  pair[1] = Name(f[1]) /\ (excused \/ pair[2] = Word(f[2]))

\* How far flash agrees with the form in hand, and with the last one accepted.
FormStored ==
  /\ web \in {"ssid", "psk", "stop"} => form # None /\ accepted = None
  /\ web = "psk" => ssid = Name(form[1])
  /\ web = "stop" => Agrees(Loaded, form, lost)
  /\ accepted # None => Agrees(Loaded, accepted, lost)

\* A device that says it is connected is associated with the network, or will
\* soon be told that it no longer is (wifi_event_handler, wifi_is_connected).
StationIsAssociated ==
  state = "STATION" /\ ~Pending("DISCONNECTED") => link \in {"joined", "addressed"}

\* Whoever loses the network can be set up anew: before the first attempt has
\* failed the access point and its portal are up, unless the portal could not be
\* started (AP_START comes before every DISCONNECTED).
FallbackReady ==
  retry > 0 => softap /\ (faults = 0 => portal \/ web = "restart")

\* The device connects with what setup_post_handler took from the form that was
\* accepted last, whatever was stored before: always with its name, and with its
\* password, an empty one included, unless flash failed when the password was to
\* be erased or read (wifi_config_save, wifi_config_load, wifi_sta_connect).
ConnectsAsAccepted ==
  [][target' \notin {None, target} /\ accepted # None =>
       Agrees(target', accepted, lost')]_vars

\* A form that was accepted is tried after the restart, unless its name is too
\* long to be loaded again or the device fails (setup_post_handler, app_main).
AcceptedIsTried ==
  accepted # None /\ Loadable(Name(accepted[1]))
    ~> \/ accepted # None /\ target = <<Name(accepted[1]), Word(accepted[2])>>
       \/ accepted = None \/ faults > 0

\* The inductive invariant.
IInv ==
  /\ TypeOK
  /\ Unheard
  /\ EventsInOrder
  /\ HandlerBusy
  /\ PortalFirst
  /\ FormStored
  /\ StationIsAssociated

GaveUp == retry = MaxRetry /\ link = "idle" /\ events = <<>>

\* When the network stays in reach, a device that has credentials gets connected
\* again and says so, unless it has given up before, or the driver refused to
\* connect, after which nobody tries again (wifi_event_handler, app_main).  Only a
\* failure keeps it from trying at all.  After a scan it is connected without
\* saying so, see DisconnectedIsDown.
Rejoins ==
  <>[]air => <>[](\/ state = "STATION"
                  \/ scans > 0 /\ link \in {"joined", "addressed"}
                  \/ GaveUp \/ link = "refused"
                  \/ target = None /\ (~Loadable(ssid) \/ faults > 0))

\* "Station disconnected, will retry" (wifi_manager.h:32).
RetryGoesOn == state = "DISCONNECTED" /\ link = "refused" ~> link # "refused"

\* "Enter your WiFi credentials to connect the device to your network"
\* (web_frontend.c:163): the device connects with what the user entered.
ConnectsAsEntered ==
  [][target' \notin {None, target} /\ accepted # None /\ faults = 0
       => target' = accepted]_vars

\* "NET_STATE_DISCONNECTED // Station disconnected, will retry"
\* (wifi_manager.h:32): in this state the station is not connected, unless the
\* event that says it is again is on its way.
DisconnectedIsDown ==
  state = "DISCONNECTED" /\ ~Pending("CONNECTED") => link \notin {"joined", "addressed"}

\* "The g_setupPortal flag is set, causing the main loop to pump DNS requests"
\* (32-net-state-spec.md, 4.2): while the flag is set the DNS server runs.
PortalAnswers == portal => dns # "ended"

=============================================================================
