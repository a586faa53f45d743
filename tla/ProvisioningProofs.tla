------------------------ MODULE ProvisioningProofs ------------------------
(***************************************************************************)
(* Proofs about Provisioning, for every network, every form, any number of *)
(* retries and any length of the event queue.  The argument: the access    *)
(* point is the first event and a lost connection is the last one until    *)
(* the handler connects again, so the order of the queue ties what the     *)
(* handler believes to what the driver does.                               *)
(***************************************************************************)
EXTENDS Provisioning, SequenceTheorems, TLAPS

\* What is taken from a form can be stored.
LEMMA FormFacts ==
  /\ \A f \in Forms : Name(f[1]) \in Names /\ Word(f[2]) \in Words
  /\ None \notin Names /\ None \notin Words /\ None \notin Forms
  /\ None \notin Names \X Words /\ Empty \in Words
BY NetworkAssumption DEF Forms, Names, Words

\* What is loaded is a pair of a name and a password.
LEMMA LoadedFits ==
  ASSUME TypeOK, Loadable(ssid)
  PROVE  /\ ssid \in Names /\ Loaded[1] = ssid /\ Loaded[2] \in Words
         /\ Loaded \in Names \X Words
BY NetworkAssumption DEF TypeOK, Loadable, Loaded

\* An event is taken.
LEMMA TailFacts ==
  ASSUME TypeOK, events # <<>>
  PROVE  /\ Len(events) \in Nat \ {0}
         /\ Head(events) = events[1]
         /\ Tail(events) \in Seq(Event)
         /\ Len(Tail(events)) = Len(events) - 1
         /\ \A n \in 1..Len(events)-1 : Tail(events)[n] = events[n + 1]
<1>1. events \in Seq(Event)
  BY DEF TypeOK
<1>2. Len(events) \in Nat \ {0}
  BY <1>1, EmptySeq, LenProperties
<1> QED
  BY <1>1, <1>2, HeadTailProperties

\* An event is reported.
LEMMA AppendFacts ==
  ASSUME TypeOK, NEW e \in Event
  PROVE  /\ Append(events, e) \in Seq(Event)
         /\ Append(events, e) # <<>>
         /\ Len(events) \in Nat
         /\ Len(Append(events, e)) = Len(events) + 1
         /\ \A n \in 1..Len(events) : Append(events, e)[n] = events[n]
         /\ Append(events, e)[Len(events) + 1] = e
         /\ events # <<>> => Head(Append(events, e)) = Head(events)
<1>1. events \in Seq(Event)
  BY DEF TypeOK
<1> QED
  BY <1>1, AppendProperties, LenProperties, HeadTailAppend

\* What waits behind the first event stays.
LEMMA PopFacts ==
  ASSUME TypeOK, events # <<>>, events' = Tail(events)
  PROVE  /\ events' \in Seq(Event) /\ Len(events') \in 0..MaxEvents
         /\ \A n \in 1..Len(events') : n + 1 \in 2..Len(events) /\ events'[n] = events[n + 1]
         /\ \A e : Pending(e)' => Pending(e)
         /\ \A e : Pending(e) /\ e # Head(events) => Pending(e)'
<1>1. /\ Len(events) \in Nat \ {0} /\ Head(events) = events[1]
      /\ events' \in Seq(Event) /\ Len(events') = Len(events) - 1
      /\ \A n \in 1..Len(events)-1 : events'[n] = events[n + 1]
  BY TailFacts
<1>2. Len(events) \in 0..MaxEvents /\ MaxEvents \in Nat
  BY NetworkAssumption DEF TypeOK
<1>3. ASSUME NEW n \in 1..Len(events), n # 1
      PROVE  n - 1 \in 1..Len(events') /\ events[n] = events'[n - 1]
  BY <1>1, <1>3
<1>4. ASSUME NEW e, Pending(e), e # Head(events) PROVE Pending(e)'
  <2>1. PICK n \in 1..Len(events) : events[n] = e
    BY <1>4 DEF Pending
  <2>2. n # 1
    BY <1>1, <1>4, <2>1
  <2> QED
    BY <1>3, <2>1, <2>2 DEF Pending
<1>5. \A n \in 1..Len(events') : n + 1 \in 2..Len(events) /\ events'[n] = events[n + 1]
  BY <1>1
<1>6. \A e : Pending(e)' => Pending(e)
  BY <1>1, <1>5 DEF Pending
<1> QED
  BY <1>1, <1>2, <1>4, <1>5, <1>6

\* A pop keeps the order of the events if no lost connection is forgotten.
LEMMA PopKeepsOrder ==
  ASSUME IInv, events # <<>>, events' = Tail(events), Head(events) # "DISCONNECTED",
         UNCHANGED link
  PROVE  EventsInOrder'
<1>1. /\ Len(events) \in Nat
      /\ \A n \in 1..Len(events') : n + 1 \in 2..Len(events) /\ events'[n] = events[n + 1]
      /\ Pending("DISCONNECTED") => Pending("DISCONNECTED")'
  BY TailFacts, PopFacts DEF IInv
<1>2. ASSUME NEW n \in 1..Len(events')
      PROVE  /\ events'[n] # "AP_START"
             /\ events'[n] = "DISCONNECTED" =>
                  link' = "idle" /\ \A m \in n+1..Len(events') : events'[m] = "SCAN_DONE"
             /\ events'[n] = "GOT_IP" =>
                  link' \in {"joined", "addressed"} \/ Pending("DISCONNECTED")'
  <2>1. n + 1 \in 1..Len(events) /\ n + 1 # 1 /\ events'[n] = events[n + 1]
    BY <1>1
  <2>2. \A m \in n+1..Len(events') : m + 1 \in n+2..Len(events) /\ events'[m] = events[m + 1]
    BY <1>1
  <2> QED
    BY <1>1, <2>1, <2>2 DEF IInv, EventsInOrder
<1> QED
  BY <1>2 DEF EventsInOrder

\* A device that is off satisfies the invariant, whatever flash holds.
LEMMA DownFits ==
  ASSUME IInv, Down, faults' \in 0..MaxFaults, cuts' \in 0..MaxCuts
  PROVE  IInv'
<1>1. events' \in Seq(Event) /\ Len(events') = 0 /\ events' = <<>>
  BY DEF Down
<1>2. MaxEvents \in Nat /\ MaxRetry \in Nat
  BY NetworkAssumption
<1>3. softap' \in BOOLEAN /\ portal' \in BOOLEAN /\ sock' \in BOOLEAN /\ air' \in BOOLEAN
  BY DEF Down, IInv, TypeOK
<1>4. TypeOK'
  BY <1>1, <1>2, <1>3 DEF Down, IInv, TypeOK, flash
<1>5. Unheard' /\ EventsInOrder' /\ HandlerBusy' /\ PortalFirst' /\ StationIsAssociated'
  BY <1>1 DEF Down, Unheard, Off, EventsInOrder, HandlerBusy, PortalFirst,
     StationIsAssociated
<1>6. FormStored'
  BY DEF Down, IInv, FormStored, Loaded, Agrees, flash
<1> QED
  BY <1>4, <1>5, <1>6 DEF IInv

\* A device that is off for the first time satisfies it, whatever flash holds.
LEMMA InitHolds == Init => IInv
<1> SUFFICES ASSUME Init PROVE IInv
  OBVIOUS
<1>1. events \in Seq(Event) /\ Len(events) = 0 /\ events = <<>>
  BY DEF Init, Off
<1>2. TypeOK
  <2>1. softap \in BOOLEAN /\ portal \in BOOLEAN /\ sock \in BOOLEAN /\ air \in BOOLEAN
    BY DEF Init, Off
  <2>2. /\ 0 \in 0..MaxRetry /\ 0 \in 0..MaxEvents /\ 0 \in 0..MaxPosts /\ 0 \in 0..MaxScans
        /\ 0 \in 0..MaxCuts /\ 0 \in 0..MaxFaults
    BY NetworkAssumption
  <2> QED
    BY <1>1, <2>1, <2>2 DEF Init, Off, TypeOK
<1>3. Unheard /\ EventsInOrder /\ HandlerBusy /\ PortalFirst /\ StationIsAssociated
  BY <1>1, NetworkAssumption
  DEF Init, Off, Unheard, EventsInOrder, HandlerBusy, PortalFirst, StationIsAssociated
<1>4. FormStored
  BY DEF Init, Off, FormStored
<1> QED
  BY <1>2, <1>3, <1>4 DEF IInv

\* A password that could not be read, and may be erased, is excused.
LEMMA ReadKeeps ==
  ASSUME IInv, NEW word \in {Loaded[2], Empty}, Read(word), web = "idle",
         UNCHANGED <<form, web, accepted>>
  PROVE  FormStored'
<1>1. CASE word = Loaded[2]
  <2>1. Loaded' = Loaded
    BY <1>1, NetworkAssumption, FormFacts DEF Read, Loaded, IInv, TypeOK
  <2>2. lost' = lost
    BY <1>1 DEF Read, IInv, TypeOK
  <2> QED
    BY <2>1, <2>2 DEF IInv, FormStored, Agrees
<1>2. CASE word # Loaded[2]
  <2>1. lost' /\ Loaded'[1] = Loaded[1]
    BY <1>2 DEF Read, Loaded
  <2> QED
    BY <2>1 DEF IInv, FormStored, Agrees
<1> QED
  BY <1>1, <1>2

\* Every step keeps the invariant.
LEMMA StepHolds == IInv /\ [Next]_vars => IInv'
<1> SUFFICES ASSUME IInv, [Next]_vars PROVE IInv'
  OBVIOUS
<1> USE DEF IInv, flash, ctx, portalVars, webVars, driver, Fault, Comes
<1>1. CASE WifiManagerInit
  <2>1. TypeOK'
    BY <1>1, NetworkAssumption DEF WifiManagerInit, Event, TypeOK
  <2>2. Unheard' /\ EventsInOrder' /\ HandlerBusy' /\ PortalFirst' /\ StationIsAssociated'
    BY <1>1
    DEF WifiManagerInit, Unheard, Off, HandlerBusy, EventsInOrder, Pending, PortalFirst,
        StationIsAssociated
  <2>3. FormStored'
    BY <1>1 DEF WifiManagerInit, FormStored, Loaded, Agrees
  <2> QED
    BY <2>1, <2>2, <2>3
<1>2. CASE NoCredentials
  <2>1. TypeOK'
    BY <1>2 DEF NoCredentials, TypeOK
  <2>2. Unheard' /\ EventsInOrder' /\ HandlerBusy' /\ PortalFirst' /\ StationIsAssociated'
    BY <1>2
    DEF NoCredentials, Unheard, HandlerBusy, EventsInOrder, Pending, PortalFirst,
        StationIsAssociated
  <2>3. FormStored'
    BY <1>2 DEF NoCredentials, FormStored, Loaded, Agrees
  <2> QED
    BY <2>1, <2>2, <2>3
<1>3. CASE StaConnect
  <2>1. PICK word \in {Loaded[2], Empty} :
          /\ Read(word)
          /\ IF word = Loaded[2] THEN UNCHANGED faults ELSE Fault
          /\ target' = <<ssid, word>> /\ link' = "joining"
    BY <1>3 DEF StaConnect
  <2>2. word \in Words /\ ssid \in Names
    BY <1>3, LoadedFits, FormFacts DEF StaConnect
  <2>3. TypeOK'
    <3>1. psk' \in (Words \ {Empty}) \cup {None} /\ ssid' = ssid /\ lost' \in BOOLEAN
      BY <2>1 DEF Read, TypeOK
    <3>2. target' \in Names \X Words /\ faults' \in 0..MaxFaults
      BY <2>1, <2>2, NetworkAssumption DEF TypeOK
    <3>3. retry' \in 0..MaxRetry
      BY <1>3, NetworkAssumption DEF StaConnect
    <3> QED
      BY <1>3, <2>1, <3>1, <3>2, <3>3 DEF StaConnect, TypeOK
  <2>4. Unheard' /\ EventsInOrder' /\ HandlerBusy' /\ PortalFirst' /\ StationIsAssociated'
    BY <1>3, <2>1
    DEF StaConnect, Unheard, HandlerBusy, EventsInOrder, Pending, PortalFirst,
        StationIsAssociated, TypeOK
  <2>5. FormStored'
    <3>1. web = "idle" /\ UNCHANGED <<form, web, accepted>>
      BY <1>3 DEF StaConnect, Unheard
    <3> HIDE DEF IInv
    <3> QED
      BY <2>1, <3>1, ReadKeeps
  <2> QED
    BY <2>3, <2>4, <2>5
<1>4. CASE StaConnectFails
  <2>1. PICK word \in {Loaded[2], Empty} :
          /\ Read(word)
          /\ \/ UNCHANGED <<state, retry, driver>>
             \/ /\ state' = "CONNECTING" /\ retry' = 0
                /\ target' = <<ssid, word>> /\ link' = "refused"
    BY <1>4 DEF StaConnectFails
  <2>2. word \in Words /\ ssid \in Names
    BY <1>4, LoadedFits, FormFacts DEF StaConnectFails
  <2>3. TypeOK'
    <3>1. psk' \in (Words \ {Empty}) \cup {None} /\ ssid' = ssid /\ lost' \in BOOLEAN
      BY <2>1 DEF Read, TypeOK
    <3>2. target' \in (Names \X Words) \cup {None}
      BY <2>1, <2>2 DEF TypeOK
    <3>3. retry' \in 0..MaxRetry /\ faults' \in 0..MaxFaults
      BY <1>4, <2>1, NetworkAssumption DEF StaConnectFails, TypeOK
    <3>4. link' \in {"idle", "refused", "joining", "joined", "addressed"}
      BY <2>1 DEF TypeOK
    <3>5. state' \in {"INIT", "CONNECTING", "STATION", "AP_ONLY", "DISCONNECTED"}
      BY <2>1 DEF TypeOK
    <3> QED
      BY <1>4, <3>1, <3>2, <3>3, <3>4, <3>5 DEF StaConnectFails, TypeOK
  <2>4. Unheard' /\ EventsInOrder' /\ HandlerBusy' /\ PortalFirst' /\ StationIsAssociated'
    BY <1>4, <2>1
    DEF StaConnectFails, Unheard, TypeOK, HandlerBusy, EventsInOrder, Pending,
        PortalFirst, StationIsAssociated
  <2>5. FormStored'
    <3>1. web = "idle" /\ UNCHANGED <<form, web, accepted>>
      BY <1>4 DEF StaConnectFails, Unheard
    <3> HIDE DEF IInv
    <3> QED
      BY <2>1, <3>1, ReadKeeps
  <2> QED
    BY <2>3, <2>4, <2>5
<1>5. CASE Decide
  <2>1. TypeOK'
    <3>1. softap' \in BOOLEAN
      BY <1>5 DEF Decide, StartSoftAp, TypeOK
    <3>2. pc' = "up" /\ UNCHANGED <<flash, state, retry, events, handler, portalVars, webVars,
                                   driver, air, cuts, faults>>
      BY <1>5 DEF Decide
    <3> QED
      BY <3>1, <3>2 DEF TypeOK
  <2>2. Unheard' /\ EventsInOrder' /\ HandlerBusy' /\ PortalFirst' /\ StationIsAssociated'
    BY <1>5
    DEF Decide, StartSoftAp, Unheard, HandlerBusy, EventsInOrder, Pending, PortalFirst,
        StationIsAssociated
  <2>3. FormStored'
    BY <1>5 DEF Decide, FormStored, Loaded, Agrees
  <2> QED
    BY <2>1, <2>2, <2>3
<1>6. CASE StartSoftApFails
  BY <1>6, DownFits, NetworkAssumption DEF StartSoftApFails, TypeOK
<1>7. CASE HandleConnected
  <2>1. TypeOK'
    BY <1>7, NetworkAssumption DEF HandleConnected, TypeOK
  <2>2. Unheard'
    BY <1>7 DEF HandleConnected, Unheard, Off
  <2>3. EventsInOrder'
    BY <1>7, PopKeepsOrder DEF HandleConnected, EventsInOrder
  <2>4. HandlerBusy'
    BY <1>7 DEF HandleConnected, HandlerBusy
  <2>5. PortalFirst'
    BY <1>7 DEF HandleConnected, PortalFirst, Pending
  <2>6. FormStored'
    BY <1>7 DEF HandleConnected, FormStored, Loaded, Agrees
  <2>7. StationIsAssociated'
    BY <1>7 DEF HandleConnected, StationIsAssociated
  <2> QED
    BY <2>1, <2>2, <2>3, <2>4, <2>5, <2>6, <2>7
<1>8. CASE HandleGotIp
  <2>1. TypeOK'
    BY <1>8, PopFacts DEF HandleGotIp, TypeOK
  <2>2. Unheard' /\ HandlerBusy' /\ PortalFirst'
    BY <1>8
    DEF HandleGotIp, Unheard, Off, HandlerBusy, EventsInOrder, PortalFirst, Pending
  <2>3. EventsInOrder'
    BY <1>8, PopKeepsOrder DEF HandleGotIp, EventsInOrder
  <2>4. StationIsAssociated'
    BY <1>8, TailFacts, PopFacts, PopKeepsOrder
    DEF HandleGotIp, StationIsAssociated, EventsInOrder, TypeOK
  <2>5. FormStored'
    BY <1>8 DEF HandleGotIp, FormStored, Loaded, Agrees
  <2> QED
    BY <2>1, <2>2, <2>3, <2>4, <2>5
<1>9. CASE HandleDisconnected
  <2>1. TypeOK'
    <3>1. retry \in 0..MaxRetry /\ MaxRetry \in Nat
      BY NetworkAssumption DEF TypeOK
    <3>2. retry < MaxRetry /\ retry' = retry + 1
      BY <1>9 DEF HandleDisconnected
    <3>3. retry' \in 0..MaxRetry
      BY <3>1, <3>2
    <3> QED
      BY <1>9, <3>3 DEF HandleDisconnected, TypeOK
  <2>2. Unheard' /\ EventsInOrder' /\ HandlerBusy' /\ PortalFirst' /\ StationIsAssociated'
    BY <1>9
    DEF HandleDisconnected, Unheard, Off, HandlerBusy, EventsInOrder, Pending,
        PortalFirst, StationIsAssociated
  <2>3. FormStored'
    BY <1>9 DEF HandleDisconnected, FormStored, Loaded, Agrees
  <2> QED
    BY <2>1, <2>2, <2>3
<1>10. CASE Reconnect
  <2>1. /\ handler = "sleeping" /\ handler' = "idle" /\ events' = Tail(events)
        /\ link' \in {"joining", "refused"}
        /\ UNCHANGED <<flash, pc, ctx, portalVars, webVars, target, air, cuts>>
    BY <1>10 DEF Reconnect
  <2>2. faults' \in 0..MaxFaults /\ (faults' = 0 => faults = 0)
    BY <1>10, NetworkAssumption DEF Reconnect, TypeOK
  <2>3. TypeOK'
    <3>1. events' \in Seq(Event) /\ Len(events') \in 0..MaxEvents
      BY <2>1, PopFacts DEF HandlerBusy
    <3> QED
      BY <2>1, <2>2, <3>1 DEF TypeOK
  <2>4. Unheard' /\ EventsInOrder' /\ HandlerBusy' /\ PortalFirst' /\ StationIsAssociated'
    BY <2>1, <2>2
    DEF Unheard, Off, HandlerBusy, EventsInOrder, Pending, PortalFirst,
        StationIsAssociated
  <2>5. FormStored'
    BY <2>1 DEF FormStored, Loaded, Agrees
  <2> QED
    BY <2>3, <2>4, <2>5
<1>11. CASE HandleExhausted
  <2>1. TypeOK'
    BY <1>11, PopFacts DEF HandleExhausted, TypeOK
  <2>2. Unheard' /\ EventsInOrder' /\ HandlerBusy' /\ PortalFirst' /\ StationIsAssociated'
    BY <1>11
    DEF HandleExhausted, Unheard, Off, HandlerBusy, EventsInOrder, Pending, PortalFirst,
        StationIsAssociated
  <2>3. FormStored'
    BY <1>11 DEF HandleExhausted, FormStored, Loaded, Agrees
  <2> QED
    BY <2>1, <2>2, <2>3
<1>12. CASE HandleScanDone
  <2>1. TypeOK'
    BY <1>12, PopFacts DEF HandleScanDone, TypeOK
  <2>2. Unheard'
    BY <1>12 DEF HandleScanDone, Unheard, Off, HandlerBusy
  <2>3. EventsInOrder'
    BY <1>12, PopKeepsOrder DEF HandleScanDone, EventsInOrder
  <2>4. HandlerBusy'
    BY <1>12 DEF HandleScanDone, HandlerBusy
  <2>5. PortalFirst'
    BY <1>12 DEF HandleScanDone, PortalFirst, EventsInOrder, Pending
  <2>6. FormStored'
    BY <1>12 DEF HandleScanDone, FormStored, Loaded, Agrees
  <2>7. StationIsAssociated'
    BY <1>12 DEF HandleScanDone, StationIsAssociated
  <2> QED
    BY <2>1, <2>2, <2>3, <2>4, <2>5, <2>6, <2>7
<1>13. CASE HandleApStart
  <2>1. TypeOK'
    <3>1. CASE /\ sock' = TRUE /\ dns' = "created" /\ handler' = "starting"
               /\ UNCHANGED <<events, faults>>
      <4>1. sock' \in BOOLEAN /\ softap' \in BOOLEAN
        BY <1>13, <3>1 DEF HandleApStart
      <4> QED
        BY <1>13, <3>1, <4>1 DEF HandleApStart, TypeOK
    <3>2. CASE Fault /\ events' = Tail(events) /\ UNCHANGED <<sock, dns, handler>>
      <4>1. softap' \in BOOLEAN
        BY <1>13 DEF HandleApStart
      <4>2. faults' \in 0..MaxFaults
        BY <3>2, NetworkAssumption DEF TypeOK
      <4>3. events' \in Seq(Event) /\ Len(events') \in 0..MaxEvents
        BY <1>13, <3>2, PopFacts DEF HandleApStart
      <4> QED
        BY <1>13, <3>2, <4>1, <4>2, <4>3 DEF HandleApStart, TypeOK
    <3> QED
      BY <1>13, <3>1, <3>2 DEF HandleApStart
  <2>2. Unheard'
    <3>1. events # <<>> /\ pc # "off"
      BY <1>13 DEF HandleApStart, Unheard, Off
    <3>2. CASE UNCHANGED events
      BY <1>13, <3>1, <3>2 DEF HandleApStart, Unheard
    <3>3. CASE events' = Tail(events)
      <4>1. \A n \in 1..Len(events') : \E m \in 1..Len(events) : events'[n] = events[m]
        BY <3>1, <3>3
      <4> QED
        BY <1>13, <3>1, <4>1 DEF HandleApStart, Unheard
    <3> QED
      BY <1>13, <3>2, <3>3 DEF HandleApStart
  <2>3. EventsInOrder'
    <3>1. CASE UNCHANGED events
      BY <1>13, <3>1 DEF HandleApStart, EventsInOrder, Pending
    <3>2. CASE events' = Tail(events)
      BY <1>13, <3>2, PopKeepsOrder DEF HandleApStart
    <3> QED
      BY <1>13, <3>1, <3>2 DEF HandleApStart
  <2>4. HandlerBusy'
    BY <1>13 DEF HandleApStart, HandlerBusy
  <2>5. PortalFirst'
    BY <1>13 DEF HandleApStart, PortalFirst, Unheard, Pending, TypeOK
  <2>6. FormStored'
    BY <1>13 DEF HandleApStart, FormStored, Loaded, Agrees
  <2>7. StationIsAssociated'
    BY <1>13 DEF HandleApStart, StationIsAssociated
  <2> QED
    BY <2>1, <2>2, <2>3, <2>4, <2>5, <2>6, <2>7
<1>14. CASE PortalUp
  <2>1. TypeOK'
    BY <1>14, PopFacts, PopKeepsOrder DEF PortalUp, TypeOK, HandlerBusy
  <2>2. Unheard'
    BY <1>14 DEF PortalUp, Unheard, Off
  <2>3. EventsInOrder'
    BY <1>14, PopKeepsOrder DEF PortalUp, EventsInOrder
  <2>4. HandlerBusy'
    BY <1>14 DEF PortalUp, HandlerBusy
  <2>5. PortalFirst'
    <3>1. events # <<>> /\ Head(events) = "AP_START" /\ pc # "off" /\ events' = Tail(events)
      BY <1>14 DEF PortalUp, HandlerBusy, Unheard, Off
    <3>2. Len(events) \in Nat \ {0} /\ Head(events) = events[1]
      BY <3>1
    <3>3. Pending("AP_START")
      BY <3>1, <3>2 DEF Pending
    <3>4. softap /\ retry = 0
      BY <1>14, <3>3 DEF PortalUp, HandlerBusy, PortalFirst, TypeOK
    <3> QED
      BY <1>14, <3>1, <3>4 DEF PortalUp, PortalFirst
  <2>6. FormStored'
    BY <1>14 DEF PortalUp, FormStored, Loaded, Agrees
  <2>7. StationIsAssociated'
    BY <1>14, PopFacts DEF PortalUp, StationIsAssociated, HandlerBusy
  <2> QED
    BY <2>1, <2>2, <2>3, <2>4, <2>5, <2>6, <2>7
<1>15. CASE DnsTask
  <2>1. TypeOK'
    BY <1>15 DEF DnsTask, TypeOK
  <2>2. Unheard' /\ EventsInOrder' /\ HandlerBusy' /\ PortalFirst' /\ StationIsAssociated'
    BY <1>15
    DEF DnsTask, Unheard, Off, HandlerBusy, EventsInOrder, Pending, PortalFirst,
        StationIsAssociated
  <2>3. FormStored'
    BY <1>15 DEF DnsTask, FormStored, Loaded, Agrees
  <2> QED
    BY <2>1, <2>2, <2>3
<1>16. CASE SaveSsid
  <2>1. TypeOK'
    <3>1. form \in Forms
      BY <1>16 DEF SaveSsid, TypeOK, FormStored
    <3>2. Name(form[1]) \in Names
      BY <3>1, FormFacts
    <3>3. ssid' \in Names \cup {None} /\ form' \in Forms \cup {None}
      BY <1>16, <3>1, <3>2 DEF SaveSsid, TypeOK
    <3>4. faults' \in 0..MaxFaults
      BY <1>16, NetworkAssumption DEF SaveSsid, TypeOK
    <3>5. web' \in {"idle", "psk"}
      BY <1>16 DEF SaveSsid
    <3> QED
      BY <1>16, <3>3, <3>4, <3>5 DEF SaveSsid, TypeOK
  <2>2. Unheard' /\ EventsInOrder' /\ HandlerBusy' /\ PortalFirst' /\ StationIsAssociated'
    BY <1>16
    DEF SaveSsid, Unheard, TypeOK, HandlerBusy, EventsInOrder, Pending, PortalFirst,
        StationIsAssociated
  <2>3. FormStored'
    BY <1>16 DEF SaveSsid, FormStored
  <2> QED
    BY <2>1, <2>2, <2>3
<1>17. CASE SavePsk
  <2> DEFINE new == IF Word(form[2]) = Empty THEN None ELSE Word(form[2])
  <2>1. \/ psk' = new /\ web' = "stop" /\ UNCHANGED <<form, lost, faults>>
        \/ /\ new = None /\ Fault
           /\ lost' = TRUE /\ web' = "stop"
           /\ UNCHANGED <<psk, form>>
        \/ /\ Fault
           /\ psk' \in {psk, new} /\ web' = "idle" /\ form' = None
           /\ UNCHANGED lost
    BY <1>17 DEF SavePsk
  <2>2. form \in Forms
    BY <1>17 DEF SavePsk, TypeOK, FormStored
  <2>3. new \in (Words \ {Empty}) \cup {None}
    BY <2>2, FormFacts
  <2>4. <<ssid, IF new = None THEN Empty ELSE new>> = <<Name(form[1]), Word(form[2])>>
    BY <1>17, <2>2, FormFacts DEF SavePsk, FormStored
  <2> HIDE DEF new
  <2>5. TypeOK'
    <3>1. psk' \in (Words \ {Empty}) \cup {None} /\ form' \in Forms \cup {None}
      BY <2>1, <2>2, <2>3 DEF TypeOK
    <3>2. faults' \in 0..MaxFaults
      BY <2>1, NetworkAssumption DEF TypeOK
    <3>3. web' \in {"idle", "stop"}
      BY <2>1
    <3>4. lost' \in BOOLEAN
      BY <2>1 DEF TypeOK
    <3> QED
      BY <1>17, <3>1, <3>2, <3>3, <3>4 DEF SavePsk, TypeOK
  <2>6. Unheard' /\ EventsInOrder' /\ HandlerBusy' /\ PortalFirst' /\ StationIsAssociated'
    <3>1. web' # "restart" /\ web # "restart" /\ pc = "up" /\ faults \in 0..MaxFaults
      BY <1>17, <2>1 DEF SavePsk, Unheard, TypeOK
    <3>2. faults' = faults \/ faults' = faults + 1
      BY <2>1
    <3>3. faults' # 0 \/ faults' = faults
      BY <3>1, <3>2
    <3> QED
      BY <1>17, <3>1, <3>3
      DEF SavePsk, Unheard, HandlerBusy, EventsInOrder, Pending, PortalFirst,
          StationIsAssociated
  <2>7. FormStored'
    <3>1. accepted' = None /\ ssid' = ssid /\ ssid = Name(form[1])
      BY <1>17 DEF SavePsk, FormStored
    <3>2. CASE psk' = new /\ web' = "stop" /\ UNCHANGED form
      BY <2>2, <2>4, <3>1, <3>2, FormFacts DEF FormStored, Loaded, Agrees
    <3>3. CASE lost' = TRUE /\ web' = "stop" /\ UNCHANGED form
      BY <2>2, <3>1, <3>3, FormFacts DEF FormStored, Loaded, Agrees
    <3>4. CASE web' = "idle"
      BY <3>1, <3>4 DEF FormStored
    <3> QED
      BY <2>1, <3>2, <3>3, <3>4
  <2> QED
    BY <2>5, <2>6, <2>7
<1>18. CASE StopPortal
  <2>1. TypeOK'
    <3>1. portal' \in BOOLEAN /\ sock' \in BOOLEAN
      BY <1>18 DEF StopPortal
    <3>2. /\ accepted' = form /\ web' = "restart"
          /\ UNCHANGED <<flash, pc, ctx, events, handler, dns, form, posts, scans,
                        driver, air, cuts, faults>>
      BY <1>18 DEF StopPortal
    <3> QED
      BY <3>1, <3>2 DEF TypeOK
  <2>2. Unheard' /\ EventsInOrder' /\ HandlerBusy' /\ PortalFirst' /\ StationIsAssociated'
    BY <1>18
    DEF StopPortal, Unheard, HandlerBusy, EventsInOrder, Pending, PortalFirst,
        StationIsAssociated
  <2>3. FormStored'
    BY <1>18 DEF StopPortal, FormStored, Loaded, Agrees
  <2> QED
    BY <2>1, <2>2, <2>3
<1>19. CASE Restart
  BY <1>19, DownFits DEF Restart, TypeOK
<1>20. ASSUME NEW s \in Ssids, NEW p \in Psks, SetupPost(s, p) PROVE IInv'
  <2>1. CASE Name(s) = Empty
    <3>1. posts' \in 0..MaxPosts /\ UNCHANGED <<accepted, lost, form, web>>
      BY <1>20, <2>1, NetworkAssumption DEF SetupPost, TypeOK
    <3>2. TypeOK'
      BY <1>20, <3>1 DEF SetupPost, TypeOK
    <3>3. Unheard' /\ EventsInOrder' /\ HandlerBusy' /\ PortalFirst' /\ StationIsAssociated'
      BY <1>20, <3>1
      DEF SetupPost, Unheard, HandlerBusy, EventsInOrder, Pending, PortalFirst,
          StationIsAssociated
    <3>4. FormStored'
      BY <1>20, <3>1 DEF SetupPost, FormStored, Loaded, Agrees
    <3> QED
      BY <3>2, <3>3, <3>4
  <2>2. CASE Name(s) # Empty
    <3>1. accepted' = None /\ lost' = FALSE /\ form' = <<s, p>> /\ web' = "ssid"
      BY <1>20, <2>2 DEF SetupPost
    <3>2. form' \in Forms /\ form' # None
      BY <2>2, <3>1, FormFacts DEF Forms
    <3>3. posts' \in 0..MaxPosts
      BY <1>20, NetworkAssumption DEF SetupPost, TypeOK
    <3>4. TypeOK'
      <4>1. lost' \in BOOLEAN /\ accepted' \in Forms \cup {None}
        BY <3>1
      <4> QED
        BY <1>20, <3>1, <3>2, <3>3, <4>1 DEF SetupPost, TypeOK
    <3>5. Unheard' /\ EventsInOrder' /\ HandlerBusy' /\ PortalFirst' /\ StationIsAssociated'
      BY <1>20, <3>1
      DEF SetupPost, Unheard, HandlerBusy, EventsInOrder, Pending, PortalFirst,
          StationIsAssociated
    <3>6. FormStored'
      BY <3>1, <3>2 DEF FormStored
    <3> QED
      BY <3>4, <3>5, <3>6
  <2> QED
    BY <2>1, <2>2
<1>21. CASE WifiScan
  <2>1. TypeOK'
    <3>1. events' \in Seq(Event) /\ Len(events') \in 0..MaxEvents
      BY <1>21, NetworkAssumption, AppendFacts DEF WifiScan, Report, Event
    <3>2. scans' \in 0..MaxScans
      BY <1>21, NetworkAssumption DEF WifiScan, TypeOK
    <3> QED
      BY <1>21, <3>1, <3>2 DEF WifiScan, TypeOK
  <2>2. Unheard' /\ EventsInOrder' /\ HandlerBusy' /\ PortalFirst' /\ StationIsAssociated'
    BY <1>21
    DEF WifiScan, Report, Unheard, HandlerBusy, EventsInOrder, Pending, PortalFirst,
        StationIsAssociated
  <2>3. FormStored'
    BY <1>21 DEF WifiScan, FormStored, Loaded, Agrees
  <2> QED
    BY <2>1, <2>2, <2>3
<1>22. CASE Join
  <2>1. TypeOK'
    BY <1>22, NetworkAssumption DEF Join, Report, Elsewhere, Event, TypeOK
  <2>2. Unheard' /\ EventsInOrder' /\ HandlerBusy' /\ PortalFirst' /\ StationIsAssociated'
    BY <1>22
    DEF Join, Report, Elsewhere, Unheard, Off, HandlerBusy, EventsInOrder, Pending,
        PortalFirst, StationIsAssociated
  <2>3. FormStored'
    BY <1>22 DEF Join, Elsewhere, FormStored, Loaded, Agrees
  <2> QED
    BY <2>1, <2>2, <2>3
<1>23. CASE JoinFails
  <2>1. TypeOK'
    BY <1>23, NetworkAssumption DEF JoinFails, Report, Elsewhere, Event, TypeOK
  <2>2. Unheard' /\ EventsInOrder' /\ HandlerBusy' /\ PortalFirst' /\ StationIsAssociated'
    BY <1>23
    DEF JoinFails, Report, Elsewhere, Unheard, Off, HandlerBusy, EventsInOrder, Pending,
        PortalFirst, StationIsAssociated
  <2>3. FormStored'
    BY <1>23 DEF JoinFails, Elsewhere, FormStored, Loaded, Agrees
  <2> QED
    BY <2>1, <2>2, <2>3
<1>24. CASE GetAddress
  <2>1. TypeOK'
    BY <1>24, NetworkAssumption DEF GetAddress, Report, Elsewhere, Event, TypeOK
  <2>2. Unheard' /\ EventsInOrder' /\ HandlerBusy' /\ PortalFirst' /\ StationIsAssociated'
    BY <1>24
    DEF GetAddress, Report, Elsewhere, Unheard, Off, HandlerBusy, EventsInOrder,
        Pending, PortalFirst, StationIsAssociated
  <2>3. FormStored'
    BY <1>24 DEF GetAddress, Elsewhere, FormStored, Loaded, Agrees
  <2> QED
    BY <2>1, <2>2, <2>3
<1>25. CASE LoseLink
  <2>1. TypeOK'
    BY <1>25, NetworkAssumption DEF LoseLink, Report, Elsewhere, Event, TypeOK
  <2>2. Unheard' /\ EventsInOrder' /\ HandlerBusy' /\ PortalFirst' /\ StationIsAssociated'
    BY <1>25
    DEF LoseLink, Report, Elsewhere, Unheard, Off, HandlerBusy, EventsInOrder, Pending,
        PortalFirst, StationIsAssociated
  <2>3. FormStored'
    BY <1>25 DEF LoseLink, Elsewhere, FormStored, Loaded, Agrees
  <2> QED
    BY <2>1, <2>2, <2>3
<1>26. CASE LoseAddress
  <2>1. TypeOK'
    BY <1>26 DEF LoseAddress, Elsewhere, TypeOK
  <2>2. Unheard' /\ EventsInOrder' /\ HandlerBusy' /\ PortalFirst' /\ StationIsAssociated'
    BY <1>26
    DEF LoseAddress, Elsewhere, Unheard, Off, HandlerBusy, EventsInOrder, Pending,
        PortalFirst, StationIsAssociated
  <2>3. FormStored'
    BY <1>26 DEF LoseAddress, Elsewhere, FormStored, Loaded, Agrees
  <2> QED
    BY <2>1, <2>2, <2>3
<1>27. CASE NetworkChanges
  <2>1. TypeOK'
    BY <1>27 DEF NetworkChanges, Elsewhere, TypeOK
  <2>2. Unheard' /\ EventsInOrder' /\ HandlerBusy' /\ PortalFirst' /\ StationIsAssociated'
    BY <1>27
    DEF NetworkChanges, Elsewhere, Unheard, Off, HandlerBusy, EventsInOrder, Pending,
        PortalFirst, StationIsAssociated
  <2>3. FormStored'
    BY <1>27 DEF NetworkChanges, Elsewhere, FormStored, Loaded, Agrees
  <2> QED
    BY <2>1, <2>2, <2>3
<1>28. CASE PowerCut
  BY <1>28, DownFits, NetworkAssumption DEF PowerCut, TypeOK
<1>29. CASE UNCHANGED vars
  <2>1. TypeOK'
    BY <1>29 DEF vars, TypeOK
  <2>2. Unheard' /\ EventsInOrder' /\ HandlerBusy' /\ PortalFirst' /\ StationIsAssociated'
    BY <1>29
    DEF vars, Unheard, Off, HandlerBusy, EventsInOrder, Pending, PortalFirst,
        StationIsAssociated
  <2>3. FormStored'
    BY <1>29 DEF vars, FormStored, Loaded, Agrees
  <2> QED
    BY <2>1, <2>2, <2>3
<1> QED
  BY <1>1, <1>2, <1>3, <1>4, <1>5, <1>6, <1>7, <1>8, <1>9, <1>10, <1>11, <1>12,
     <1>13, <1>14, <1>15, <1>16, <1>17, <1>18, <1>19, <1>20, <1>21, <1>22, <1>23, <1>24,
     <1>25, <1>26, <1>27, <1>28, <1>29
  DEF Next, AppMain, EventTask, WebServer, Driver

\* The invariant holds whatever the network, the user and the driver do.
THEOREM InvariantHolds == Spec => []IInv
BY InitHolds, StepHolds, PTL DEF Spec

\* A device that says it is connected is associated with the network, or will
\* soon be told that it no longer is (wifi_event_handler).
THEOREM StationsAreAssociated == Spec => []StationIsAssociated
<1>1. IInv => StationIsAssociated
  BY DEF IInv
<1> QED
  BY <1>1, InvariantHolds, PTL

\* Once an attempt has failed the access point and its portal are up
\* (wifi_event_handler, captive_portal_start).
THEOREM FallbackIsReady == Spec => []FallbackReady
<1>1. IInv => FallbackReady
  BY DEF IInv, PortalFirst, FallbackReady
<1> QED
  BY <1>1, InvariantHolds, PTL

\* The station is given no credentials but those taken from the form accepted
\* last: its name in any case, its password unless that could not be erased or
\* read (StaConnect, StaConnectFails).
THEOREM ConnectionsAreAccepted == Spec => ConnectsAsAccepted
<1>1. ASSUME IInv, Next, target' \notin {None, target}, accepted # None
      PROVE  Agrees(target', accepted, lost')
  <2>1. StaConnect \/ StaConnectFails
    BY <1>1 DEF Next, AppMain, EventTask, WebServer, Driver, WifiManagerInit, NoCredentials,
       Decide, StartSoftApFails, HandleConnected, HandleGotIp,
       HandleDisconnected, Reconnect, HandleExhausted, HandleScanDone, HandleApStart, PortalUp,
       DnsTask, SaveSsid, SavePsk, StopPortal, Restart, SetupPost, WifiScan, Join, JoinFails,
       GetAddress, LoseLink, LoseAddress, NetworkChanges, PowerCut, Down, Elsewhere, driver
  <2>2. PICK word \in {Loaded[2], Empty} : Read(word) /\ target' = <<ssid, word>>
    BY <1>1, <2>1 DEF StaConnect, StaConnectFails, driver
  <2>3. Agrees(Loaded, accepted, lost) /\ lost \in BOOLEAN
    BY <1>1 DEF IInv, FormStored, TypeOK
  <2>4. target'[1] = ssid /\ Loaded[1] = ssid /\ target'[2] = word
    BY <2>2 DEF Loaded
  <2>5. CASE word = Loaded[2]
    BY <2>2, <2>3, <2>4, <2>5 DEF Agrees, Read
  <2>6. CASE word # Loaded[2]
    BY <2>2, <2>3, <2>4, <2>6 DEF Agrees, Read
  <2> QED
    BY <2>5, <2>6
<1>2. IInv /\ [Next]_vars =>
        [target' \notin {None, target} /\ accepted # None =>
           Agrees(target', accepted, lost')]_vars
  BY <1>1
<1> QED
  BY <1>2, InvariantHolds, PTL DEF Spec, ConnectsAsAccepted

=============================================================================
