----------------------------- MODULE SacnProofs -----------------------------
(***************************************************************************)
(* Proofs about sACN reception and about the ring its packets wait in, for *)
(* any outputs and universes, any sockets, grace period and clock, and for *)
(* a ring of any capacity whose indices count a multiple of it.  SacnSync  *)
(* takes the ring for the queue that PacketRing is shown to implement.     *)
(*                                                                         *)
(* The argument for SacnSync: whatever is shown or staged was sent before  *)
(* whatever waits, in the ring before the socket, and every step takes     *)
(* frames from the front only.                                             *)
(***************************************************************************)
EXTENDS SacnSync, PacketRing, SequenceTheorems, TLAPS

-----------------------------------------------------------------------------
(***************************************************************************)
(* SacnSync: queues.                                                       *)
(***************************************************************************)
\* What is taken from the front of a queue.
LEMMA AtMostFacts ==
  ASSUME NEW S, NEW q \in Seq(S), NEW n \in Nat
  PROVE  /\ AtMost(n, q) \in Seq(S)
         /\ Len(AtMost(n, q)) \in Nat
         /\ Len(AtMost(n, q)) <= n /\ Len(AtMost(n, q)) <= Len(q)
         /\ \A i \in 1..Len(AtMost(n, q)) : i \in 1..Len(q) /\ AtMost(n, q)[i] = q[i]
<1> DEFINE k == IF Len(q) < n THEN Len(q) ELSE n
<1>1. Len(q) \in Nat /\ \A i \in 1..Len(q) : q[i] \in S
  BY LenProperties, ElementOfSeq
<1>2. k \in Nat /\ k <= Len(q) /\ k <= n
  BY <1>1
<1>3. \A i \in 1..k : q[i] \in S
  BY <1>1, <1>2
<1> HIDE DEF k
<1>4. /\ SubSeq(q, 1, k) \in Seq(S)
      /\ Len(SubSeq(q, 1, k)) = IF 1 <= k THEN k - 1 + 1 ELSE 0
      /\ \A i \in 1..k-1+1 : SubSeq(q, 1, k)[i] = q[1 + i - 1]
  BY <1>2, <1>3, SubSeqProperties
<1>5. Len(SubSeq(q, 1, k)) = k /\ \A i \in 1..k : SubSeq(q, 1, k)[i] = q[i]
  BY <1>2, <1>4
<1>6. AtMost(n, q) = SubSeq(q, 1, k)
  BY DEF AtMost, k
<1> QED
  BY <1>1, <1>2, <1>4, <1>5, <1>6

\* What is left of a queue.
LEMMA BeyondFacts ==
  ASSUME NEW S, NEW q \in Seq(S), NEW n \in Nat
  PROVE  /\ Beyond(n, q) \in Seq(S)
         /\ Len(Beyond(n, q)) \in Nat /\ Len(Beyond(n, q)) <= Len(q)
         /\ \A i \in 1..Len(Beyond(n, q)) :
              n + i \in 1..Len(q) /\ Beyond(n, q)[i] = q[n + i]
<1>1. Len(q) \in Nat /\ \A i \in 1..Len(q) : q[i] \in S
  BY LenProperties, ElementOfSeq
<1>2. \A i \in n+1..Len(q) : q[i] \in S
  BY <1>1
<1>3. /\ Beyond(n, q) \in Seq(S)
      /\ Len(Beyond(n, q)) = IF n + 1 <= Len(q) THEN Len(q) - (n + 1) + 1 ELSE 0
      /\ \A i \in 1..Len(q)-(n+1)+1 : Beyond(n, q)[i] = q[(n + 1) + i - 1]
  BY <1>1, <1>2, SubSeqProperties DEF Beyond
<1> QED
  BY <1>1, <1>3

\* A packet is dispatched.
LEMMA PopFacts ==
  ASSUME TypeOK, ring # <<>>, ring' = Tail(ring)
  PROVE  /\ ring' \in Seq(Packet) /\ Len(ring') \in Nat /\ Len(ring') <= RingCap
         /\ Len(ring) \in Nat \ {0} /\ Head(ring) = ring[1] /\ Head(ring) \in Packet
         /\ \A n \in 1..Len(ring') : n + 1 \in 1..Len(ring) /\ ring'[n] = ring[n + 1]
<1>1. ring \in Seq(Packet) /\ Len(ring) <= RingCap /\ RingCap \in Nat
  BY SacnAssumption DEF TypeOK
<1>2. Len(ring) \in Nat \ {0}
  BY <1>1, EmptySeq
<1>3. /\ Head(ring) \in Packet /\ ring' \in Seq(Packet) /\ Len(ring') = Len(ring) - 1
      /\ \A n \in 1..Len(ring') : ring'[n] = ring[n + 1]
  BY <1>1, HeadTailProperties
<1>4. Head(ring) = ring[1]
  BY <1>1
<1> QED
  BY <1>1, <1>2, <1>3, <1>4

\* A datagram comes in last, and only where its group was joined.
LEMMA DeliverFacts ==
  ASSUME TypeOK, NEW p \in Packet, Deliver(p)
  PROVE  /\ socket' \in [Output -> Seq(Packet)]
         /\ \A o \in Output :
              /\ Len(socket[o]) \in Nat /\ Len(socket'[o]) \in Nat
              /\ Len(socket'[o]) <= SocketCap
              /\ \A n \in 1..Len(socket'[o]) :
                   \/ n \in 1..Len(socket[o]) /\ socket'[o][n] = socket[o][n]
                   \/ n = Len(socket[o]) + 1 /\ socket'[o][n] = p /\ Joined(o, p.universe)
<1>1. SocketCap \in Nat
  BY SacnAssumption
<1>2. ASSUME NEW o \in Output
      PROVE  /\ socket'[o] \in Seq(Packet)
             /\ Len(socket[o]) \in Nat /\ Len(socket'[o]) \in Nat
             /\ Len(socket'[o]) <= SocketCap
             /\ \A n \in 1..Len(socket'[o]) :
                  \/ n \in 1..Len(socket[o]) /\ socket'[o][n] = socket[o][n]
                  \/ n = Len(socket[o]) + 1 /\ socket'[o][n] = p /\ Joined(o, p.universe)
  <2>1. socket[o] \in Seq(Packet) /\ Len(socket[o]) \in Nat /\ Len(socket[o]) <= SocketCap
    BY LenProperties DEF TypeOK
  <2>2. CASE Joined(o, p.universe) /\ Len(socket[o]) < SocketCap
    <3>1. socket'[o] = Append(socket[o], p)
      BY <2>2 DEF Deliver
    <3> QED
      BY <1>1, <2>1, <2>2, <3>1, AppendProperties
  <2>3. CASE ~(Joined(o, p.universe) /\ Len(socket[o]) < SocketCap)
    <3>1. socket'[o] = socket[o]
      BY <2>3 DEF Deliver
    <3> QED
      BY <2>1, <3>1
  <2> QED
    BY <2>2, <2>3
<1>3. socket' = [o \in Output |-> socket'[o]]
  BY DEF Deliver
<1> QED
  BY <1>2, <1>3

\* A socket is drained: its first datagrams follow what is in the ring.
LEMMA DrainFacts ==
  ASSUME TypeOK, Drain
  PROVE  /\ socket' \in [Output -> Seq(Packet)]
         /\ ring' \in Seq(Packet) /\ Len(ring') \in Nat /\ Len(ring') <= RingCap
         /\ Len(ring) \in Nat /\ turn \in Output /\ PollLimit \in Nat \ {0}
         /\ \A o \in Output :
              /\ Len(socket[o]) \in Nat /\ Len(socket'[o]) \in Nat
              /\ Len(socket'[o]) <= SocketCap
              /\ o # turn => socket'[o] = socket[o]
         /\ \A n \in 1..Len(socket'[turn]) :
              /\ PollLimit + n \in 1..Len(socket[turn])
              /\ socket'[turn][n] = socket[turn][PollLimit + n]
         /\ \A n \in 1..Len(ring') :
              \/ n \in 1..Len(ring) /\ ring'[n] = ring[n]
              \/ /\ n - Len(ring) \in 1..PollLimit
                 /\ n - Len(ring) \in 1..Len(socket[turn])
                 /\ ring'[n] = socket[turn][n - Len(ring)]
<1> DEFINE q == socket[turn]
           a == AtMost(PollLimit, q)
           r == ring \o a
           rest == Beyond(PollLimit, q)
<1>1. /\ turn \in Output /\ q \in Seq(Packet) /\ ring \in Seq(Packet)
      /\ ring' = AtMost(RingCap, r)
      /\ socket' = [socket EXCEPT ![turn] = rest]
  BY DEF TypeOK, Drain
<1>2. PollLimit \in Nat \ {0} /\ RingCap \in Nat /\ SocketCap \in Nat
  BY SacnAssumption
<1>3. /\ a \in Seq(Packet) /\ Len(a) \in Nat /\ Len(a) <= PollLimit /\ Len(a) <= Len(q)
      /\ \A i \in 1..Len(a) : i \in 1..Len(q) /\ a[i] = q[i]
  BY <1>1, <1>2, AtMostFacts
<1>4. /\ rest \in Seq(Packet) /\ Len(rest) \in Nat /\ Len(rest) <= Len(q)
      /\ \A i \in 1..Len(rest) : PollLimit + i \in 1..Len(q) /\ rest[i] = q[PollLimit + i]
  BY <1>1, <1>2, BeyondFacts
<1>5. Len(ring) \in Nat /\ Len(q) \in Nat
  BY <1>1, LenProperties
<1> HIDE DEF a, rest, q
<1>6. /\ r \in Seq(Packet) /\ Len(r) = Len(ring) + Len(a)
      /\ \A i \in 1..Len(ring)+Len(a) :
           r[i] = IF i <= Len(ring) THEN ring[i] ELSE a[i - Len(ring)]
  BY <1>1, <1>3, ConcatProperties
<1> HIDE DEF r
<1>7. /\ ring' \in Seq(Packet) /\ Len(ring') \in Nat /\ Len(ring') <= RingCap
      /\ Len(ring') <= Len(r)
      /\ \A i \in 1..Len(ring') : i \in 1..Len(r) /\ ring'[i] = r[i]
  BY <1>1, <1>2, <1>6, AtMostFacts
<1>8. ASSUME NEW n \in 1..Len(ring')
      PROVE  \/ n \in 1..Len(ring) /\ ring'[n] = ring[n]
             \/ /\ n - Len(ring) \in 1..PollLimit
                /\ n - Len(ring) \in 1..Len(q)
                /\ ring'[n] = q[n - Len(ring)]
  <2>1. n \in 1..Len(ring)+Len(a) /\ ring'[n] = r[n]
    BY <1>6, <1>7
  <2>2. CASE n <= Len(ring)
    BY <1>5, <1>6, <2>1, <2>2
  <2>3. CASE n > Len(ring)
    <3>1. n - Len(ring) \in 1..Len(a) /\ ring'[n] = a[n - Len(ring)]
      BY <1>3, <1>5, <1>6, <2>1, <2>3
    <3> QED
      BY <1>2, <1>3, <1>5, <3>1
  <2> QED
    BY <1>5, <2>1, <2>2, <2>3
<1>9. \A o \in Output : socket[o] \in Seq(Packet) /\ Len(socket[o]) \in Nat
                          /\ Len(socket[o]) <= SocketCap
  BY LenProperties DEF TypeOK
<1>10. socket' \in [Output -> Seq(Packet)] /\ socket'[turn] = rest
       /\ \A o \in Output : o # turn => socket'[o] = socket[o]
  BY <1>1, <1>4 DEF TypeOK
<1>11. \A o \in Output : Len(socket'[o]) \in Nat /\ Len(socket'[o]) <= SocketCap
  BY <1>1, <1>2, <1>4, <1>5, <1>9, <1>10 DEF q
<1>12. \A n \in 1..Len(socket'[turn]) :
         PollLimit + n \in 1..Len(q) /\ socket'[turn][n] = q[PollLimit + n]
  BY <1>4, <1>10
<1> QED
  BY <1>1, <1>2, <1>5, <1>7, <1>8, <1>9, <1>10, <1>11, <1>12 DEF q

-----------------------------------------------------------------------------
\* The initial states satisfy the invariant: nothing waits, nothing is shown.
LEMMA InitHolds ==
  Init => IInv
<1> SUFFICES ASSUME Init PROVE IInv
  OBVIOUS
<1>1. ring = <<>> /\ Len(ring) = 0 /\ \A o \in Output : socket[o] = <<>> /\ Len(socket[o]) = 0
  BY DEF Init
<1>2. <<>> \in Seq(Packet)
  OBVIOUS
<1>3. TypeOK
  BY <1>1, <1>2, SacnAssumption DEF Init, TypeOK, FrameNo
<1>4. WaitingInOrder
  BY <1>1 DEF WaitingInOrder
<1>5. ShownInOrder
  BY <1>1 DEF Init, ShownInOrder
<1> QED
  BY <1>3, <1>4, <1>5 DEF IInv

\* Every step keeps the types and the capacities.
LEMMA TypeHolds ==
  ASSUME TypeOK, [Next]_vars
  PROVE  TypeOK'
<1> USE SacnAssumption
<1>1. ASSUME NEW u \in Universe \ {0}, SendFrame(u) PROVE TypeOK'
  <2>1. sent' \in FrameNo
    BY <1>1 DEF SendFrame, TypeOK, FrameNo
  <2>2. [kind |-> "stream", universe |-> u, frame |-> sent'] \in Packet
    BY <2>1 DEF Packet
  <2>3. Deliver([kind |-> "stream", universe |-> u, frame |-> sent'])
    BY <1>1 DEF SendFrame
  <2>4. socket' \in [Output -> Seq(Packet)] /\ \A o \in Output : Len(socket'[o]) <= SocketCap
    BY <2>2, <2>3, DeliverFacts
  <2> QED
    BY <1>1, <2>1, <2>4 DEF SendFrame, TypeOK
<1>2. ASSUME NEW u \in Universe \ {0}, SendSync(u) PROVE TypeOK'
  <2>1. [kind |-> "sync", universe |-> u] \in Packet
    BY DEF Packet
  <2>2. socket' \in [Output -> Seq(Packet)] /\ \A o \in Output : Len(socket'[o]) <= SocketCap
    BY <1>2, <2>1, DeliverFacts DEF SendSync
  <2> QED
    BY <1>2, <2>2 DEF SendSync, TypeOK
<1>3. CASE Drain
  <2>1. /\ socket' \in [Output -> Seq(Packet)] /\ \A o \in Output : Len(socket'[o]) <= SocketCap
        /\ ring' \in Seq(Packet) /\ Len(ring') <= RingCap /\ turn \in Output
    BY <1>3, DrainFacts
  <2>2. turn' \in 0..Outputs+1
    BY <1>3, <2>1 DEF Drain, Output
  <2> QED
    BY <1>3, <2>1, <2>2 DEF Drain, TypeOK
<1>4. CASE CheckTimeouts
  BY <1>4 DEF CheckTimeouts, Commit, TypeOK
<1>5. CASE StageFrame
  <2>1. ring # <<>> /\ ring' = Tail(ring) /\ Head(ring).kind = "stream"
    BY <1>5 DEF StageFrame, Popping
  <2>2. ring' \in Seq(Packet) /\ Len(ring') <= RingCap /\ Head(ring) \in Packet
    BY <2>1, PopFacts
  <2>3. Head(ring).frame \in FrameNo
    BY <2>1, <2>2 DEF Packet
  <2>4. (ms + Grace) % ClockMod \in 0..ClockMod-1
    BY DEF TypeOK
  <2> QED
    BY <1>5, <2>2, <2>3, <2>4 DEF StageFrame, TypeOK
<1>6. CASE RouteFrame
  <2>1. ring # <<>> /\ ring' = Tail(ring) /\ Head(ring).kind = "stream"
    BY <1>6 DEF RouteFrame, Popping
  <2>2. ring' \in Seq(Packet) /\ Len(ring') <= RingCap /\ Head(ring) \in Packet
    BY <2>1, PopFacts
  <2>3. Head(ring).frame \in FrameNo
    BY <2>1, <2>2 DEF Packet
  <2> QED
    BY <1>6, <2>2, <2>3 DEF RouteFrame, TypeOK
<1>7. CASE SyncPacket
  <2>1. ring' \in Seq(Packet) /\ Len(ring') <= RingCap
    BY <1>7, PopFacts DEF SyncPacket, Popping
  <2> QED
    BY <1>7, <2>1 DEF SyncPacket, Commit, TypeOK
<1>8. CASE Tick
  BY <1>8 DEF Tick, TypeOK
<1>9. CASE SetSync
  <2>1. PICK u \in SyncValues : cfg' = [cfg EXCEPT ![0].sync = u]
    BY <1>9 DEF SetSync
  <2>2. cfg' \in [Output -> OutputConfig]
    <3>1. cfg \in [Output -> OutputConfig] /\ 0 \in Output /\ u \in Universe
      BY DEF TypeOK, Output
    <3>2. [cfg[0] EXCEPT !.sync = u] \in OutputConfig
      BY ONLY <3>1 DEF OutputConfig
    <3> QED BY ONLY <2>1, <3>1, <3>2
  <2>3. edits' \in 0..MaxEdits
    <3>1. edits \in 0..MaxEdits /\ edits < MaxEdits /\ edits' = edits + 1
      BY <1>9 DEF SetSync, TypeOK
    <3>2. MaxEdits \in Nat
      OBVIOUS
    <3> QED BY ONLY <3>1, <3>2
  <2> QED
    BY <1>9, <2>2, <2>3 DEF SetSync, TypeOK
<1>10. CASE UNCHANGED vars
  BY <1>10 DEF vars, TypeOK
<1> QED
  BY <1>1, <1>2, <1>3, <1>4, <1>5, <1>6, <1>7, <1>8, <1>9, <1>10 DEF Next, Poll, Dispatch

\* A datagram of the source comes in behind all others.
LEMMA DeliverKeepsOrder ==
  ASSUME TypeOK, WaitingInOrder, ShownInOrder, OneSocketEach, NEW p \in Packet, Deliver(p),
         UNCHANGED <<cfg, ring, live, staged, valid>>,
         sent' \in Nat, sent <= sent', p.kind = "stream" => p.frame = sent'
  PROVE  WaitingInOrder' /\ ShownInOrder'
<1>1. /\ sent \in Nat /\ Len(ring) \in Nat
      /\ \A n \in 1..Len(ring) : ring[n] \in Packet
      /\ \A o \in Output : \A n \in 1..Len(socket[o]) : socket[o][n] \in Packet
      /\ \A o \in Output : live[o] \in Nat /\ staged[o] \in Nat
  BY SacnAssumption, LenProperties, ElementOfSeq DEF TypeOK, FrameNo
<1>2. \A r \in Packet : r.kind = "stream" => r.frame \in Nat
  BY SacnAssumption DEF Packet, FrameNo
<1>3. \A o \in Output : Len(socket[o]) \in Nat /\ \A n \in 1..Len(socket'[o]) :
        \/ n \in 1..Len(socket[o]) /\ socket'[o][n] = socket[o][n]
        \/ n = Len(socket[o]) + 1 /\ socket'[o][n] = p /\ Joined(o, p.universe)
  BY DeliverFacts
<1>4. \A n \in 1..Len(ring) : ring[n].kind = "stream" => ring[n].frame <= sent'
  BY <1>1, <1>2 DEF WaitingInOrder
<1>5. ASSUME NEW o \in Output, NEW n \in 1..Len(socket'[o])
      PROVE  /\ Joined(o, socket'[o][n].universe)
             /\ socket'[o][n].kind = "stream" => socket'[o][n].frame <= sent'
             /\ \A m \in n..Len(socket'[o]) : InOrder(socket'[o][n], socket'[o][m])
             /\ \A m \in 1..Len(ring) : InOrder(ring[m], socket'[o][n])
  <2>1. CASE n \in 1..Len(socket[o]) /\ socket'[o][n] = socket[o][n]
    <3>1. /\ Joined(o, socket[o][n].universe)
          /\ socket[o][n].kind = "stream" => socket[o][n].frame <= sent
          /\ \A m \in n..Len(socket[o]) : InOrder(socket[o][n], socket[o][m])
          /\ \A m \in 1..Len(ring) : InOrder(ring[m], socket[o][n])
      BY <2>1 DEF WaitingInOrder
    <3>2. socket[o][n].kind = "stream" => socket[o][n].frame <= sent'
      BY <1>1, <1>2, <2>1, <3>1
    <3>3. ASSUME NEW m \in n..Len(socket'[o]) PROVE InOrder(socket'[o][n], socket'[o][m])
      <4>1. m \in 1..Len(socket'[o])
        BY <2>1, <3>3
      <4>2. CASE m \in 1..Len(socket[o]) /\ socket'[o][m] = socket[o][m]
        <5>1. m \in n..Len(socket[o])
          BY <1>3, <4>2
        <5> QED
          BY <2>1, <3>1, <4>2, <5>1
      <4>3. CASE socket'[o][m] = p
        BY <2>1, <3>2, <4>3 DEF InOrder
      <4> QED
        BY <1>3, <4>1, <4>2, <4>3
    <3> QED
      BY <2>1, <3>1, <3>2, <3>3
  <2>2. CASE n = Len(socket[o]) + 1 /\ socket'[o][n] = p /\ Joined(o, p.universe)
    <3>1. \A m \in n..Len(socket'[o]) : socket'[o][m] = p
      BY <1>3, <2>2
    <3>2. p.kind = "stream" => p.frame <= sent'
      BY <1>2
    <3> QED
      BY <1>4, <2>2, <3>1, <3>2 DEF InOrder
  <2> QED
    BY <1>3, <2>1, <2>2
<1>6. WaitingInOrder'
  <2>1. \A o \in Output : \A u : Joined(o, u)' <=> Joined(o, u)
    BY DEF Joined
  <2> QED
    BY <1>4, <1>5, <2>1 DEF WaitingInOrder, InOrder
<1>7. ASSUME NEW o \in Output
      PROVE  /\ live[o] <= sent' /\ staged[o] <= sent'
             /\ \A q \in Output : \A n \in 1..Len(socket'[q]) :
                  /\ NotOlder(o, live[o], socket'[q][n])
                  /\ valid[o] => NotOlder(o, staged[o], socket'[q][n])
  <2>1. live[o] <= sent /\ staged[o] <= sent
    BY DEF ShownInOrder
  <2>2. live[o] <= sent' /\ staged[o] <= sent'
    BY <1>1, <2>1
  <2>3. ASSUME NEW q \in Output, NEW n \in 1..Len(socket'[q])
        PROVE  /\ NotOlder(o, live[o], socket'[q][n])
               /\ valid[o] => NotOlder(o, staged[o], socket'[q][n])
    <3>1. CASE n \in 1..Len(socket[q]) /\ socket'[q][n] = socket[q][n]
      BY <3>1 DEF ShownInOrder
    <3>2. CASE socket'[q][n] = p
      BY <2>2, <3>2 DEF NotOlder
    <3> QED
      BY <1>3, <3>1, <3>2
  <2> QED
    BY <2>2, <2>3
<1>8. ShownInOrder'
  BY <1>7 DEF ShownInOrder, NotOlder
<1> QED
  BY <1>6, <1>8

\* The first datagrams of a socket follow what is in the ring.
LEMMA DrainKeepsOrder ==
  ASSUME TypeOK, WaitingInOrder, ShownInOrder, OneSocketEach, Drain
  PROVE  WaitingInOrder' /\ ShownInOrder'
<1> DEFINE q == socket[turn]
<1>1. UNCHANGED <<cfg, live, staged, valid, sent>>
  BY DEF Drain
<1>2. /\ Len(ring) \in Nat /\ turn \in Output /\ PollLimit \in Nat \ {0}
      /\ Len(ring') \in Nat
      /\ \A o \in Output : Len(socket[o]) \in Nat /\ (o # turn => socket'[o] = socket[o])
      /\ \A n \in 1..Len(socket'[turn]) :
           PollLimit + n \in 1..Len(q) /\ socket'[turn][n] = q[PollLimit + n]
      /\ \A n \in 1..Len(ring') :
           \/ n \in 1..Len(ring) /\ ring'[n] = ring[n]
           \/ /\ n - Len(ring) \in 1..PollLimit /\ n - Len(ring) \in 1..Len(q)
              /\ ring'[n] = q[n - Len(ring)]
  BY DrainFacts
<1>3. \A o \in Output : Len(socket'[o]) \in Nat
  BY DrainFacts
<1>4. /\ \A o \in Output : \A n \in 1..Len(socket[o]) : Joined(o, socket[o][n].universe)
      /\ \A n \in 1..Len(socket[turn]) : socket[turn][n] \in Packet
  BY <1>2, ElementOfSeq DEF WaitingInOrder, TypeOK
<1>5. \A n \in 1..Len(ring') : ring'[n].kind = "stream" => ring'[n].frame <= sent
  BY <1>2 DEF WaitingInOrder
<1>6. ASSUME NEW n \in 1..Len(ring'), NEW m \in n..Len(ring')
      PROVE  InOrder(ring'[n], ring'[m])
  <2>1. m \in 1..Len(ring')
    BY <1>2, <1>6
  <2>2. CASE n \in 1..Len(ring) /\ ring'[n] = ring[n]
    <3>1. CASE m \in 1..Len(ring) /\ ring'[m] = ring[m]
      <4>1. m \in n..Len(ring)
        BY <2>1, <2>2, <3>1
      <4> QED
        BY <2>2, <3>1, <4>1 DEF WaitingInOrder
    <3>2. CASE m - Len(ring) \in 1..Len(q) /\ ring'[m] = q[m - Len(ring)]
      BY <1>2, <2>2, <3>2 DEF WaitingInOrder
    <3> QED
      BY <1>2, <2>1, <3>1, <3>2
  <2>3. CASE n - Len(ring) \in 1..Len(q) /\ ring'[n] = q[n - Len(ring)]
    <3>1. m \notin 1..Len(ring)
      BY <1>2, <1>6, <2>3
    <3>2. m - Len(ring) \in 1..Len(q) /\ ring'[m] = q[m - Len(ring)]
      BY <1>2, <2>1, <3>1
    <3>3. m - Len(ring) \in (n - Len(ring))..Len(q)
      BY <1>2, <1>6, <3>2
    <3> QED
      BY <1>2, <2>3, <3>2, <3>3 DEF WaitingInOrder
  <2> QED
    BY <1>2, <2>2, <2>3
<1>7. ASSUME NEW o \in Output, NEW n \in 1..Len(socket'[o])
      PROVE  \E i \in 1..Len(socket[o]) :
               /\ socket'[o][n] = socket[o][i] /\ (o = turn => i = PollLimit + n)
               /\ o # turn => i = n
  BY <1>2, <1>7
<1>8. ASSUME NEW o \in Output, NEW n \in 1..Len(socket'[o])
      PROVE  /\ Joined(o, socket'[o][n].universe)
             /\ socket'[o][n].kind = "stream" => socket'[o][n].frame <= sent
             /\ \A m \in n..Len(socket'[o]) : InOrder(socket'[o][n], socket'[o][m])
             /\ \A m \in 1..Len(ring') : InOrder(ring'[m], socket'[o][n])
  <2>1. PICK i \in 1..Len(socket[o]) :
          /\ socket'[o][n] = socket[o][i] /\ (o = turn => i = PollLimit + n)
          /\ o # turn => i = n
    BY <1>7, <1>8
  <2>2. /\ Joined(o, socket[o][i].universe)
        /\ socket[o][i].kind = "stream" => socket[o][i].frame <= sent
        /\ \A m \in i..Len(socket[o]) : InOrder(socket[o][i], socket[o][m])
        /\ \A m \in 1..Len(ring) : InOrder(ring[m], socket[o][i])
    BY DEF WaitingInOrder
  <2>3. ASSUME NEW m \in n..Len(socket'[o]) PROVE InOrder(socket'[o][n], socket'[o][m])
    <3>1. m \in 1..Len(socket'[o])
      BY <1>3, <1>8, <2>3
    <3>2. PICK j \in 1..Len(socket[o]) :
            /\ socket'[o][m] = socket[o][j] /\ (o = turn => j = PollLimit + m)
            /\ o # turn => j = m
      BY <1>7, <3>1
    <3>3. j \in i..Len(socket[o])
      BY <1>2, <1>3, <2>1, <2>3, <3>2
    <3> QED
      BY <2>1, <2>2, <3>2, <3>3
  <2>4. ASSUME NEW m \in 1..Len(ring') PROVE InOrder(ring'[m], socket'[o][n])
    <3>1. CASE m \in 1..Len(ring) /\ ring'[m] = ring[m]
      BY <2>1, <2>2, <3>1
    <3>2. CASE /\ m - Len(ring) \in 1..PollLimit /\ m - Len(ring) \in 1..Len(q)
               /\ ring'[m] = q[m - Len(ring)]
      <4>1. CASE o = turn
        <5>1. i \in (m - Len(ring))..Len(q)
          BY <1>2, <1>3, <2>1, <3>2, <4>1
        <5> QED
          BY <1>2, <2>1, <3>2, <4>1, <5>1 DEF WaitingInOrder
      <4>2. CASE o # turn
        <5>1. Joined(turn, q[m - Len(ring)].universe) /\ q[m - Len(ring)] \in Packet
          BY <1>2, <1>4, <3>2
        <5>2. q[m - Len(ring)].universe \in Universe
          BY <5>1 DEF Packet
        <5>3. q[m - Len(ring)].universe # socket[o][i].universe
          BY <1>2, <2>2, <4>2, <5>1, <5>2 DEF OneSocketEach
        <5> QED
          BY <2>1, <3>2, <5>3 DEF InOrder
      <4> QED
        BY <4>1, <4>2
    <3> QED
      BY <1>2, <3>1, <3>2
  <2> QED
    BY <2>1, <2>2, <2>3, <2>4
<1>9. WaitingInOrder'
  <2>1. \A o \in Output : \A u : Joined(o, u)' <=> Joined(o, u)
    BY <1>1 DEF Joined
  <2> QED
    BY <1>1, <1>5, <1>6, <1>8, <2>1 DEF WaitingInOrder, InOrder
<1>10. ASSUME NEW o \in Output
       PROVE  /\ live[o] <= sent /\ staged[o] <= sent
              /\ valid[o] => cfg[o].en /\ cfg[o].sync > 0 /\ live[o] <= staged[o]
              /\ \A n \in 1..Len(ring') :
                   /\ NotOlder(o, live[o], ring'[n])
                   /\ valid[o] => NotOlder(o, staged[o], ring'[n])
              /\ \A p \in Output : \A n \in 1..Len(socket'[p]) :
                   /\ NotOlder(o, live[o], socket'[p][n])
                   /\ valid[o] => NotOlder(o, staged[o], socket'[p][n])
  <2>1. \A n \in 1..Len(ring') :
          /\ NotOlder(o, live[o], ring'[n])
          /\ valid[o] => NotOlder(o, staged[o], ring'[n])
    BY <1>2 DEF ShownInOrder
  <2>2. \A p \in Output : \A n \in 1..Len(socket'[p]) :
          /\ NotOlder(o, live[o], socket'[p][n])
          /\ valid[o] => NotOlder(o, staged[o], socket'[p][n])
    BY <1>7 DEF ShownInOrder
  <2> QED
    BY <2>1, <2>2 DEF ShownInOrder
<1>11. ShownInOrder'
  BY <1>1, <1>10 DEF ShownInOrder, NotOlder
<1> QED
  BY <1>9, <1>11

\* A packet leaves the ring, and at the outputs of its universe its frame takes
\* the place of what was shown or staged.
LEMMA PopKeepsWaiting ==
  ASSUME TypeOK, WaitingInOrder, ring # <<>>, ring' = Tail(ring),
         UNCHANGED <<cfg, socket, sent>>
  PROVE  WaitingInOrder'
<1>1. /\ Len(ring) \in Nat /\ Len(ring') \in Nat
      /\ \A n \in 1..Len(ring') : n + 1 \in 1..Len(ring) /\ ring'[n] = ring[n + 1]
  BY PopFacts
<1>2. \A n \in 1..Len(ring') : \A m \in n..Len(ring') :
        m + 1 \in n+1..Len(ring) /\ ring'[m] = ring[m + 1]
  BY <1>1
<1>3. \A n \in 1..Len(ring') : \A m \in n..Len(ring') : InOrder(ring'[n], ring'[m])
  BY <1>1, <1>2 DEF WaitingInOrder
<1> QED
  BY <1>1, <1>3 DEF WaitingInOrder, Joined, InOrder

\* The frame at the head of the ring is no newer than whatever waits behind it.
LEMMA HeadIsOldest ==
  ASSUME TypeOK, WaitingInOrder, ring # <<>>, Head(ring).kind = "stream",
         NEW o \in Output, cfg[o].universe = Head(ring).universe
  PROVE  /\ Head(ring).frame \in Nat /\ Head(ring).frame <= sent
         /\ \A n \in 1..Len(ring) : NotOlder(o, Head(ring).frame, ring[n])
         /\ \A q \in Output : \A n \in 1..Len(socket[q]) :
              NotOlder(o, Head(ring).frame, socket[q][n])
<1>1. ring \in Seq(Packet) /\ Len(ring) \in Nat \ {0} /\ Head(ring) = ring[1]
  BY EmptySeq DEF TypeOK
<1>2. ring[1] \in Packet /\ 1 \in 1..Len(ring)
  BY <1>1, ElementOfSeq
<1>3. ring[1].frame \in Nat
  BY <1>1, <1>2, SacnAssumption DEF Packet, FrameNo
<1> QED
  BY <1>1, <1>2, <1>3 DEF WaitingInOrder, InOrder, NotOlder

\* What an output shows or stages after a dispatch is what it did before, a staged
\* frame that is released, or the head of the ring.
LEMMA DispatchKeepsOrder ==
  ASSUME TypeOK, WaitingInOrder, ShownInOrder, Dispatch
  PROVE  /\ WaitingInOrder' /\ ShownInOrder'
         /\ \A o \in Output : live[o] <= live'[o]
<1>1. ring # <<>> /\ ring' = Tail(ring) /\ UNCHANGED <<cfg, socket, sent>>
  BY DEF Dispatch, StageFrame, RouteFrame, SyncPacket, Popping, Commit
<1>2. WaitingInOrder'
  BY <1>1, PopKeepsWaiting
<1>3. /\ Len(ring) \in Nat \ {0} /\ Head(ring) = ring[1] /\ Head(ring) \in Packet
      /\ \A n \in 1..Len(ring') : n + 1 \in 1..Len(ring) /\ ring'[n] = ring[n + 1]
  BY <1>1, PopFacts
<1>4. 1 \in 1..Len(ring)
  BY <1>3
<1>5. \A o \in Output : live[o] \in Nat /\ staged[o] \in Nat /\ valid[o] \in BOOLEAN
  BY SacnAssumption DEF TypeOK, FrameNo
<1> DEFINE Fits(o, f) ==
             /\ f <= sent
             /\ \A n \in 1..Len(ring') : NotOlder(o, f, ring'[n])
             /\ \A q \in Output : \A n \in 1..Len(socket[q]) : NotOlder(o, f, socket[q][n])
<1>6. \A o \in Output : Fits(o, live[o]) /\ (valid[o] => Fits(o, staged[o]))
  BY <1>3 DEF ShownInOrder
<1>7. ASSUME NEW o \in Output, Head(ring).kind = "stream", cfg[o].universe = Head(ring).universe
      PROVE  /\ Fits(o, Head(ring).frame) /\ live[o] <= Head(ring).frame
             /\ valid[o] => staged[o] <= Head(ring).frame
  <2>1. Fits(o, Head(ring).frame)
    BY <1>1, <1>3, <1>7, HeadIsOldest
  <2>2. NotOlder(o, live[o], ring[1]) /\ (valid[o] => NotOlder(o, staged[o], ring[1]))
    BY <1>4 DEF ShownInOrder
  <2> QED
    BY <1>3, <1>7, <2>1, <2>2 DEF NotOlder
<1>8. ASSUME NEW o \in Output
      PROVE  /\ live[o] <= live'[o] /\ Fits(o, live'[o]) /\ staged'[o] <= sent
             /\ valid'[o] => /\ cfg[o].en /\ cfg[o].sync > 0
                             /\ live'[o] <= staged'[o] /\ Fits(o, staged'[o])
  <2>0. /\ live[o] <= live[o] /\ staged[o] <= sent
        /\ valid[o] => cfg[o].en /\ cfg[o].sync > 0 /\ live[o] <= staged[o]
    BY <1>5 DEF ShownInOrder
  <2>1. CASE StageFrame
    <3>1. Head(ring).kind = "stream" /\ live' = live
      BY <2>1 DEF StageFrame
    <3>2. CASE o \in Holding(Head(ring).universe)
      <4>1. cfg[o].en /\ cfg[o].universe = Head(ring).universe /\ cfg[o].sync > 0
        BY <3>2 DEF Holding, Listening
      <4>2. staged'[o] = Head(ring).frame
        BY <2>1, <3>2 DEF StageFrame
      <4> QED
        BY <1>6, <1>7, <2>0, <3>1, <4>1, <4>2
    <3>3. CASE o \notin Holding(Head(ring).universe)
      <4>1. staged'[o] = staged[o] /\ valid'[o] = valid[o]
        BY <1>5, <2>1, <3>3 DEF StageFrame
      <4> QED
        BY <1>6, <2>0, <3>1, <4>1
    <3> QED
      BY <3>2, <3>3
  <2>2. CASE RouteFrame
    <3>1. /\ Head(ring).kind = "stream" /\ staged' = staged /\ valid' = valid
          /\ Holding(Head(ring).universe) = {}
      BY <2>2 DEF RouteFrame
    <3>2. CASE o \in Listening(Head(ring).universe)
      <4>1. cfg[o].en /\ cfg[o].universe = Head(ring).universe /\ ~(cfg[o].sync > 0)
        BY <3>1, <3>2 DEF Holding, Listening
      <4>2. live'[o] = Head(ring).frame
        BY <2>2, <3>2 DEF RouteFrame
      <4> QED
        BY <1>7, <2>0, <3>1, <4>1, <4>2
    <3>3. CASE o \notin Listening(Head(ring).universe)
      <4>1. live'[o] = live[o]
        BY <2>2, <3>3 DEF RouteFrame
      <4> QED
        BY <1>6, <2>0, <3>1, <4>1
    <3> QED
      BY <3>2, <3>3
  <2>3. CASE SyncPacket
    <3>1. /\ staged' = staged /\ (valid'[o] => valid[o])
          /\ live'[o] = live[o] \/ (valid[o] /\ live'[o] = staged[o])
          /\ valid'[o] => live'[o] = live[o]
      BY <1>5, <2>3 DEF SyncPacket, Commit
    <3> QED
      BY <1>6, <2>0, <3>1
  <2> QED
    BY <2>1, <2>2, <2>3 DEF Dispatch
<1>9. ShownInOrder'
  BY <1>1, <1>8 DEF ShownInOrder, NotOlder
<1> QED
  BY <1>2, <1>8, <1>9

\* What sacn_check_timeouts releases was staged before whatever waits.
LEMMA TimeoutsKeepOrder ==
  ASSUME TypeOK, WaitingInOrder, ShownInOrder, CheckTimeouts
  PROVE  /\ WaitingInOrder' /\ ShownInOrder'
         /\ \A o \in Output : live[o] <= live'[o]
<1>1. UNCHANGED <<cfg, socket, ring, staged, sent>>
  BY DEF CheckTimeouts, Commit
<1>2. \A o \in Output : live[o] \in Nat /\ staged[o] \in Nat /\ valid[o] \in BOOLEAN
  BY SacnAssumption DEF TypeOK, FrameNo
<1>3. ASSUME NEW o \in Output
      PROVE  /\ valid'[o] => valid[o] /\ live'[o] = live[o]
             /\ live'[o] = live[o] \/ (valid[o] /\ live'[o] = staged[o])
  BY <1>2 DEF CheckTimeouts, Commit
<1>4. WaitingInOrder'
  BY <1>1 DEF WaitingInOrder, Joined, InOrder
<1>5. \A o \in Output : live[o] <= live'[o] /\ live'[o] <= sent
  BY <1>2, <1>3 DEF ShownInOrder
<1>6. ShownInOrder'
  BY <1>1, <1>3, <1>5 DEF ShownInOrder, NotOlder
<1> QED
  BY <1>4, <1>5, <1>6

\* Every step keeps the invariant.
LEMMA StepHolds ==
  ASSUME IInv, [Next]_vars
  PROVE  IInv'
<1>1. TypeOK /\ TypeOK'
  BY TypeHolds DEF IInv
<1> SUFFICES ASSUME Plain' PROVE WaitingInOrder' /\ ShownInOrder'
  BY <1>1 DEF IInv
<1>2. CASE SetSync
  BY <1>1, <1>2 DEF SetSync, TypeOK, Plain
<1>3. CASE ~SetSync
  <2>1. UNCHANGED <<cfg, edits>>
    BY <1>3 DEF Next, vars, SendFrame, SendSync, Poll, Drain, CheckTimeouts, Dispatch,
       StageFrame, RouteFrame, SyncPacket, Tick
  <2>2. Plain /\ ~Endless /\ OneSocketEach
    BY <2>1 DEF Plain, OneSocketEach, Joined
  <2>3. WaitingInOrder /\ ShownInOrder
    BY <2>2 DEF IInv
  <2>4. sent \in Nat
    BY <1>1, SacnAssumption DEF TypeOK, FrameNo
  <2>5. ASSUME NEW u \in Universe \ {0}, SendFrame(u) PROVE WaitingInOrder' /\ ShownInOrder'
    <3> DEFINE p == [kind |-> "stream", universe |-> u, frame |-> sent']
    <3>1. sent' = sent + 1 /\ sent' \in FrameNo
      BY <2>2, <2>4, <2>5, SacnAssumption DEF SendFrame, FrameNo
    <3>2. p \in Packet
      BY <3>1 DEF Packet
    <3>3. Deliver(p) /\ UNCHANGED <<cfg, ring, live, staged, valid>>
      BY <2>5 DEF SendFrame
    <3>4. sent' \in Nat /\ sent <= sent' /\ p.frame = sent'
      BY <2>4, <3>1
    <3> HIDE DEF p
    <3> QED
      BY <1>1, <2>2, <2>3, <3>2, <3>3, <3>4, DeliverKeepsOrder
  <2>6. ASSUME NEW u \in Universe \ {0}, SendSync(u) PROVE WaitingInOrder' /\ ShownInOrder'
    <3> DEFINE p == [kind |-> "sync", universe |-> u]
    <3>1. p \in Packet /\ p.kind # "stream"
      BY DEF Packet
    <3>2. Deliver(p) /\ UNCHANGED <<cfg, ring, live, staged, valid, sent>>
      BY <2>6 DEF SendSync
    <3>3. sent' \in Nat /\ sent <= sent'
      BY <2>4, <3>2
    <3> HIDE DEF p
    <3> QED
      BY <1>1, <2>2, <2>3, <3>1, <3>2, <3>3, DeliverKeepsOrder
  <2>7. CASE Poll
    BY <1>1, <2>2, <2>3, <2>7, DrainKeepsOrder, TimeoutsKeepOrder DEF Poll
  <2>8. CASE Dispatch
    BY <1>1, <2>3, <2>8, DispatchKeepsOrder
  <2>9. CASE Tick \/ UNCHANGED vars
    <3>1. UNCHANGED <<cfg, socket, ring, live, staged, valid, sent>>
      BY <2>9 DEF Tick, vars
    <3> QED
      BY <2>3, <3>1 DEF WaitingInOrder, ShownInOrder, NotOlder, InOrder, Joined
  <2> QED
    BY <1>3, <2>5, <2>6, <2>7, <2>8, <2>9 DEF Next
<1> QED
  BY <1>2, <1>3

-----------------------------------------------------------------------------
\* The invariant holds in every reachable state (sacn_poll, sacn_dispatch_packet).
THEOREM InvariantHolds == Spec => []IInv
<1> QED
  BY InitHolds, StepHolds, PTL DEF Spec

\* No output goes back to an older frame of the source, whatever is lost, whenever
\* Sync packets and timeouts come (sacn_check_timeouts, sacn_dispatch_packet).
THEOREM FramesNeverAge == Spec => NeverOlder
<1>1. ASSUME IInv, [Next]_vars, Plain, NEW o \in Output PROVE live[o] <= live'[o]
  <2>1. TypeOK /\ WaitingInOrder /\ ShownInOrder
    BY <1>1 DEF IInv
  <2>2. CASE Dispatch
    BY <2>1, <2>2, DispatchKeepsOrder
  <2>3. CASE CheckTimeouts
    BY <2>1, <2>3, TimeoutsKeepOrder
  <2>4. CASE ~Dispatch /\ ~CheckTimeouts
    <3>1. live' = live
      BY <1>1, <2>4 DEF Next, vars, SendFrame, SendSync, Poll, Drain, Tick, SetSync
    <3>2. live[o] \in Nat
      BY <2>1, SacnAssumption DEF TypeOK, FrameNo
    <3> QED
      BY <3>1, <3>2
  <2> QED
    BY <2>2, <2>3, <2>4
<1>2. IInv /\ [Next]_vars => [Plain => \A o \in Output : live[o] <= live'[o]]_vars
  BY <1>1
<1> QED
  BY <1>2, InvariantHolds, PTL DEF Spec, NeverOlder

\* A staged frame leaves its buffer by a Sync packet of its output's group or when
\* its grace period is over, never before (commitSacnStaged).
THEOREM CommitsAreDue == Spec => NoEarlyCommit
<1> DEFINE Owed(o) == \/ Reached(deadline[o])
                      \/ ring # <<>> /\ Head(ring).kind = "sync"
                                     /\ Head(ring).universe = cfg[o].sync
<1>1. ASSUME TypeOK, [Next]_vars, NEW o \in Output, valid[o], ~valid'[o] PROVE Owed(o)
  <2>1. valid[o] \in BOOLEAN
    BY <1>1 DEF TypeOK
  <2>2. CASE CheckTimeouts
    BY <1>1, <2>2 DEF CheckTimeouts, Commit, Due
  <2>3. CASE SyncPacket
    BY <1>1, <2>3 DEF SyncPacket, Commit, Popping
  <2>4. CASE StageFrame
    BY <1>1, <2>4 DEF StageFrame
  <2>5. CASE ~CheckTimeouts /\ ~SyncPacket /\ ~StageFrame
    BY <1>1, <2>5 DEF Next, vars, SendFrame, SendSync, Poll, Drain, Dispatch, RouteFrame,
       Tick, SetSync
  <2> QED
    BY <2>2, <2>3, <2>4, <2>5
<1>2. TypeOK /\ [Next]_vars => [\A o \in Output : valid[o] /\ ~valid'[o] => Owed(o)]_vars
  BY <1>1
<1>3. IInv => TypeOK
  BY DEF IInv
<1> QED
  BY <1>2, <1>3, InvariantHolds, PTL DEF Spec, NoEarlyCommit


-----------------------------------------------------------------------------
(***************************************************************************)
(* PacketRing: arithmetic of the indices and of the slots they stand for.  *)
(***************************************************************************)
\* The ring has at least one slot and the indices tell full from empty.
LEMMA Sizes ==
  /\ Cap \in Nat /\ Cap > 0 /\ Laps \in Nat
  /\ IndexMod \in Nat /\ Cap < IndexMod /\ IndexMod = Cap * Laps
<1>1. PICK k \in Nat : Laps = k + 2
  <2>1. Laps - 2 \in Nat /\ Laps = (Laps - 2) + 2
    BY RingAssumption
  <2> QED
    BY <2>1
<1>2. Laps * Cap = k * Cap + 2 * Cap /\ k * Cap \in Nat
  BY <1>1, RingAssumption
<1>3. Laps * Cap = Cap * Laps
  BY RingAssumption
<1> QED
  BY <1>2, <1>3, RingAssumption DEF IndexMod

\* Division with remainder by the capacity.
LEMMA Remainder ==
  ASSUME NEW x \in Nat
  PROVE  /\ x = Cap * (x \div Cap) + (x % Cap)
         /\ x \div Cap \in Int
         /\ x % Cap \in 0..Cap-1
BY RingAssumption

\* No positive number below the capacity is a multiple of it.
LEMMA NoSmallMultiple ==
  ASSUME NEW q \in Int, 0 < Cap * q, Cap * q < Cap
  PROVE  FALSE
<1>1. CASE q <= 0
  BY <1>1, Sizes
<1>2. CASE q >= 1
  BY <1>2, Sizes
<1> QED
  BY <1>1, <1>2

\* Indices fewer than Cap steps apart stand for different slots, also when the
\* word wraps between them: IndexMod is a multiple of the capacity.
LEMMA SlotsDiffer ==
  ASSUME NEW x \in Index, NEW n \in 1..Cap-1
  PROVE  Plus(x, n) % Cap # x % Cap
<1> DEFINE y == Plus(x, n)
<1>1. SUFFICES ASSUME y % Cap = x % Cap PROVE FALSE
  OBVIOUS
<1>2. x \in Nat /\ y \in Nat /\ Cap \in Int /\ Laps \in Int /\ n \in Int
  BY Sizes DEF Index, Plus
<1>3. PICK a \in Int : x = Cap * a + (x % Cap)
  BY <1>2, Remainder
<1>4. PICK b \in Int : y = Cap * b + (y % Cap)
  BY <1>2, Remainder
<1>5. x % Cap \in Int
  BY <1>2, Remainder
<1>6. y = x + n \/ y = x + n - Cap * Laps
  BY Sizes DEF Plus
<1>7. /\ Cap * (b - a) = Cap * b - Cap * a
      /\ Cap * ((b - a) + Laps) = Cap * b - Cap * a + Cap * Laps
  BY <1>2
<1>8. y - x = Cap * b - Cap * a
  <2> HIDE DEF y
  <2> QED BY <1>1, <1>2, <1>3, <1>4, <1>5
<1>9. CASE y = x + n
  <2>1. 0 < Cap * (b - a) /\ Cap * (b - a) < Cap
    <3> HIDE DEF y
    <3> QED BY <1>2, <1>7, <1>8, <1>9
  <2> QED
    BY <2>1, NoSmallMultiple
<1>10. CASE y = x + n - Cap * Laps
  <2>1. 0 < Cap * ((b - a) + Laps) /\ Cap * ((b - a) + Laps) < Cap
    <3>1. Cap * Laps \in Int
      BY <1>2
    <3> HIDE DEF y
    <3> QED BY <1>2, <1>7, <1>8, <1>10, <3>1
  <2>2. (b - a) + Laps \in Int
    BY <1>2
  <2> QED
    BY <2>1, <2>2, NoSmallMultiple
<1> QED
  BY <1>6, <1>9, <1>10

\* An index stands for a slot of the ring.
LEMMA SlotOfIndex ==
  ASSUME NEW x \in Index
  PROVE  x % Cap \in 0..Cap-1
BY Sizes, Remainder DEF Index

\* Adding and subtracting modulo the word.
LEMMA IndexArithmetic ==
  ASSUME NEW x \in Index, NEW y \in Index
  PROVE  /\ After(x) \in Index
         /\ Minus(x, y) \in Index
         /\ Minus(x, y) = 0 <=> x = y
         /\ x = Plus(y, Minus(x, y))
         /\ Minus(x, y) + 1 < IndexMod => Minus(After(x), y) = Minus(x, y) + 1
         /\ x # y => Minus(x, After(y)) = Minus(x, y) - 1
         /\ \A n \in 0..Cap : Plus(x, n) \in Index
         /\ \A n \in 0..Cap-1 : Plus(After(x), n) = Plus(x, n + 1)
         /\ Plus(x, 0) = x
BY Sizes DEF Index, After, Plus, Minus

\* Steps of the same length apart: the producer's index seen from position n.
LEMMA FromPosition ==
  ASSUME NEW x \in Index, NEW f \in 1..Cap-1, NEW n \in 1..f
  PROVE  /\ Plus(x, n - 1) \in Index
         /\ f - n + 1 \in 1..Cap-1
         /\ Plus(Plus(x, n - 1), f - n + 1) = Plus(x, f)
BY Sizes DEF Index, Plus

-----------------------------------------------------------------------------
(***************************************************************************)
(* The inductive invariant.                                                *)
(***************************************************************************)
\* How many packets wait, and that none waits iff the indices are equal.
LEMMA FillType ==
  ASSUME RingTypeOK
  PROVE  /\ prod \in Index /\ cons \in Index
         /\ Fill \in Nat
         /\ Fill = 0 <=> prod = cons
<1>1. prod \in Index /\ cons \in Index
  BY DEF RingTypeOK
<1>2. Minus(prod, cons) \in Index /\ (Minus(prod, cons) = 0 <=> prod = cons)
  BY <1>1, IndexArithmetic
<1>3. Index \subseteq Nat
  BY Sizes DEF Index
<1> QED
  BY <1>1, <1>2, <1>3 DEF Fill

\* While fewer than Cap packets wait, the producer's slot is none of theirs.
LEMMA ProducerSlotIsFree ==
  ASSUME RingTypeOK, Fill < Cap, NEW n \in 1..Fill
  PROVE  /\ Plus(cons, n - 1) % Cap \in 0..Cap-1
         /\ prod % Cap # Plus(cons, n - 1) % Cap
<1>1. Fill \in Nat /\ prod = Plus(cons, Fill)
  BY IndexArithmetic, Sizes DEF RingTypeOK, Fill, Index
<1>2. Fill \in 1..Cap-1
  BY <1>1, Sizes
<1> DEFINE x == Plus(cons, n - 1)
<1>3. x \in Index /\ Fill - n + 1 \in 1..Cap-1 /\ Plus(x, Fill - n + 1) = prod
  BY <1>1, <1>2, FromPosition DEF RingTypeOK
<1> HIDE DEF x
<1>4. x % Cap \in 0..Cap-1 /\ prod % Cap # x % Cap
  BY <1>3, SlotOfIndex, SlotsDiffer
<1> QED
  BY <1>4 DEF x

\* The ring is empty at boot.
LEMMA InitInv == RingInit => RingIInv /\ AnswerKept
<1> SUFFICES ASSUME RingInit PROVE RingIInv /\ AnswerKept
  OBVIOUS
<1>1. 0 \in Index /\ Blank \in RingPacket
  BY Sizes, RingAssumption DEF Index, RingPacket, Blank
<1>2. RingTypeOK
  BY <1>1 DEF RingInit, RingTypeOK
<1>3. Fill = 0
  BY <1>2, FillType DEF RingInit
<1> QED
  BY <1>2, <1>3, Sizes DEF RingInit, RingIInv, SidesApart, CopyInMatches,
     CopyOutMatches, ReturnsPending, AnswerKept

\* Copying a cell into the producer's slot disturbs no packet that waits.
LEMMA CopyInInv ==
  ASSUME RingIInv, NEW c \in Cell, CopyIn(c)
  PROVE  /\ RingIInv'
         /\ \A n \in 1..Fill : WaitingAt(n)' = WaitingAt(n)
<1>1. RingTypeOK /\ ppc = "copy" /\ Fill < Cap
  BY DEF RingIInv, SidesApart, CopyIn
<1>2. prod % Cap \in 0..Cap-1 /\ cons % Cap \in 0..Cap-1
  BY <1>1, SlotOfIndex DEF RingTypeOK
<1>3. /\ slots' = [slots EXCEPT ![prod % Cap] = [@ EXCEPT ![c] = pkt[c]]]
      /\ pleft' = pleft \ {c}
      /\ UNCHANGED <<prod, ppc, pkt, pret, cons, cpc, got, cleft, cret, told>>
  BY DEF CopyIn, cvars
<1>4. RingTypeOK'
  <2>1. [slots[prod % Cap] EXCEPT ![c] = pkt[c]] \in RingPacket
    BY <1>1, <1>2 DEF RingTypeOK, RingPacket
  <2> QED
    BY <1>1, <1>2, <1>3, <2>1 DEF RingTypeOK
<1>5. SidesApart' /\ ReturnsPending'
  BY <1>3 DEF RingIInv, SidesApart, ReturnsPending, Fill
<1>6. CopyInMatches'
  BY <1>1, <1>2, <1>3 DEF RingIInv, RingTypeOK, RingPacket, CopyInMatches
<1>7. \A n \in 1..Fill : WaitingAt(n)' = WaitingAt(n)
  BY <1>1, <1>3, ProducerSlotIsFree DEF WaitingAt, RingTypeOK
<1>8. CopyOutMatches'
  <2>1. ASSUME cpc = "copy" PROVE slots'[cons % Cap] = slots[cons % Cap]
    <3>1. 1 \in 1..Fill
      BY <1>1, <2>1, IndexArithmetic DEF RingIInv, SidesApart, Fill, RingTypeOK, Index
    <3>2. cons \in Index /\ 1 - 1 = 0
      BY <1>1, FillType
    <3>3. Plus(cons, 1 - 1) = cons
      BY <3>2, IndexArithmetic
    <3> QED
      BY <1>3, <1>7, <3>1, <3>3 DEF WaitingAt
  <2> QED
    BY <1>3, <2>1 DEF RingIInv, CopyOutMatches
<1> QED
  BY <1>4, <1>5, <1>6, <1>7, <1>8 DEF RingIInv

\* Publication adds one to the packets that wait.
LEMMA PublishFills ==
  ASSUME RingIInv, Publish
  PROVE  Fill' = Fill + 1 /\ Fill < Cap /\ prod' \in Index /\ prod' # cons'
<1>1. RingTypeOK /\ Fill \in Nat /\ cons \in Index /\ prod \in Index
  BY FillType DEF RingIInv
<1>2. Fill < Cap /\ prod' = After(prod) /\ cons' = cons
  BY DEF Publish, cvars, RingIInv, SidesApart
<1>3. Fill + 1 < IndexMod
  BY <1>1, <1>2, Sizes
<1>4. prod' \in Index /\ Minus(prod', cons) = Fill + 1
  BY <1>1, <1>2, <1>3, IndexArithmetic DEF Fill
<1>5. Minus(prod', cons) = 0 <=> prod' = cons
  BY <1>1, <1>4, IndexArithmetic
<1> QED
  BY <1>1, <1>2, <1>4, <1>5 DEF Fill

\* Releasing a slot takes one from them.
LEMMA ReleaseDrains ==
  ASSUME RingIInv, Release
  PROVE  Fill' = Fill - 1 /\ Fill > 0 /\ cons' \in Index
<1>1. RingTypeOK /\ Fill \in Nat /\ cons \in Index /\ prod \in Index
  BY FillType DEF RingIInv
<1>2. Fill > 0 /\ cons' = After(cons) /\ prod' = prod
  BY DEF Release, pvars, RingIInv, SidesApart
<1>3. prod # cons
  BY <1>1, <1>2, FillType
<1>4. cons' \in Index /\ Minus(prod, cons') = Fill - 1
  BY <1>1, <1>2, <1>3, IndexArithmetic DEF Fill
<1> QED
  BY <1>2, <1>4 DEF Fill

\* A push that finds room, and its publication.
LEMMA ProducerInv ==
  ASSUME RingIInv, (\E p \in RingPacket : Push(p)) \/ PushFull \/ Publish
  PROVE  RingIInv'
<1>1. RingTypeOK /\ Fill \in Nat /\ cons \in Index /\ prod \in Index
  BY FillType DEF RingIInv
<1>2. ASSUME NEW p \in RingPacket, Push(p) PROVE RingIInv'
  BY <1>1, <1>2 DEF Push, Room, cvars, RingIInv, RingTypeOK, SidesApart, CopyInMatches,
     CopyOutMatches, ReturnsPending, Fill
<1>3. CASE PushFull
  BY <1>3 DEF PushFull, cvars, RingIInv, RingTypeOK, SidesApart, CopyInMatches,
     CopyOutMatches, ReturnsPending, Fill
<1>4. CASE Publish
  <2>1. Fill' = Fill + 1 /\ Fill < Cap /\ prod' \in Index
    BY <1>4, PublishFills
  <2>2. SidesApart'
    BY <1>1, <1>4, <2>1, Sizes DEF Publish, cvars, RingIInv, SidesApart
  <2> QED
    BY <1>4, <2>1, <2>2 DEF Publish, cvars, RingIInv, RingTypeOK, CopyInMatches,
       CopyOutMatches, ReturnsPending
<1> QED
  BY <1>2, <1>3, <1>4

\* The steps of the consumer.
LEMMA ConsumerInv ==
  ASSUME RingIInv, Taking \/ PopEmpty \/ Ask
  PROVE  RingIInv'
<1>1. RingTypeOK /\ Fill \in Nat /\ cons \in Index /\ prod \in Index
  BY FillType DEF RingIInv
<1>2. CASE Pop
  <2>1. Fill > 0
    BY <1>1, <1>2, FillType DEF Pop, Something
  <2> QED
    BY <1>1, <1>2, <2>1 DEF Pop, pvars, RingIInv, RingTypeOK, SidesApart, CopyInMatches,
       CopyOutMatches, ReturnsPending, Fill
<1>3. CASE PopEmpty \/ Ask
  BY <1>3 DEF PopEmpty, Ask, Something, pvars, RingIInv, RingTypeOK, SidesApart,
     CopyInMatches, CopyOutMatches, ReturnsPending, Fill
<1>4. ASSUME NEW c \in Cell, CopyOut(c) PROVE RingIInv'
  <2>1. cons % Cap \in 0..Cap-1
    BY <1>1, SlotOfIndex
  <2>2. RingTypeOK'
    BY <1>1, <1>4, <2>1 DEF CopyOut, pvars, RingTypeOK, RingPacket
  <2>3. CopyOutMatches'
    BY <1>1, <1>4, <2>1 DEF CopyOut, pvars, RingIInv, RingTypeOK, RingPacket, CopyOutMatches
  <2> QED
    BY <1>4, <2>2, <2>3 DEF CopyOut, pvars, RingIInv, SidesApart, CopyInMatches,
       ReturnsPending, Fill
<1>5. CASE Release
  <2>1. Fill' = Fill - 1 /\ Fill > 0 /\ cons' \in Index
    BY <1>5, ReleaseDrains
  <2>2. SidesApart'
    BY <1>1, <1>5, <2>1, Sizes DEF Release, pvars, RingIInv, SidesApart
  <2> QED
    BY <1>5, <2>1, <2>2 DEF Release, pvars, RingIInv, RingTypeOK, CopyInMatches,
       CopyOutMatches, ReturnsPending
<1> QED
  BY <1>2, <1>3, <1>4, <1>5 DEF Taking

\* Every step keeps the invariant.
LEMMA StepInv == RingIInv /\ [RingNext]_ringVars => RingIInv'
<1> SUFFICES ASSUME RingIInv, [RingNext]_ringVars PROVE RingIInv'
  OBVIOUS
<1>1. CASE UNCHANGED ringVars
  BY <1>1 DEF ringVars, RingIInv, RingTypeOK, SidesApart, CopyInMatches, CopyOutMatches,
     ReturnsPending, Fill
<1> QED
  BY <1>1, CopyInInv, ProducerInv, ConsumerInv DEF RingNext, Producer

(***************************************************************************)
(* The two sides never meet in a slot, and the copies in progress agree    *)
(* with the slots, in every reachable state (the full and empty tests of   *)
(* the two queue files).                                                   *)
(***************************************************************************)
THEOREM RingInvariantHolds == RingSpec => []RingIInv
BY InitInv, StepInv, PTL DEF RingSpec

\* Only the consumer can make the ring empty again.
LEMMA AnswerStep == RingIInv /\ AnswerKept /\ [RingNext]_ringVars => AnswerKept'
<1> SUFFICES ASSUME RingIInv, AnswerKept, [RingNext]_ringVars PROVE AnswerKept'
  OBVIOUS
<1>1. CASE Publish
  BY <1>1, PublishFills DEF AnswerKept, Something
<1>2. CASE Release
  BY <1>2 DEF Release, RingIInv, ReturnsPending, AnswerKept
<1>3. ASSUME UNCHANGED <<prod, cons>>, told' => told \/ Something
      PROVE  AnswerKept'
  BY <1>3 DEF AnswerKept, Something
<1>4. \/ Publish
      \/ Release
      \/ UNCHANGED <<prod, cons>> /\ (told' => (told \/ Something))
  BY DEF RingNext, Producer, Taking, Push, PushFull, CopyIn, Pop, PopEmpty,
     CopyOut, Ask, ringVars, pvars, cvars
<1> QED
  BY <1>1, <1>2, <1>3, <1>4

(***************************************************************************)
(* A consumer that was told "not empty" can rely on it until it pops,      *)
(* whatever the producer does meanwhile (artPktQueueEmpty).                *)
(***************************************************************************)
THEOREM AnswerIsKept == RingSpec => []AnswerKept
BY RingInvariantHolds, InitInv, AnswerStep, PTL DEF RingSpec

-----------------------------------------------------------------------------
(***************************************************************************)
(* The refinement of the bounded queue.                                    *)
(***************************************************************************)
\* The packets that wait form a sequence of packets.
LEMMA WaitingType ==
  ASSUME RingTypeOK, Fill <= Cap
  PROVE  /\ Waiting \in Seq(RingPacket)
         /\ Len(Waiting) = Fill
         /\ \A n \in 1..Fill : Waiting[n] = WaitingAt(n)
<1>1. Fill \in Nat /\ cons \in Index
  BY FillType
<1>2. ASSUME NEW n \in 1..Fill PROVE WaitingAt(n) \in RingPacket
  <2>1. n - 1 \in 0..Cap
    BY <1>1, Sizes
  <2>2. Plus(cons, n - 1) \in Index
    BY <1>1, <2>1, IndexArithmetic
  <2>3. Plus(cons, n - 1) % Cap \in 0..Cap-1
    BY <2>2, SlotOfIndex
  <2> QED
    BY <2>3 DEF WaitingAt, RingTypeOK
<1> QED
  BY <1>1, <1>2 DEF Waiting

\* Copying into the producer's slot leaves the queue as it is.
LEMMA CopyInSilent ==
  ASSUME RingIInv, NEW c \in Cell, CopyIn(c)
  PROVE  UNCHANGED Queue!qvars
<1>1. \A n \in 1..Fill : WaitingAt(n)' = WaitingAt(n)
  BY CopyInInv
<1>2. Fill' = Fill
  BY DEF CopyIn, cvars, Fill
<1>3. Waiting' = Waiting
  BY <1>1, <1>2 DEF Waiting
<1> QED
  BY <1>3 DEF CopyIn, cvars, Queue!qvars

\* Publication appends the packet of the call.
LEMMA PublishAppends ==
  ASSUME RingIInv, Publish
  PROVE  Waiting' = Append(Waiting, pkt)
<1>1. RingTypeOK /\ RingTypeOK' /\ Fill \in Nat /\ Fill' = Fill + 1 /\ Fill < Cap
  BY ProducerInv, PublishFills, FillType DEF RingIInv
<1>2. UNCHANGED <<slots, cons>>
  BY DEF Publish, cvars
<1>3. slots[prod % Cap] = pkt
  <2>1. prod % Cap \in 0..Cap-1
    BY <1>1, FillType, SlotOfIndex
  <2>2. \A c \in Cell : slots[prod % Cap][c] = pkt[c]
    BY DEF Publish, RingIInv, CopyInMatches
  <2> QED
    BY <1>1, <2>1, <2>2 DEF RingTypeOK, RingPacket
<1>4. WaitingAt(Fill + 1) = pkt
  <2>1. prod = Plus(cons, Fill)
    BY <1>1, FillType, IndexArithmetic DEF Fill
  <2>2. (Fill + 1) - 1 = Fill
    BY <1>1
  <2> QED
    BY <1>3, <2>1, <2>2 DEF WaitingAt
<1>5. \A n \in 1..Fill+1 : WaitingAt(n)' = WaitingAt(n)
  BY <1>2 DEF WaitingAt
<1>6. /\ Waiting \in Seq(RingPacket) /\ Len(Waiting) = Fill
      /\ \A n \in 1..Fill : Waiting[n] = WaitingAt(n)
  BY <1>1, Sizes, WaitingType
<1>7. Waiting' = [n \in 1..Fill+1 |-> WaitingAt(n)]
  BY <1>1, <1>5 DEF Waiting
<1>8. Append(Waiting, pkt) = [n \in 1..Fill+1 |-> WaitingAt(n)]
  <2> DEFINE s == Append(Waiting, pkt)
             t == [n \in 1..Fill+1 |-> WaitingAt(n)]
  <2>1. pkt \in RingPacket
    BY <1>1 DEF RingTypeOK
  <2>2. /\ s \in Seq(RingPacket) /\ Len(s) = Fill + 1
        /\ \A n \in 1..Fill : s[n] = Waiting[n]
        /\ s[Fill + 1] = pkt
    BY <1>1, <1>6, <2>1, AppendProperties
  <2>3. \A n \in 1..Fill+1 : WaitingAt(n) \in RingPacket /\ s[n] = WaitingAt(n)
    <3> HIDE DEF s
    <3>1. ASSUME NEW n \in 1..Fill PROVE WaitingAt(n) \in RingPacket
      BY <1>6, <3>1, ElementOfSeq
    <3> QED BY <1>1, <1>4, <1>6, <2>1, <2>2, <3>1
  <2>4. t \in Seq(RingPacket) /\ Len(t) = Fill + 1
    <3> HIDE DEF s
    <3> QED BY <1>1, <2>3
  <2>5. \A n \in 1..Len(s) : s[n] = t[n]
    <3> HIDE DEF s
    <3> QED BY <1>1, <2>2, <2>3
  <2> HIDE DEF s, t
  <2>6. s = t
    BY <2>2, <2>4, <2>5, SeqEqual
  <2> QED
    BY <2>6 DEF s, t
<1> QED
  BY <1>7, <1>8

\* Releasing the consumer's slot drops the head, which was copied out.
LEMMA ReleaseTakesHead ==
  ASSUME RingIInv, Release
  PROVE  /\ Waiting # <<>>
         /\ got = Head(Waiting)
         /\ Waiting' = Tail(Waiting)
<1>1. RingTypeOK /\ RingTypeOK' /\ Fill \in Nat /\ Fill' = Fill - 1 /\ Fill > 0 /\ Fill <= Cap
  BY ConsumerInv, ReleaseDrains, FillType DEF RingIInv, SidesApart, Taking
<1>2. cons \in Index /\ slots' = slots /\ cons' = After(cons)
  BY <1>1, FillType DEF Release
<1>3. /\ Waiting \in Seq(RingPacket) /\ Len(Waiting) = Fill
      /\ \A n \in 1..Fill : Waiting[n] = WaitingAt(n)
  BY <1>1, WaitingType
<1>4. got = WaitingAt(1)
  <2>1. Plus(cons, 1 - 1) = cons
    BY <1>2, IndexArithmetic
  <2>2. cons % Cap \in 0..Cap-1
    BY <1>2, SlotOfIndex
  <2>3. \A c \in Cell : got[c] = slots[cons % Cap][c]
    BY DEF Release, RingIInv, CopyOutMatches
  <2>4. got = slots[cons % Cap]
    BY <1>1, <2>2, <2>3 DEF RingTypeOK, RingPacket
  <2> QED
    BY <2>1, <2>4 DEF WaitingAt
<1>5. \A n \in 1..Fill-1 : WaitingAt(n)' = WaitingAt(n + 1)
  <2>1. ASSUME NEW n \in 1..Fill-1 PROVE WaitingAt(n)' = WaitingAt(n + 1)
    <3>1. n - 1 \in 0..Cap-1 /\ (n - 1) + 1 = (n + 1) - 1
      BY <1>1, Sizes
    <3>2. Plus(After(cons), n - 1) = Plus(cons, (n + 1) - 1)
      BY <1>2, <3>1, IndexArithmetic
    <3> QED
      BY <1>2, <3>2 DEF WaitingAt
  <2> QED
    BY <2>1
<1>6. Waiting' = [n \in 1..Fill-1 |-> WaitingAt(n + 1)]
  BY <1>1, <1>5 DEF Waiting
<1>7. Tail(Waiting) = [n \in 1..Fill-1 |-> WaitingAt(n + 1)]
  <2> DEFINE s == Tail(Waiting)
             t == [n \in 1..Fill-1 |-> WaitingAt(n + 1)]
  <2>1. /\ s \in Seq(RingPacket) /\ Len(s) = Fill - 1
        /\ \A n \in 1..Len(s) : s[n] = Waiting[n + 1]
    BY <1>1, <1>3, HeadTailProperties
  <2>2. \A n \in 1..Fill-1 : s[n] = WaitingAt(n + 1)
    <3> HIDE DEF s
    <3> QED BY <1>1, <1>3, <2>1
  <2>3. t \in Seq(RingPacket) /\ Len(t) = Fill - 1
    <3>1. \A n \in 1..Fill-1 : WaitingAt(n + 1) \in RingPacket
      <4> HIDE DEF s
      <4>1. ASSUME NEW n \in 1..Fill PROVE WaitingAt(n) \in RingPacket
        BY <1>3, <4>1, ElementOfSeq
      <4> QED BY <1>1, <4>1
    <3> HIDE DEF s
    <3> QED BY <1>1, <3>1
  <2>4. \A n \in 1..Len(s) : s[n] = t[n]
    <3> HIDE DEF s
    <3> QED BY <1>1, <2>1, <2>2
  <2> HIDE DEF s, t
  <2>5. s = t
    BY <2>1, <2>3, <2>4, SeqEqual
  <2> QED
    BY <2>5 DEF s, t
<1> QED
  BY <1>1, <1>3, <1>4, <1>6, <1>7

\* A step of the producer is a step of the queue's producer or a stutter.
LEMMA ProducerRefines ==
  ASSUME RingIInv, Producer
  PROVE  [Queue!Next]_(Queue!qvars)
<1>1. ASSUME NEW p \in RingPacket, Push(p) PROVE Queue!CallPush
  <2>1. Waiting' = Waiting
    BY <1>1 DEF Push, cvars, Waiting, WaitingAt, Fill
  <2> QED
    BY <1>1, <2>1 DEF Push, cvars, Queue!CallPush
<1>2. CASE PushFull
  <2>1. Waiting' = Waiting
    BY <1>2 DEF PushFull, cvars, Waiting, WaitingAt, Fill
  <2>2. Len(Waiting) = Cap
    <3>1. Fill = Cap
      BY <1>2, FillType, Sizes DEF PushFull, Room, RingIInv, SidesApart, Fill
    <3> QED
      BY <3>1, WaitingType, Sizes DEF RingIInv
  <2>3. Queue!Refuse
    BY <1>2, <2>1, <2>2 DEF PushFull, cvars, Queue!Refuse
  <2> QED
    BY <2>3 DEF Queue!Next
<1>3. CASE Publish
  <2>1. Waiting' = Append(Waiting, pkt)
    BY <1>3, PublishAppends
  <2>2. Len(Waiting) < Cap
    BY <1>3, PublishFills, WaitingType, FillType, Sizes DEF RingIInv
  <2>3. pret = "none"
    BY <1>3 DEF Publish, RingIInv, ReturnsPending
  <2>4. Queue!Push
    BY <1>3, <2>1, <2>2, <2>3 DEF Publish, cvars, Queue!Push
  <2> QED
    BY <2>4 DEF Queue!Next
<1> QED
  BY <1>1, <1>2, <1>3, CopyInSilent DEF Producer, Queue!Next

\* A step of the consumer is a step of the queue's consumer or a stutter.
LEMMA ConsumerRefines ==
  ASSUME RingIInv, Taking \/ PopEmpty \/ Ask
  PROVE  [Queue!Next]_(Queue!qvars)
<1>1. CASE Release
  <2>1. Waiting # <<>> /\ got = Head(Waiting) /\ Waiting' = Tail(Waiting)
    BY <1>1, ReleaseTakesHead
  <2>2. Queue!Pop
    BY <1>1, <2>1 DEF Release, pvars, Queue!Pop
  <2> QED
    BY <2>2 DEF Queue!Next
<1>2. CASE ~Release
  <2>1. Waiting' = Waiting /\ pkt' = pkt /\ pret' = pret
    BY <1>2 DEF Taking, Pop, PopEmpty, CopyOut, Ask, pvars, Waiting, WaitingAt,
       Fill
  <2>2. CASE Pop
    <3>1. Queue!CallPop
      BY <2>1, <2>2 DEF Pop, Queue!CallPop
    <3> QED
      BY <3>1 DEF Queue!Next
  <2>3. CASE PopEmpty
    <3>1. Fill = 0
      BY <2>3, FillType DEF PopEmpty, Something, RingIInv
    <3>2. Waiting = <<>>
      BY <3>1, WaitingType, Sizes DEF RingIInv
    <3>3. Queue!FindEmpty
      BY <2>1, <2>3, <3>2 DEF PopEmpty, Queue!FindEmpty
    <3> QED
      BY <3>3 DEF Queue!Next
  <2>4. ASSUME NEW c \in Cell, CopyOut(c) PROVE UNCHANGED Queue!qvars
    <3>1. cret = "none" /\ cret' = cret
      BY <2>4 DEF CopyOut, RingIInv, ReturnsPending
    <3> QED
      BY <2>1, <3>1 DEF Queue!qvars
  <2>5. CASE Ask
    BY <2>1, <2>5 DEF Ask, Queue!qvars
  <2> QED
    BY <1>2, <2>2, <2>3, <2>4, <2>5 DEF Taking
<1> QED
  BY <1>1, <1>2

(***************************************************************************)
(* The ring implements a bounded first-in first-out queue: a push takes    *)
(* effect when the index is published, a pop when the slot is released, a  *)
(* refusal and an "empty" when the other side's index is read.             *)
(***************************************************************************)
THEOREM ImplementsQueue == RingSpec => RefinesQueue
<1>1. RingInit => Queue!Init
  <2> SUFFICES ASSUME RingInit PROVE Queue!Init
    OBVIOUS
  <2>1. RingIInv /\ Fill = 0
    BY InitInv, FillType DEF RingInit, RingIInv
  <2>2. Waiting = <<>>
    BY <2>1, WaitingType, Sizes DEF RingIInv
  <2> QED
    BY <2>1, <2>2 DEF RingInit, RingIInv, RingTypeOK, Queue!Init
<1>2. RingIInv /\ [RingNext]_ringVars => [Queue!Next]_(Queue!qvars)
  <2> SUFFICES ASSUME RingIInv, [RingNext]_ringVars PROVE [Queue!Next]_(Queue!qvars)
    OBVIOUS
  <2>1. CASE UNCHANGED ringVars
    BY <2>1 DEF ringVars, Queue!qvars, Waiting, WaitingAt, Fill
  <2> QED
    BY <2>1, ProducerRefines, ConsumerRefines DEF RingNext
<1> QED
  BY <1>1, <1>2, RingInvariantHolds, PTL DEF RingSpec, RefinesQueue, Queue!Spec

=============================================================================
