------------------------------ MODULE SacnSync ------------------------------
(***************************************************************************)
(* sACN reception with Stream-Sync (sacn.c, commitSacnStaged in            *)
(* dmx_buffer.c).  Datagrams wait in the multicast socket of an output;    *)
(* sacn_poll moves them to the packet ring and commits staged frames whose *)
(* grace period is over; sacn_dispatch_packet stages a frame, routes it,   *)
(* or commits what a Sync packet releases.                                 *)
(*                                                                         *)
(* All of it runs in one task.  The network and live configuration         *)
(* interleave with its calls, and with the sockets sacn_poll drains.       *)
(* One source sends numbered frames: routing a frame of a single source    *)
(* shows it on every output of its universe (DmxRouter).                   *)
(***************************************************************************)
EXTENDS Integers, Sequences

CONSTANTS
  Outputs,      \* Number of outputs.
  Universe,     \* Universes, sACN numbering; 0 stands for "none".
  Configs,      \* Initial configurations.
  SyncValues,   \* Values the "set sacnsync" command gives to output A.
  SocketCap,    \* Bound: datagrams a socket holds; more are lost.
  PollLimit,    \* Datagrams sacn_poll takes from a socket (4 in the code).
  RingCap,      \* Capacity of the packet ring (16 in the code).
  ClockMod,     \* The clock counts modulo ClockMod (2^32 ms in the code).
  Grace,        \* Ticks a staged frame waits for a Sync (500 ms in the code).
  FrameMod,     \* Bound: frame numbers are below FrameMod.
  Endless,      \* Frame numbers start again, so that the source never stops.
  MaxEdits      \* Bound: live configuration changes.

Output == 0..Outputs-1
FrameNo == 0..FrameMod-1

\* en, portAddress + 1, the sacn and the sacnsync fields of DmxOutput.
OutputConfig ==
  [en : BOOLEAN, universe : Universe, group : Universe, sync : Universe]

Packet ==
  [kind : {"stream"}, universe : Universe, frame : FrameNo]
    \cup [kind : {"sync"}, universe : Universe]

ASSUME SacnAssumption ==
  /\ Outputs \in Nat \ {0} /\ 0 \in Universe
  /\ Configs \subseteq [Output -> OutputConfig]
  /\ SyncValues \subseteq Universe
  /\ SocketCap \in Nat \ {0} /\ PollLimit \in Nat \ {0} /\ RingCap \in Nat \ {0}
  /\ ClockMod \in Nat /\ Grace \in Nat \ {0} /\ 2 * (Grace + 1) < ClockMod
  /\ FrameMod \in Nat \ {0} /\ Endless \in BOOLEAN
  /\ MaxEdits \in Nat

VARIABLES
  cfg,       \* cfg[o]: the live configuration of output o.
  socket,    \* socket[o]: datagrams waiting in o's multicast socket.
  ring,      \* The packet ring between sacn_poll and the dispatcher.
  live,      \* live[o]: number of the frame in o's live buffer.
  staged,    \* staged[o]: number of the frame in o's staging buffer.
  valid,     \* valid[o]: sacnStagedValid.
  deadline,  \* deadline[o]: sacnSyncDeadlineMs; 0 means none.
  ms,        \* The millisecond clock, a word that wraps.
  turn,      \* The socket sacn_poll drains next; after the last of them,
             \* Outputs for sacn_check_timeouts and Outputs + 1 for done.
  sent,      \* The number of the last frame sent.
  edits      \* Configuration changes so far (bound).

vars == <<cfg, socket, ring, live, staged, valid, deadline, ms, turn,
          sent, edits>>

Init ==
  /\ cfg \in Configs
  /\ socket = [o \in Output |-> <<>>] /\ ring = <<>>
  /\ live = [o \in Output |-> 0] /\ staged = [o \in Output |-> 0]
  /\ valid = [o \in Output |-> FALSE] /\ deadline = [o \in Output |-> 0]
  /\ ms = 0 /\ turn = 0
  /\ sent = 0 /\ edits = 0

-----------------------------------------------------------------------------
(***************************************************************************)
(* The network delivers a datagram to every socket that joined its group;  *)
(* a full socket loses it.  sacn_init opened a socket for every output     *)
(* enabled at boot whose sacn universe is set; of the configuration only   *)
(* sacnsync changes here.                                                  *)
(***************************************************************************)
Joined(o, u) == cfg[o].en /\ u # 0 /\ cfg[o].group = u

Deliver(p) ==
  socket' = [o \in Output |->
               IF Joined(o, p.universe) /\ Len(socket[o]) < SocketCap
                 THEN Append(socket[o], p) ELSE socket[o]]

\* The source sends its next frame.
SendFrame(u) ==
  /\ Endless \/ sent + 1 < FrameMod
  /\ sent' = (sent + 1) % FrameMod
  /\ Deliver([kind |-> "stream", universe |-> u, frame |-> sent'])
  /\ UNCHANGED <<cfg, ring, live, staged, valid, deadline, ms, turn, edits>>

SendSync(u) ==
  /\ Deliver([kind |-> "sync", universe |-> u])
  /\ socket' # socket
  /\ UNCHANGED <<cfg, ring, live, staged, valid, deadline, ms, turn,
                 sent, edits>>

-----------------------------------------------------------------------------
(***************************************************************************)
(* sacn_poll drains the sockets in output order, drops what the ring       *)
(* cannot hold, then commits the staged frames whose grace period is over. *)
(* A datagram that comes while its socket is drained counts as a later one.*)
(***************************************************************************)
AtMost(n, q) == SubSeq(q, 1, IF Len(q) < n THEN Len(q) ELSE n)
Beyond(n, q) == SubSeq(q, n + 1, Len(q))

\* Mutant: a full ring takes one packet more.
DrainOverfills ==
  /\ turn \in Output
  /\ ring' = AtMost(RingCap + 1, ring \o AtMost(PollLimit, socket[turn]))
  /\ socket' = [socket EXCEPT ![turn] = Beyond(PollLimit, @)]
  /\ turn' = turn + 1
  /\ UNCHANGED <<cfg, live, staged, valid, deadline, ms, sent, edits>>

\* Mutant: new packets overtake the ones that wait.
DrainPushesFront ==
  /\ turn \in Output
  /\ ring' = AtMost(RingCap, AtMost(PollLimit, socket[turn]) \o ring)
  /\ socket' = [socket EXCEPT ![turn] = Beyond(PollLimit, @)]
  /\ turn' = turn + 1
  /\ UNCHANGED <<cfg, live, staged, valid, deadline, ms, sent, edits>>

Drain ==
  /\ turn \in Output
  /\ ring' = AtMost(RingCap, ring \o AtMost(PollLimit, socket[turn]))
  /\ socket' = [socket EXCEPT ![turn] = Beyond(PollLimit, @)]
  /\ turn' = turn + 1
  /\ UNCHANGED <<cfg, live, staged, valid, deadline, ms, sent, edits>>

\* (int32_t)(now - deadline) >= 0
Reached(d) == (ms - d) % ClockMod < ClockMod \div 2

\* Mutant: staged frames do not wait for their deadline.
DueAtOnce == {o \in Output : valid[o]}

\* Mutant: the clock words are compared as numbers.
DueByValue == {o \in Output : valid[o] /\ deadline[o] # 0 /\ ms > deadline[o]}

Due == {o \in Output : valid[o] /\ deadline[o] # 0 /\ Reached(deadline[o])}

\* commitSacnStaged for each output of S, where a frame is staged.
Commit(S) ==
  /\ live' = [o \in Output |-> IF o \in S /\ valid[o] THEN staged[o] ELSE live[o]]
  /\ valid' = [o \in Output |-> valid[o] /\ o \notin S]
  /\ UNCHANGED <<staged, deadline>>

CheckTimeouts ==
  /\ turn = Outputs
  /\ Commit(Due)
  /\ turn' = turn + 1
  /\ UNCHANGED <<cfg, socket, ring, ms, sent, edits>>

Poll == Drain \/ CheckTimeouts

-----------------------------------------------------------------------------
(***************************************************************************)
(* sacn_dispatch_packet on the oldest packet of the ring, before or after  *)
(* a call of sacn_poll.                                                    *)
(***************************************************************************)
Popping == turn \in {0, Outputs + 1} /\ ring # <<>>

Listening(u) == {o \in Output : cfg[o].en /\ cfg[o].universe = u}
Holding(u) == {o \in Listening(u) : cfg[o].sync > 0}

\* Every matching output that is configured for Stream-Sync holds the frame.
StageFrame ==
  /\ Popping /\ Head(ring).kind = "stream"
  /\ LET p == Head(ring)
         H == Holding(p.universe)
     IN /\ H # {}
        /\ staged' = [o \in Output |-> IF o \in H THEN p.frame ELSE staged[o]]
        /\ valid' = [o \in Output |-> valid[o] \/ o \in H]
        /\ deadline' = [o \in Output |-> IF o \in H THEN (ms + Grace) % ClockMod
                                                     ELSE deadline[o]]
  /\ ring' = Tail(ring)
  /\ UNCHANGED <<cfg, socket, live, ms, turn, sent, edits>>

\* No matching output holds it: routeFrame.
RouteFrame ==
  /\ Popping /\ Head(ring).kind = "stream"
  /\ LET p == Head(ring)
     IN /\ Holding(p.universe) = {}
        /\ live' = [o \in Output |-> IF o \in Listening(p.universe)
                                       THEN p.frame ELSE live[o]]
  /\ ring' = Tail(ring)
  /\ UNCHANGED <<cfg, socket, staged, valid, deadline, ms, turn, sent, edits>>

SyncPacket ==
  /\ Popping /\ Head(ring).kind = "sync"
  /\ Commit({o \in Output : cfg[o].en /\ cfg[o].sync = Head(ring).universe})
  /\ ring' = Tail(ring)
  /\ UNCHANGED <<cfg, socket, ms, turn, sent, edits>>

Dispatch == StageFrame \/ RouteFrame \/ SyncPacket

-----------------------------------------------------------------------------
(***************************************************************************)
(* Time and live configuration.  The receive task is periodic and polls    *)
(* once a tick; packets may wait in the ring over several polls.           *)
(***************************************************************************)
Tick ==
  /\ turn = Outputs + 1
  /\ ms' = (ms + 1) % ClockMod
  /\ turn' = 0
  /\ UNCHANGED <<cfg, socket, ring, live, staged, valid, deadline, sent, edits>>

SetSync ==
  /\ edits < MaxEdits
  /\ \E u \in SyncValues : cfg' = [cfg EXCEPT ![0].sync = u]
  /\ edits' = edits + 1
  /\ UNCHANGED <<socket, ring, live, staged, valid, deadline, ms, turn, sent>>

Next ==
  \/ \E u \in Universe \ {0} : SendFrame(u) \/ SendSync(u)
  \/ Poll
  \/ Dispatch
  \/ Tick
  \/ SetSync

Spec == Init /\ [][Next]_vars

\* The task keeps its schedule and time passes; the source may do anything.
FairSpec ==
  Spec /\ WF_vars(Poll) /\ WF_vars(Tick)

-----------------------------------------------------------------------------
(***************************************************************************)
(* Correctness.                                                            *)
(***************************************************************************)
\* The types of all variables, and the capacities of socket and ring.
TypeOK ==
  /\ cfg \in [Output -> OutputConfig]
  /\ socket \in [Output -> Seq(Packet)] /\ ring \in Seq(Packet)
  /\ \A o \in Output : Len(socket[o]) <= SocketCap
  /\ Len(ring) <= RingCap
  /\ live \in [Output -> FrameNo] /\ staged \in [Output -> FrameNo]
  /\ valid \in [Output -> BOOLEAN]
  /\ deadline \in [Output -> 0..ClockMod-1] /\ ms \in 0..ClockMod-1
  /\ turn \in 0..Outputs+1
  /\ sent \in FrameNo /\ edits \in 0..MaxEdits

\* No two sockets joined the same group.
OneSocketEach ==
  \A o, p \in Output : \A u \in Universe : Joined(o, u) /\ Joined(p, u) => o = p

\* One source that does not start again, a configuration that does not change.
Plain == ~Endless /\ edits = 0 /\ OneSocketEach

\* p and q are not frames of one universe in the wrong order.
InOrder(p, q) ==
  p.kind = "stream" /\ q.kind = "stream" /\ p.universe = q.universe
    => p.frame <= q.frame

\* Frames wait in the order they were sent in, each in its universe's socket
\* before it is in the ring.
WaitingInOrder ==
  /\ \A n \in 1..Len(ring) : ring[n].kind = "stream" => ring[n].frame <= sent
  /\ \A n \in 1..Len(ring) : \A m \in n..Len(ring) : InOrder(ring[n], ring[m])
  /\ \A o \in Output : \A n \in 1..Len(socket[o]) :
       /\ Joined(o, socket[o][n].universe)
       /\ socket[o][n].kind = "stream" => socket[o][n].frame <= sent
       /\ \A m \in n..Len(socket[o]) : InOrder(socket[o][n], socket[o][m])
       /\ \A m \in 1..Len(ring) : InOrder(ring[m], socket[o][n])

\* p is no frame for output o, or none older than frame f.
NotOlder(o, f, p) ==
  p.kind = "stream" /\ p.universe = cfg[o].universe => f <= p.frame

\* What is shown and what is staged was sent before whatever waits.
ShownInOrder ==
  \A o \in Output :
    /\ live[o] <= sent /\ staged[o] <= sent
    /\ valid[o] => cfg[o].en /\ cfg[o].sync > 0 /\ live[o] <= staged[o]
    /\ \A n \in 1..Len(ring) :
         /\ NotOlder(o, live[o], ring[n])
         /\ valid[o] => NotOlder(o, staged[o], ring[n])
    /\ \A q \in Output : \A n \in 1..Len(socket[q]) :
         /\ NotOlder(o, live[o], socket[q][n])
         /\ valid[o] => NotOlder(o, staged[o], socket[q][n])

\* The inductive invariant.
IInv == TypeOK /\ (Plain => WaitingInOrder /\ ShownInOrder)

\* No output ever goes back to an older frame of the source: not through the
\* ring, not through staging, not when a timeout races a Sync packet.  (With
\* one socket per universe and no live change of sacnsync.)
NeverOlder ==
  [][Plain => \A o \in Output : live[o] <= live'[o]]_vars

\* A frame is shown only by outputs that listen to its universe and hold no
\* Stream-Sync, by a Sync packet, or after its grace period: a staged frame
\* never leaks out early.
NoEarlyCommit ==
  [][\A o \in Output : valid[o] /\ ~valid'[o] =>
       \/ Reached(deadline[o])
       \/ ring # <<>> /\ Head(ring).kind = "sync"
                      /\ Head(ring).universe = cfg[o].sync]_vars

\* A staged frame is committed by a Sync packet or by its own deadline, unless
\* newer frames keep moving the deadline (sacn_check_timeouts); a deadline that
\* happens to be 0 is exempt: the code takes it for "no deadline".
StagedFrameLeaves ==
  \A o \in Output :
    <>[](valid[o] /\ deadline[o] # 0) => []<><<deadline'[o] # deadline[o]>>_deadline

\* "so a source that never sends Sync still commits" (sacn.c:158-159).  Every
\* frame staged restarts the grace period, so a source that keeps sending
\* faster than that is never shown.
SourceWithoutSyncCommits ==
  \A o \in Output : valid[o] ~> ~valid[o]

\* "Stream Sync state is evaluated independently per output" (18-sacn-
\* protocol-spec.md:66): an output without Stream-Sync shows the frames of
\* its universe at once, whatever other outputs are configured for.
ImmediateOutputsRouted ==
  [][ring # <<>> /\ ring' = Tail(ring) /\ Head(ring).kind = "stream" =>
       \A o \in Listening(Head(ring).universe) :
         cfg[o].sync = 0 => live'[o] = Head(ring).frame]_vars

=============================================================================
