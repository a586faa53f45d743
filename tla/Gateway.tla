------------------------------ MODULE Gateway ------------------------------
(***************************************************************************)
(* From an Art-Net datagram to the pulses on a DMX line: the outputs are   *)
(* set up at boot (output_init.c), the network task on core 0 receives and *)
(* routes (net_rx_task.c, artnet.c), the transmit task on core 1 takes     *)
(* snapshots and starts frames (dmx_tx_task.c), and the peripheral carries *)
(* them while both go on (dmx_rmt_tx.c).                                   *)
(*                                                                         *)
(* A bracket on a live buffer is one step and a snapshot another; DmxBuffer*)
(* shows that they are.  One controller sends, so that the merge of an     *)
(* output is the controller's last packet: DmxRouter models the merge of   *)
(* several, priorities, loss modes and split masks.                        *)
(***************************************************************************)
EXTENDS ArtNet, RmtFrame, FiniteSets

CONSTANTS
  Outputs,      \* MAX_OUTPUTS and MAX_OUTPUTS_DRV (4 in the code).
  Configs,      \* Configurations of the outputs, as they are loaded.
  RxCap,        \* Datagrams the socket can hold.
  MaxPerTick,   \* MAX_PACKETS_PER_TICK (8 in the code).
  MaxArrivals,  \* Bound: datagrams that arrive.
  MaxFaults     \* Bound: peripheral and socket calls that fail.

Output == 0..Outputs-1

\* The fields of DmxOutput that matter here: pins says that there is any.
OutputConfig ==
  [en : BOOLEAN, pins : BOOLEAN, tx : BOOLEAN, uni : Int, brk : Int, mab : Int,
   inv : BOOLEAN]

ASSUME GatewayAssumption ==
  /\ Outputs \in Nat \ {0}
  /\ \A d \in Datagrams : d.tail \in Seq(Byte)
  /\ Configs \subseteq [Output -> OutputConfig]
  /\ RxCap \in Nat \ {0} /\ MaxPerTick \in Nat \ {0}
  /\ MaxArrivals \in Nat /\ MaxFaults \in Nat

VARIABLES
  cfg,       \* cfg[o]: the configuration of output o.
  boot,      \* sanitize, the output to set up, the socket, the network task.
  ready,     \* ready[o]: output o can transmit.
  rmt,       \* rmt[o]: break, mark and polarity of output o.
  live,      \* live[o]: the live buffer, start code first.
  socket,    \* Datagrams received and not read.
  taken,     \* Datagrams read in this tick.
  rstep,     \* The network task: poll, start, merge.
  ri,        \* Its output index.
  pkt,       \* The packet it routes.
  reply,     \* The last ArtPollReply: the outputs it lists; -1 before.
  tstep,     \* The transmit task: prime, snap, kick.
  ti,        \* Its output index.
  txFrame,   \* tx_frame, which all outputs share.
  sym,       \* sym[o]: the symbol buffer of output o.
  air,       \* air[o]: idle, head, tail: how far the peripheral has got.
  line,      \* line[o]: the symbols carried of the frame in progress.
  shown,     \* shown[o]: the symbols carried of the last complete frame.
  packets,   \* History: the datagrams routed.
  arrived,   \* Datagrams so far (bound).
  faults     \* Failed calls so far (bound).

outs == <<cfg, boot, ready, rmt>>
rx == <<socket, taken, rstep, ri, pkt, reply, packets, arrived>>
tx == <<tstep, ti, txFrame, sym, air, line, shown>>
vars == <<outs, live, rx, tx, faults>>

Packet == [universe : Nat, sc : Byte, data : Seq(Byte)]
NoPacket == [universe |-> 0, sc |-> 0, data |-> <<>>]
Dark == [n \in 1..LastChannel+1 |-> 0]
Channels(d) == [n \in 1..LastChannel |-> IF n <= Len(d) THEN d[n] ELSE 0]
Clamp(x, lo, hi) == IF x < lo THEN lo ELSE IF x > hi THEN hi ELSE x

\* The memory of a device that has started.
Fresh ==
  [ready |-> [o \in Output |-> FALSE],
   rmt |-> [o \in Output |-> [brk |-> 0, mab |-> 0, inv |-> FALSE]],
   live |-> [o \in Output |-> Dark],
   sym |-> [o \in Output |-> <<>>],
   air |-> [o \in Output |-> "idle"]]

Init ==
  /\ cfg \in Configs
  /\ boot = -1
  /\ ready = Fresh.ready /\ rmt = Fresh.rmt /\ live = Fresh.live
  /\ socket = <<>> /\ taken = 0 /\ rstep = "poll" /\ ri = 0 /\ pkt = NoPacket
  /\ reply = -1
  /\ tstep = "prime" /\ ti = 0 /\ txFrame = Dark
  /\ sym = Fresh.sym /\ air = Fresh.air
  /\ line = Fresh.sym /\ shown = Fresh.sym
  /\ packets = {}
  /\ arrived = 0 /\ faults = 0

Fail == faults < MaxFaults /\ faults' = faults + 1

-----------------------------------------------------------------------------
(***************************************************************************)
(* The start of the firmware: app_main calls these in this order.          *)
(***************************************************************************)
\* Mutant: timing is taken as it was configured.
SaneUnclamped(c) == [c EXCEPT !.en = c.en /\ c.pins, !.uni = Clamp(c.uni, 0, 15)]

Sane(c) ==
  [c EXCEPT !.en = c.en /\ c.pins,
            !.uni = Clamp(c.uni, 0, 15),
            !.brk = Clamp(c.brk, 88, 300),
            !.mab = Clamp(c.mab, 0, 300)]

SanitizeOutputs ==
  /\ boot = -1
  /\ cfg' = [o \in Output |-> Sane(cfg[o])]
  /\ boot' = 0
  /\ UNCHANGED <<ready, rmt, live, rx, tx, faults>>

\* outputInitAll: an output that is disabled, has no pin to send on, or whose
\* channel, encoder or memory is not to be had stays silent.
OutputInit ==
  /\ boot \in Output
  /\ \/ /\ cfg[boot].en /\ cfg[boot].tx
        /\ ready' = [ready EXCEPT ![boot] = TRUE]
        /\ rmt' = [rmt EXCEPT ![boot] = [brk |-> cfg[boot].brk,
                                         mab |-> cfg[boot].mab,
                                         inv |-> cfg[boot].inv]]
        /\ UNCHANGED faults
     \/ /\ cfg[boot].en /\ cfg[boot].tx
        /\ Fail
        /\ UNCHANGED <<ready, rmt>>
     \/ /\ ~(cfg[boot].en /\ cfg[boot].tx)
        /\ UNCHANGED <<ready, rmt, faults>>
  /\ boot' = boot + 1
  /\ UNCHANGED <<cfg, live, rx, tx>>

\* artnet_init, while the transmit task runs already.
ArtnetInit ==
  /\ boot = Outputs
  /\ boot' = boot + 1
  /\ UNCHANGED <<cfg, ready, rmt, live, rx, tx, faults>>

\* There is no socket or it cannot be bound: app_main aborts, and the device
\* starts anew.  (cfg is loaded again, and sanitized to what it was.)
ArtnetInitFails ==
  /\ boot = Outputs
  /\ Fail
  /\ boot' = -1
  /\ ready' = Fresh.ready /\ rmt' = Fresh.rmt /\ live' = Fresh.live
  /\ tstep' = "prime" /\ ti' = 0 /\ txFrame' = Dark
  /\ sym' = Fresh.sym /\ air' = Fresh.air
  /\ line' = Fresh.sym /\ shown' = Fresh.sym
  /\ UNCHANGED <<cfg, rx>>

Boot == SanitizeOutputs \/ OutputInit \/ ArtnetInit \/ ArtnetInitFails

\* dmx_tx_task_start comes before artnet_init, net_rx_task_start after it.
Transmitting == boot >= Outputs
Listening == boot > Outputs

-----------------------------------------------------------------------------
(***************************************************************************)
(* The network task.                                                       *)
(***************************************************************************)
\* A datagram arrives; a full socket loses it.
Arrive ==
  /\ Listening
  /\ arrived < MaxArrivals
  /\ arrived' = arrived + 1
  /\ \E d \in Datagrams :
       socket' = IF Len(socket) < RxCap THEN Append(socket, d) ELSE socket
  /\ UNCHANGED <<outs, live, taken, rstep, ri, pkt, reply, packets, tx, faults>>

\* The tick is over: the socket is empty or its share is used up.  (An empty
\* datagram ends it too.)
EndTick ==
  /\ Listening /\ rstep = "poll"
  /\ socket = <<>> \/ taken = MaxPerTick
  /\ taken' = 0
  /\ UNCHANGED <<outs, live, socket, rstep, ri, pkt, reply, packets, arrived,
                 tx, faults>>

Receive ==
  /\ Listening /\ rstep = "poll"
  /\ socket # <<>> /\ taken < MaxPerTick
  /\ socket' = Tail(socket)
  /\ taken' = IF Head(socket).len = 0 THEN 0 ELSE taken + 1
  /\ UNCHANGED <<outs, live, ri, arrived, tx>>

Drop ==
  /\ Receive
  /\ ~Accepted(Head(socket)) \/ Ignored(Head(socket))
  /\ UNCHANGED <<rstep, pkt, reply, packets, faults>>

StartRoute ==
  /\ Receive
  /\ Accepted(Head(socket))
  /\ pkt' \in Routed(Head(socket))
  /\ packets' = packets \cup {Head(socket)}
  /\ rstep' = "start"
  /\ UNCHANGED <<reply, faults>>

\* The reply counts the outputs that are enabled.
Ports == Cardinality({o \in Output : cfg[o].en})

\* handlePoll: the reply may get lost on the way out.
HandlePoll ==
  /\ Receive
  /\ Accepted(Head(socket)) /\ Head(socket).op = ArtPoll
  /\ \/ reply' = Ports /\ UNCHANGED faults
     \/ Fail /\ UNCHANGED reply
  /\ UNCHANGED <<rstep, pkt, packets>>

Matches(o) == cfg[o].en /\ cfg[o].uni = pkt.universe

NextOutput ==
  /\ rstep' = IF ri + 1 < Outputs THEN "start" ELSE "poll"
  /\ ri' = IF ri + 1 < Outputs THEN ri + 1 ELSE 0

Skip ==
  /\ rstep = "start"
  /\ ~Matches(ri)
  /\ NextOutput
  /\ UNCHANGED <<outs, live, socket, taken, pkt, reply, packets, arrived, tx,
                 faults>>

\* Two brackets: the start code, then the channels.
WriteStartCode ==
  /\ rstep = "start"
  /\ Matches(ri)
  /\ live' = [live EXCEPT ![ri][1] = pkt.sc]
  /\ rstep' = "merge"
  /\ UNCHANGED <<outs, socket, taken, ri, pkt, reply, packets, arrived, tx,
                 faults>>

MergeOutput ==
  /\ rstep = "merge"
  /\ live' = [live EXCEPT ![ri] = <<@[1]>> \o Channels(pkt.data)]
  /\ NextOutput
  /\ UNCHANGED <<outs, socket, taken, pkt, reply, packets, arrived, tx, faults>>

NetRx ==
  EndTick \/ Drop \/ StartRoute \/ HandlePoll \/ Skip \/ WriteStartCode
  \/ MergeOutput

-----------------------------------------------------------------------------
(***************************************************************************)
(* The transmit task.                                                      *)
(***************************************************************************)
\* rmtDmxIdle.
Idle(o) == air[o] = "idle"

\* rmtDmxKick on an idle channel: the symbols are written, then handed over;
\* an error is logged and the frame is not sent.
Transmit(o) ==
  /\ sym' = [sym EXCEPT ![o] = rmtDmxEncode(rmt[o], txFrame)]
  /\ \/ air' = [air EXCEPT ![o] = "head"] /\ UNCHANGED faults
     \/ Fail /\ UNCHANGED air

\* Mutant: the channel is not asked whether it is idle.
KickBlindly(o) ==
  /\ Transmit(o)
  /\ UNCHANGED <<line, shown>>

Kick(o) ==
  /\ IF Idle(o) THEN Transmit(o) ELSE UNCHANGED <<sym, air, faults>>
  /\ UNCHANGED <<line, shown>>

\* The loop over the outputs, one tick after the other.
NextTx(step) ==
  /\ tstep' = IF ti + 1 < Outputs THEN step ELSE "snap"
  /\ ti' = IF ti + 1 < Outputs THEN ti + 1 ELSE 0

Prime ==
  /\ Transmitting /\ tstep = "prime"
  /\ IF ready[ti] THEN Kick(ti) ELSE UNCHANGED <<sym, air, line, shown, faults>>
  /\ NextTx("prime")
  /\ UNCHANGED <<outs, live, rx, txFrame>>

NotReady ==
  /\ Transmitting /\ tstep = "snap"
  /\ ~ready[ti]
  /\ NextTx("snap")
  /\ UNCHANGED <<outs, live, rx, txFrame, sym, air, line, shown, faults>>

\* Mutant: a frame is sent only if it differs from the one sent before.
SnapshotIfChanged ==
  /\ Transmitting /\ tstep = "snap"
  /\ ready[ti]
  /\ txFrame' = live[ti]
  /\ IF live[ti] # txFrame THEN tstep' = "kick" /\ UNCHANGED ti ELSE NextTx("snap")
  /\ UNCHANGED <<outs, live, rx, sym, air, line, shown, faults>>

Snapshot ==
  /\ Transmitting /\ tstep = "snap"
  /\ ready[ti]
  /\ txFrame' = live[ti]
  /\ tstep' = "kick"
  /\ UNCHANGED <<outs, live, rx, ti, sym, air, line, shown, faults>>

\* The network task writes that buffer all the while: nothing is sent in this
\* round, and tx_frame is left with some cells of either frame.
Torn ==
  {[n \in 1..LastChannel+1 |-> IF n <= k THEN live[ti][n]
                               ELSE (<<pkt.sc>> \o Channels(pkt.data))[n]]
     : k \in 1..LastChannel}

BeingWritten(o) == rstep \in {"start", "merge"} /\ ri = o /\ Matches(o)

\* Mutant: what was copied is sent all the same.
SnapshotFailsSent ==
  /\ Transmitting /\ tstep = "snap"
  /\ ready[ti] /\ BeingWritten(ti)
  /\ txFrame' \in Torn
  /\ tstep' = "kick"
  /\ UNCHANGED <<outs, live, rx, ti, sym, air, line, shown, faults>>

SnapshotFails ==
  /\ Transmitting /\ tstep = "snap"
  /\ ready[ti] /\ BeingWritten(ti)
  /\ txFrame' \in Torn
  /\ NextTx("snap")
  /\ UNCHANGED <<outs, live, rx, sym, air, line, shown, faults>>

KickOutput ==
  /\ Transmitting /\ tstep = "kick"
  /\ Kick(ti)
  /\ NextTx("snap")
  /\ UNCHANGED <<outs, live, rx, txFrame>>

DmxTx == Prime \/ NotReady \/ Snapshot \/ SnapshotFails \/ KickOutput

-----------------------------------------------------------------------------
(***************************************************************************)
(* The peripheral reads the symbols as it goes: some, then the others.     *)
(***************************************************************************)
Half(o) == Len(sym[o]) \div 2

CarryHead(o) ==
  /\ air[o] = "head"
  /\ line' = [line EXCEPT ![o] = SubSeq(sym[o], 1, Half(o))]
  /\ air' = [air EXCEPT ![o] = "tail"]
  /\ UNCHANGED <<outs, live, rx, tstep, ti, txFrame, sym, shown, faults>>

CarryTail(o) ==
  /\ air[o] = "tail"
  /\ shown' = [shown EXCEPT ![o] =
                 line[o] \o SubSeq(sym[o], Len(line[o]) + 1, Len(sym[o]))]
  /\ line' = [line EXCEPT ![o] = <<>>]
  /\ air' = [air EXCEPT ![o] = "idle"]
  /\ UNCHANGED <<outs, live, rx, tstep, ti, txFrame, sym, faults>>

Carry(o) == CarryHead(o) \/ CarryTail(o)

Next == Boot \/ Arrive \/ NetRx \/ DmxTx \/ \E o \in Output : Carry(o)

Spec == Init /\ [][Next]_vars

\* Both tasks wake up at every tick, and the peripheral runs by itself.
FairSpec ==
  /\ Spec
  /\ WF_vars(Boot) /\ WF_vars(NetRx) /\ WF_vars(DmxTx)
  /\ \A o \in Output : WF_vars(Carry(o))

-----------------------------------------------------------------------------
(***************************************************************************)
(* Correctness.                                                            *)
(***************************************************************************)
\* The types of all variables.
TypeOK ==
  /\ cfg \in [Output -> OutputConfig] /\ boot \in -1..Outputs+1
  /\ ready \in [Output -> BOOLEAN]
  /\ rmt \in [Output -> [brk : Int, mab : Int, inv : BOOLEAN]]
  /\ live \in [Output -> Frame] /\ txFrame \in Frame
  /\ socket \in Seq(Datagrams) /\ Len(socket) <= RxCap
  /\ taken \in 0..MaxPerTick
  /\ rstep \in {"poll", "start", "merge"} /\ ri \in Output
  /\ pkt \in Packet /\ packets \in SUBSET Datagrams
  /\ reply \in -1..Outputs
  /\ tstep \in {"prime", "snap", "kick"} /\ ti \in Output
  /\ sym \in [Output -> Seq(Symbol)]
  /\ air \in [Output -> {"idle", "head", "tail"}]
  /\ line \in [Output -> Seq(Symbol)] /\ shown \in [Output -> Seq(Symbol)]
  /\ arrived \in 0..MaxArrivals /\ faults \in 0..MaxFaults

\* An output that can send has a legal break and a mark the 15 bits of a run
\* can hold, whatever was configured.
LegalTiming ==
  \A o \in Output : ready[o] => rmt[o].brk \in 88..300 /\ rmt[o].mab \in 0..300

\* A controller that asks is told of no fewer outputs than can send.
RepliesTell == reply # -1 => Cardinality({o \in Output : ready[o]}) <= reply

\* Only an output that can send has symbols, and they fit its buffer.
SymbolsFit ==
  \A o \in Output :
    /\ Len(sym[o]) <= MaxSym
    /\ ~ready[o] => sym[o] = <<>> /\ air[o] = "idle"

\* Before the tasks start there is nothing for them to work on, and what is
\* set up is set up with settings that were sanitized (app_main).
Unstarted ==
  /\ boot # -1 =>
       \A o \in Output : cfg[o].brk \in 88..300 /\ cfg[o].mab \in 0..300
  /\ \A o \in Output : ready[o] => o < boot /\ cfg[o].en
  /\ boot < Outputs => tstep = "prime"
  /\ boot <= Outputs =>
       /\ live = Fresh.live /\ packets = {}
       /\ socket = <<>> /\ rstep = "poll" /\ reply = -1

\* What a datagram says of the start code and of channel n: the bytes from 60,
\* as far as they go and as its length field counts them.
StartCode(d) == IF d.op = ArtNzs THEN d.tail[1] ELSE 0

Said(d, n) ==
  LET bytes == IF d.op = ArtNzs THEN Tail(d.tail) ELSE d.tail
  IN IF n <= d.length /\ n <= Len(bytes) THEN bytes[n] ELSE 0

\* A frame that these datagrams account for: its channels are those of one of
\* them, or dark, and its start code is that of one, or none.
Sendable(mine, f) ==
  /\ f[1] \in {0} \cup {StartCode(d) : d \in mine}
  /\ \/ \A n \in Channel : f[n + 1] = 0
     \/ \E d \in mine : \A n \in Channel : f[n + 1] = Said(d, n)

Encodes(mine, r, symbols) ==
  symbols # <<>> =>
    \E f \in Frame : Sendable(mine, f) /\ symbols = rmtDmxEncode(r, f)

Says(d, p) ==
  /\ p.universe = d.universe /\ p.sc = StartCode(d)
  /\ \A n \in Channel : Channels(p.data)[n] = Said(d, n)

\* The datagrams for the universe of output o.
Mine(o) == {d \in packets : d.universe = cfg[o].uni}

\* The packet being routed is a datagram's, and an output that takes its start
\* code takes its channels too.
PacketIsDatagram ==
  /\ rstep # "poll" => \E d \in packets : Says(d, pkt)
  /\ rstep = "merge" => Matches(ri)

\* The frames on their way to a line are frames its output may send, although
\* all outputs share tx_frame: nothing is sent from it but what was copied for
\* that output, and symbols stay as they are while the peripheral reads them.
FramesAreSendable ==
  /\ \A o \in Output : Sendable(Mine(o), live[o])
  /\ tstep = "prime" => txFrame = Dark
  /\ tstep = "kick" => ready[ti] /\ Sendable(Mine(ti), txFrame)
  /\ \A o \in Output :
       /\ Encodes(Mine(o), rmt[o], sym[o]) /\ Encodes(Mine(o), rmt[o], shown[o])
       /\ air[o] # "idle" => sym[o] # <<>>
       /\ air[o] = "tail" => line[o] = SubSeq(sym[o], 1, Half(o))
       /\ ~ready[o] => shown[o] = <<>>

IInv ==
  /\ TypeOK
  /\ Unstarted
  /\ LegalTiming
  /\ RepliesTell
  /\ SymbolsFit
  /\ PacketIsDatagram
  /\ FramesAreSendable

\* What a receiver can make out: a mark, and levels as they are meant.
Legible(o) == rmt[o].mab >= 4 /\ ~rmt[o].inv

\* A receiver hears whole frames only: the channels are those of one packet
\* for this output's universe, or dark, never of two datagrams, of the frame of
\* another output in the shared tx_frame, of bytes past the end of a datagram,
\* or of symbols rewritten under way (dmx_tx_task.c, artnet.c).
LineIsDatagram ==
  \A o \in Output : shown[o] # <<>> /\ Legible(o) =>
    LET heard == Heard(shown[o])
    IN Len(heard) = LastChannel + 1 /\ Sendable(Mine(o), heard)

\* When the controller falls silent, every output that can send comes to show
\* its live buffer and goes on showing it: neither a snapshot that failed nor
\* a transmission that failed is the last word (dmx_tx_task).
LatestReachesLine ==
  \A o \in Output :
    <>[](ready[o] => shown[o] = rmtDmxEncode(rmt[o], live[o]))

\* The line is refreshed for ever, also when nothing changes: DMX receivers go
\* dark otherwise (the loop of dmx_tx_task).
KeepsRefreshing ==
  \A o \in Output : []<>(ready[o] => air[o] = "tail")

=============================================================================
