----------------------------- MODULE DmxRouter -----------------------------
(***************************************************************************)
(* Routing one network frame to the DMX outputs: the sender table          *)
(* (sender_tracker.c), the merge engine (merge_engine.c) and the frame     *)
(* router that drives both (frame_router.c).                               *)
(*                                                                         *)
(* The network task on core 0 is the only router.  Between its steps the   *)
(* millisecond clock advances and another task changes the live            *)
(* configuration; the transmit task reads the live buffers at any time.    *)
(* A bracketed write of a live buffer is one step here: DmxBuffer shows    *)
(* that readers see it as one.                                             *)
(***************************************************************************)
EXTENDS Integers, Sequences

CONSTANTS
  Outputs,      \* Number of outputs (MAX_OUTPUTS, 4 in the code).
  Slots,        \* Size of the sender table (MAX_SENDERS, 16 in the code).
  LastChannel,  \* Channels of a frame (512 in the code).
  MaxLevel,     \* The highest channel value (255 in the code).
  Ip,           \* Source addresses.
  NoIp,         \* The address of an empty table slot (0 in the code).
  Universe,     \* 15-bit port addresses.
  Packets,      \* The packets the protocol handlers can deliver.
  Configs,      \* Initial configurations of the outputs.
  Settings,     \* Configurations the "set" command can give to output A.
  ClockMod,     \* The clock counts modulo ClockMod (2^32 ms in the code).
  MaxTicks,     \* Bound: ticks of the clock.
  MaxPackets,   \* Bound: packets routed.
  MaxEdits      \* Bound: live configuration changes.

Output == 0..Outputs-1
Slot == 1..Slots
Channel == 1..LastChannel
Level == 0..MaxLevel
Priority == 0..255
Proto == {"artnet", "sacn"}
Mode == {"off", "htp", "ltp", "takeover", "priority"}
Loss == {"hold", "zero", "stop", "preset", "home"}

\* The fields of DmxOutput that routing reads.
OutputConfig ==
  [en : BOOLEAN, universe : Universe, mergemode : Mode, losemode : Loss,
   failsafe : Nat \ {0}, split : SUBSET Output]

\* What a protocol handler passes to routeFrame (sc = 0) or routeFrameNzs.
Packet ==
  [ip : Ip, proto : Proto, universe : Universe, priority : Priority,
   sc : Nat, data : Seq(Level)]

\* One slot of the sender table.
Entry ==
  [ip : Ip \cup {NoIp}, proto : Proto, universe : Universe, priority : Priority,
   data : Seq(Level), lastMs : 0..ClockMod-1]

ASSUME RouterAssumption ==
  /\ Outputs \in Nat \ {0} /\ Slots \in Nat \ {0} /\ LastChannel \in Nat
  /\ MaxLevel \in Nat
  /\ NoIp \notin Ip /\ 0 \in Universe
  /\ Packets \subseteq Packet /\ Packets # {}
  /\ Configs \subseteq [Output -> OutputConfig]
  /\ Settings \subseteq OutputConfig
  /\ ClockMod \in Nat \ {0}
  /\ MaxTicks \in Nat /\ MaxPackets \in Nat /\ MaxEdits \in Nat

VARIABLES
  cfg,      \* cfg[o]: the live configuration of output o.
  senders,  \* The sender table g_senders.
  live,     \* live[o]: start code and channels in o's live buffer.
  ms,       \* The millisecond clock, as a word that wraps.
  step,     \* Where the router is: idle, clock, match, merge, mask, mirror.
  pkt,      \* The packet being routed.
  nowMs,    \* The router's local copy of the clock.
  i,        \* The router's output index.
  mirrors,  \* Outputs the open mirrorSplit call has still to visit.
  clock,    \* History: ticks since boot, not wrapped.
  asOf,     \* History: the tick at which nowMs was read.
  heard,    \* History: the last packet of each source and its tick.
  origin,   \* History: start code of the packet that last set o's channels.
  routed,   \* Packets received so far (bound).
  edits     \* Configuration changes so far (bound).

route == <<step, pkt, nowMs, i, mirrors, asOf>>
vars == <<cfg, senders, live, ms, step, pkt, nowMs, i, mirrors,
          clock, asOf, heard, origin, routed, edits>>

-----------------------------------------------------------------------------
(***************************************************************************)
(* Small operators.                                                        *)
(***************************************************************************)
Lowest(S) == CHOOSE x \in S : \A y \in S : x <= y
Highest(S) == CHOOSE x \in S : \A y \in S : y <= x

\* Channel c of cached data; channels past its length read as zero.
At(d, c) == IF c <= Len(d) THEN d[c] ELSE 0
Padded(d) == [c \in Channel |-> At(d, c)]
Dark == [c \in Channel |-> 0]

\* routeFrameNzs files every frame under Art-Net, whichever handler calls it.
CacheProto(p) == IF p.sc = 0 THEN p.proto ELSE "artnet"
Source(p) == <<p.ip, CacheProto(p)>>
Key(e) == <<e.ip, e.proto>>

\* Unsigned subtraction of two clock words.
Elapsed(now, then) == IF then <= now THEN now - then ELSE now - then + ClockMod

EmptyEntry ==
  [ip |-> NoIp, proto |-> "artnet", universe |-> 0, priority |-> 0,
   data |-> <<>>, lastMs |-> 0]

-----------------------------------------------------------------------------
(***************************************************************************)
(* The sender table: updateSender and its four-tier slot allocation.       *)
(***************************************************************************)
UniverseMapped(u) == \E o \in Output : cfg[o].en /\ cfg[o].universe = u

Matching(p) == {s \in Slot : Key(senders[s]) = Source(p)}
Empty == {s \in Slot : senders[s].ip = NoIp}
Unmapped == {s \in Slot : senders[s].ip # NoIp
                          /\ ~UniverseMapped(senders[s].universe)}
\* Mutant: the source heard last is evicted.
MostRecent ==
  {s \in Slot : \A t \in Slot : senders[t].lastMs <= senders[s].lastMs}
Oldest == {s \in Slot : \A t \in Slot : senders[s].lastMs <= senders[t].lastMs}

SlotFor(p) ==
  IF Matching(p) # {} THEN Lowest(Matching(p))
  ELSE IF Empty # {} THEN Lowest(Empty)
  ELSE IF Unmapped # {} THEN Lowest(Unmapped)
  ELSE Lowest(Oldest)

\* Mutant: a refreshed slot keeps its universe.
CachedKeepsUniverse(p) ==
  [ip |-> p.ip, proto |-> CacheProto(p),
   universe |-> senders[SlotFor(p)].universe,
   priority |-> p.priority, data |-> p.data, lastMs |-> ms]

\* Mutant: the slot is stamped with the clock reading of an earlier packet.
CachedStale(p) ==
  [ip |-> p.ip, proto |-> CacheProto(p), universe |-> p.universe,
   priority |-> p.priority, data |-> p.data, lastMs |-> nowMs]

Cached(p) ==
  [ip |-> p.ip, proto |-> CacheProto(p), universe |-> p.universe,
   priority |-> p.priority, data |-> p.data, lastMs |-> ms]

-----------------------------------------------------------------------------
(***************************************************************************)
(* The merge engine: contributors, priority filter, blend.                 *)
(***************************************************************************)
Contributors(o) ==
  {s \in Slot : /\ senders[s].ip # NoIp
                /\ senders[s].universe = cfg[o].universe
                /\ Elapsed(nowMs, senders[s].lastMs) < cfg[o].failsafe}

\* Mutant: the priority filter is left out.
TopUnfiltered(o) == Contributors(o)

Top(o) ==
  {s \in Contributors(o) :
     \A t \in Contributors(o) : senders[t].priority <= senders[s].priority}

\* The first of the most recently heard.
NewestOf(S) ==
  Lowest({s \in S : \A t \in S : senders[t].lastMs <= senders[s].lastMs})

MergeMax(S) == [c \in Channel |-> Highest({At(senders[s].data, c) : s \in S})]

Blends(o) ==
  \/ cfg[o].mergemode = "priority"
  \/ cfg[o].mergemode = "htp" /\ \E s, t \in Top(o) : s # t

Merged(o) ==
  IF Blends(o) THEN MergeMax(Top(o))
               ELSE Padded(senders[NewestOf(Top(o))].data)

-----------------------------------------------------------------------------
Init ==
  /\ cfg \in Configs
  /\ senders = [s \in Slot |-> EmptyEntry]
  /\ live = [o \in Output |-> [sc |-> 0, slots |-> Dark]]
  /\ ms = 0 /\ clock = 0
  /\ step = "idle" /\ pkt = CHOOSE p \in Packets : TRUE
  /\ nowMs = 0 /\ asOf = 0 /\ i = 0 /\ mirrors = {}
  /\ heard = {}
  /\ origin = [o \in Output |-> 0]
  /\ routed = 0 /\ edits = 0

(***************************************************************************)
(* The router.                                                             *)
(***************************************************************************)
\* A handler calls routeFrame or routeFrameNzs: the sender table is updated.
Receive(p) ==
  /\ step = "idle"
  /\ routed < MaxPackets
  /\ senders' = [senders EXCEPT ![SlotFor(p)] = Cached(p)]
  /\ heard' = {h \in heard : Source(h.pkt) # Source(p)}
                \cup {[pkt |-> p, at |-> clock]}
  /\ pkt' = p
  /\ step' = "clock"
  /\ routed' = routed + 1
  /\ UNCHANGED <<cfg, live, ms, nowMs, i, mirrors, clock, asOf, origin, edits>>

\* The router reads the clock once for all outputs.
ReadClock ==
  /\ step = "clock"
  /\ nowMs' = ms /\ asOf' = clock
  /\ i' = 0
  /\ step' = "match"
  /\ UNCHANGED <<cfg, senders, live, ms, pkt, mirrors, clock, heard, origin,
                 routed, edits>>

Matches == cfg[i].en /\ cfg[i].universe = pkt.universe

\* The for loop goes to the next output, or routing is over.
NextOutput ==
  /\ step' = IF i + 1 < Outputs THEN "match" ELSE "idle"
  /\ i' = IF i + 1 < Outputs THEN i + 1 ELSE 0

Skip ==
  /\ step = "match"
  /\ ~Matches
  /\ NextOutput
  /\ UNCHANGED <<cfg, senders, live, ms, pkt, nowMs, mirrors, clock, asOf,
                 heard, origin, routed, edits>>

\* A bracket of its own for the start code.
WriteStartCode ==
  /\ step = "match"
  /\ Matches
  /\ live' = [live EXCEPT ![i].sc = pkt.sc]
  /\ step' = "merge"
  /\ UNCHANGED <<cfg, senders, ms, pkt, nowMs, i, mirrors, clock, asOf,
                 heard, origin, routed, edits>>

\* mergeOutput looks at the configuration again: it may have changed.
MergeDisabled ==
  /\ step = "merge"
  /\ ~cfg[i].en
  /\ step' = "mask"
  /\ UNCHANGED <<cfg, senders, live, ms, pkt, nowMs, i, mirrors, clock, asOf,
                 heard, origin, routed, edits>>

\* applyLossMode: scene recall is a stub, so only LOSS_ZERO writes.
MergeNobody ==
  /\ step = "merge"
  /\ cfg[i].en
  /\ Contributors(i) = {}
  /\ IF cfg[i].losemode = "zero"
       THEN /\ live' = [live EXCEPT ![i].slots = Dark]
            /\ origin' = [origin EXCEPT ![i] = 0]
       ELSE UNCHANGED <<live, origin>>
  /\ step' = "mask"
  /\ UNCHANGED <<cfg, senders, ms, pkt, nowMs, i, mirrors, clock, asOf,
                 heard, routed, edits>>

MergeCommit ==
  /\ step = "merge"
  /\ cfg[i].en
  /\ Contributors(i) # {}
  /\ live' = [live EXCEPT ![i].slots = Merged(i)]
  /\ origin' = [origin EXCEPT ![i] = pkt.sc]
  /\ step' = "mask"
  /\ UNCHANGED <<cfg, senders, ms, pkt, nowMs, i, mirrors, clock, asOf,
                 heard, routed, edits>>

\* mirrorSplit reads the mask once and never mirrors an output to itself.
ReadMask ==
  /\ step = "mask"
  /\ mirrors' = cfg[i].split \ {i}
  /\ step' = "mirror"
  /\ UNCHANGED <<cfg, senders, live, ms, pkt, nowMs, i, clock, asOf, heard,
                 origin, routed, edits>>

\* The verbatim frame goes to the next enabled output of the mask.
MirrorSplit ==
  /\ step = "mirror"
  /\ mirrors # {}
  /\ LET j == Lowest(mirrors)
     IN /\ IF cfg[j].en
             THEN /\ live' = [live EXCEPT ![j] = [sc |-> pkt.sc,
                                                  slots |-> Padded(pkt.data)]]
                  /\ origin' = [origin EXCEPT ![j] = pkt.sc]
             ELSE UNCHANGED <<live, origin>>
        /\ mirrors' = mirrors \ {j}
  /\ UNCHANGED <<cfg, senders, ms, step, pkt, nowMs, i, clock, asOf, heard,
                 routed, edits>>

MirrorDone ==
  /\ step = "mirror"
  /\ mirrors = {}
  /\ NextOutput
  /\ UNCHANGED <<cfg, senders, live, ms, pkt, nowMs, mirrors, clock, asOf,
                 heard, origin, routed, edits>>

\* The steps of a call that has started.
Routing ==
  \/ ReadClock \/ Skip \/ WriteStartCode
  \/ MergeDisabled \/ MergeNobody \/ MergeCommit
  \/ ReadMask \/ MirrorSplit \/ MirrorDone

-----------------------------------------------------------------------------
(***************************************************************************)
(* The environment: time, and the "set" command of another task, which     *)
(* changes one field of output A.                                          *)
(***************************************************************************)
Tick ==
  /\ clock < MaxTicks
  /\ clock' = clock + 1
  /\ ms' = IF ms + 1 = ClockMod THEN 0 ELSE ms + 1
  /\ UNCHANGED <<cfg, senders, live, route, heard, origin, routed, edits>>

SetOutputValue ==
  /\ edits < MaxEdits
  /\ \E c \in Settings :
       /\ \E f \in DOMAIN c : \A g \in DOMAIN c \ {f} : c[g] = cfg[0][g]
       /\ cfg' = [cfg EXCEPT ![0] = c]
  /\ edits' = edits + 1
  /\ UNCHANGED <<senders, live, ms, route, clock, heard, origin, routed>>

Next ==
  \/ \E p \in Packets : Receive(p)
  \/ Routing
  \/ Tick
  \/ SetOutputValue

Spec == Init /\ [][Next]_vars

\* The network task finishes the packet it routes, and time passes.
FairSpec == Spec /\ WF_vars(Routing) /\ WF_vars(Tick)

-----------------------------------------------------------------------------
(***************************************************************************)
(* Correctness.                                                            *)
(***************************************************************************)
\* The types of all variables.
TypeOK ==
  /\ cfg \in [Output -> OutputConfig]
  /\ senders \in [Slot -> Entry]
  /\ live \in [Output -> [sc : Nat, slots : [Channel -> Level]]]
  /\ ms \in 0..ClockMod-1 /\ nowMs \in 0..ClockMod-1
  /\ clock \in 0..MaxTicks /\ asOf \in 0..MaxTicks
  /\ step \in {"idle", "clock", "match", "merge", "mask", "mirror"}
  /\ pkt \in Packets
  /\ i \in Output /\ mirrors \in SUBSET Output
  /\ heard \in SUBSET [pkt : Packets, at : 0..MaxTicks]
  /\ origin \in [Output -> Nat]
  /\ routed \in 0..MaxPackets /\ edits \in 0..MaxEdits

\* No source occupies two slots of the sender table (updateSender's tier 1):
\* otherwise its levels would outlive its newer frames in every merge.
SenderKeysUnique ==
  \A s, t \in Slot :
    senders[s].ip # NoIp /\ Key(senders[s]) = Key(senders[t]) => s = t

\* The packet of h is what slot s caches.
Caches(s, h) ==
  /\ Key(senders[s]) = Source(h.pkt)
  /\ senders[s].universe = h.pkt.universe
  /\ senders[s].priority = h.pkt.priority
  /\ senders[s].data = h.pkt.data

\* An occupied slot caches the last packet its source sent, never an older
\* one and never parts of two (updateSender writes every field).
CacheIsLastPacket ==
  \A s \in Slot : senders[s].ip # NoIp =>
    \E h \in heard : Caches(s, h)
                     /\ \A g \in heard : Source(g.pkt) = Source(h.pkt) => g = h

\* The sources heard within output o's failsafe window that have a slot.
Recent(o) ==
  {h \in heard : /\ h.pkt.universe = cfg[o].universe
                 /\ asOf - h.at < cfg[o].failsafe
                 /\ \E s \in Slot : Key(senders[s]) = Source(h.pkt)}

\* slots is what output o owes the sources heard: the maximum of, or the most
\* recent among, the last packets of the sources of highest priority.
FollowsSources(o, slots) ==
  LET top == {h \in Recent(o) :
                \A g \in Recent(o) : g.pkt.priority <= h.pkt.priority}
  IN IF cfg[o].mergemode \in {"htp", "priority"}
       THEN \A c \in Channel :
              /\ \E h \in top : slots[c] = At(h.pkt.data, c)
              /\ \A h \in top : At(h.pkt.data, c) <= slots[c]
       ELSE \E h \in top : /\ \A g \in top : g.at <= h.at
                           /\ slots = Padded(h.pkt.data)

\* A merge writes exactly the blend its mode promises of the sources heard
\* within the failsafe window, judged by real time and the packets sent, not
\* by the table; with no such source it applies the loss mode (mergeOutput).
MergeFollowsSources ==
  [][step = "merge" /\ step' = "mask" /\ cfg[i].en =>
       IF Recent(i) # {} THEN FollowsSources(i, live'[i].slots)
       ELSE live'[i].slots = IF cfg[i].losemode = "zero"
                               THEN Dark ELSE live[i].slots]_vars

HasSlot(k) == \E s \in Slot : Key(senders[s]) = k

\* A source loses its slot only to a new source, only when the table is full,
\* and only if no output listens to its universe or else every source that
\* keeps a slot is listened to and was heard no earlier (tiers 2, 3 and 4).
EvictionSparesActive ==
  [][\A h \in heard :
       HasSlot(Source(h.pkt)) /\ ~HasSlot(Source(h.pkt))' =>
         /\ \A s \in Slot : senders[s].ip # NoIp
         /\ \/ ~UniverseMapped(h.pkt.universe)
            \/ \A g \in heard : HasSlot(Source(g.pkt)) =>
                 UniverseMapped(g.pkt.universe) /\ h.at <= g.at]_vars

\* Every packet heard was heard before now, and before the clock reading of
\* the call that routes.
HeardInPast ==
  \A h \in heard :
    /\ h.at <= clock
    /\ step \in {"match", "merge", "mask", "mirror"} => h.at <= asOf

\* While the millisecond word has not wrapped, time stamps are real times.
StampsAreTimes ==
  MaxTicks < ClockMod =>
    /\ ms = clock /\ nowMs = asOf
    /\ \A s \in Slot, h \in heard :
         Key(senders[s]) = Source(h.pkt) => senders[s].lastMs = h.at

\* The inductive invariant of the sender table.
IInv ==
  /\ TypeOK
  /\ SenderKeysUnique
  /\ CacheIsLastPacket
  /\ HeardInPast
  /\ StampsAreTimes

\* The start code a reader sees belongs to the channels it sees: "the writer
\* calls dmxBufWriteBegin(i), writes the start code to data[0] and up to 512
\* slot bytes to data[1..512], then calls dmxBufWriteEnd(i)" (03-dmx-buffer-
\* spec.md, 4.1).  The code uses two brackets.
StartCodeMatchesSlots == \A o \in Output : live[o].sc = origin[o]

\* An enabled output in LOSS_ZERO mode whose sources have all fallen silent
\* goes dark (04-merge-engine-spec.md, 4: a task-driven timed merge calls
\* mergeOutput once a sender has exceeded the failsafe timeout).
Silent(o) ==
  /\ cfg[o].en /\ cfg[o].losemode = "zero"
  /\ \A h \in heard : h.pkt.universe = cfg[o].universe =>
                        clock - h.at >= cfg[o].failsafe

LossModeApplied ==
  \A o \in Output : Silent(o) ~> (live[o].slots = Dark \/ ~Silent(o))

=============================================================================
