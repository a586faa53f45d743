-------------------------- MODULE DmxRouterProofs --------------------------
(***************************************************************************)
(* Theorems about DmxRouter, for any number of outputs, table slots,       *)
(* channels, sources and packets.                                          *)
(***************************************************************************)
EXTENDS DmxRouter, WellFoundedInduction, TLAPS

-----------------------------------------------------------------------------
(***************************************************************************)
(* Least and greatest elements: the loops that search the table and the    *)
(* levels always find one.                                                 *)
(***************************************************************************)
NatLess == {r \in Nat \X Nat : r[1] < r[2]}

\* Every nonempty set of naturals has a least element, and Lowest is it.
LEMMA LowestIsLeast ==
  ASSUME NEW S \in SUBSET Nat, S # {}
  PROVE  Lowest(S) \in S /\ \A y \in S : Lowest(S) <= y
<1>1. IsWellFoundedOn(NatLess, Nat)
  BY NatLessThanWellFounded DEF OpToRel, NatLess
<1>2. PICK x \in S : \A y \in S : ~ (<<y, x>> \in NatLess)
  BY <1>1, WFMin
<1>3. ASSUME NEW y \in S PROVE x <= y
  <2>1. ~ (<<y, x>> \in NatLess)
    BY <1>2
  <2>2. x \in Nat /\ y \in Nat
    OBVIOUS
  <2>3. <<y, x>> \in Nat \X Nat /\ <<y, x>>[1] = y /\ <<y, x>>[2] = x
    BY <2>2
  <2>4. ~ (y < x)
    BY <2>1, <2>3 DEF NatLess
  <2> QED
    BY <2>2, <2>4
<1> QED
  BY <1>3 DEF Lowest

\* Every nonempty bounded set of naturals has a greatest element, and Highest
\* is it.
LEMMA HighestIsGreatest ==
  ASSUME NEW N \in Nat, NEW S \in SUBSET (0..N), S # {}
  PROVE  Highest(S) \in S /\ \A y \in S : y <= Highest(S)
<1> DEFINE Rest == {N - x : x \in S}
<1>1. Rest \in SUBSET Nat
  OBVIOUS
<1>2. PICK z \in S : TRUE
  OBVIOUS
<1>3. N - z \in Rest
  BY <1>2
<1>4. Lowest(Rest) \in Rest /\ \A y \in Rest : Lowest(Rest) <= y
  <2> HIDE DEF Rest
  <2> QED BY <1>1, <1>3, LowestIsLeast
<1>5. PICK m \in S : Lowest(Rest) = N - m
  BY <1>4
<1>6. ASSUME NEW y \in S PROVE y <= m
  <2>1. N - y \in Rest
    OBVIOUS
  <2>2. N - m <= N - y
    BY <1>4, <1>5, <2>1
  <2> QED
    BY <2>2
<1> QED
  BY <1>6 DEF Highest
-----------------------------------------------------------------------------
(***************************************************************************)
(* Types.                                                                  *)
(***************************************************************************)
\* A channel of cached data, padding included, is a level.
LEMMA PaddedIsFrame ==
  ASSUME NEW d \in Seq(Level)
  PROVE  /\ \A c \in Channel : At(d, c) \in Level
         /\ Padded(d) \in [Channel -> Level]
<1>1. 0 \in Level /\ Channel \subseteq Nat \ {0}
  BY RouterAssumption DEF Level, Channel
<1>2. ASSUME NEW c \in Channel PROVE At(d, c) \in Level
  <2>1. CASE c <= Len(d)
    <3>1. c \in 1..Len(d)
      BY <1>1, <2>1
    <3> QED
      BY <2>1, <3>1 DEF At
  <2>2. CASE ~ (c <= Len(d))
    BY <1>1, <2>2 DEF At
  <2> QED
    BY <2>1, <2>2
<1> QED
  BY <1>2 DEF Padded

\* updateSender always finds a slot, and the tier it finds it in.
LEMMA SlotForTiers ==
  ASSUME TypeOK, NEW p \in Packets
  PROVE  /\ SlotFor(p) \in Slot
         /\ Matching(p) # {} => SlotFor(p) \in Matching(p)
         /\ Matching(p) = {} /\ Empty # {} => SlotFor(p) \in Empty
         /\ Matching(p) = {} /\ Empty = {} /\ Unmapped # {} =>
              SlotFor(p) \in Unmapped
         /\ Matching(p) = {} /\ Empty = {} /\ Unmapped = {} =>
              SlotFor(p) \in Oldest
<1>1. Slot \subseteq Nat /\ 1 \in Slot
  BY RouterAssumption DEF Slot
<1>2. Oldest # {}
  <2> DEFINE Times == {senders[s].lastMs : s \in Slot}
  <2>1. \A s \in Slot : senders[s].lastMs \in Nat
    BY RouterAssumption DEF TypeOK, Entry
  <2>2. Times \in SUBSET Nat
    BY <2>1
  <2>3. senders[1].lastMs \in Times
    BY <1>1
  <2>4. Lowest(Times) \in Times /\ \A t \in Times : Lowest(Times) <= t
    <3> HIDE DEF Times
    <3> QED BY <2>2, <2>3, LowestIsLeast
  <2>5. PICK s \in Slot : Lowest(Times) = senders[s].lastMs
    BY <2>4
  <2>6. \A t \in Slot : senders[s].lastMs <= senders[t].lastMs
    BY <2>4, <2>5
  <2> QED
    BY <2>6 DEF Oldest
<1>3. /\ Matching(p) \in SUBSET Nat /\ Matching(p) \subseteq Slot
      /\ Empty \in SUBSET Nat /\ Empty \subseteq Slot
      /\ Unmapped \in SUBSET Nat /\ Unmapped \subseteq Slot
      /\ Oldest \in SUBSET Nat /\ Oldest \subseteq Slot
  BY <1>1 DEF Matching, Empty, Unmapped, Oldest
<1>4. Matching(p) # {} => Lowest(Matching(p)) \in Matching(p)
  BY <1>3, LowestIsLeast
<1>5. Empty # {} => Lowest(Empty) \in Empty
  BY <1>3, LowestIsLeast
<1>6. Unmapped # {} => Lowest(Unmapped) \in Unmapped
  BY <1>3, LowestIsLeast
<1>7. Lowest(Oldest) \in Oldest
  BY <1>2, <1>3, LowestIsLeast
<1> QED
  BY <1>3, <1>4, <1>5, <1>6, <1>7 DEF SlotFor

\* The new entry of updateSender and its key.
LEMMA CachedIsEntry ==
  ASSUME TypeOK, NEW p \in Packets
  PROVE  /\ Cached(p) \in Entry
         /\ Cached(p).ip # NoIp
         /\ Key(Cached(p)) = Source(p)
         /\ Source(p)[1] \in Ip
<1>1. p \in Packet
  BY RouterAssumption
<1>2. CacheProto(p) \in Proto
  BY <1>1 DEF CacheProto, Packet, Proto
<1>3. p.ip # NoIp
  BY <1>1, RouterAssumption DEF Packet
<1> QED
  BY <1>1, <1>2, <1>3 DEF Cached, Entry, Packet, Key, Source, TypeOK


\* A nonempty set of slots has a slot where a bounded field is greatest.
LEMMA SlotWithGreatest ==
  ASSUME NEW S \in SUBSET Slot, S # {}, NEW N \in Nat,
         NEW f, \A s \in S : f[s] \in 0..N
  PROVE  \E s \in S : \A t \in S : f[t] <= f[s]
<1> DEFINE Values == {f[s] : s \in S}
<1>1. Values \in SUBSET (0..N) /\ Values # {}
  OBVIOUS
<1>2. Highest(Values) \in Values /\ \A v \in Values : v <= Highest(Values)
  <2> HIDE DEF Values
  <2> QED BY <1>1, HighestIsGreatest
<1>3. PICK s \in S : f[s] = Highest(Values)
  BY <1>2
<1>4. \A t \in S : f[t] <= f[s]
  BY <1>2, <1>3
<1> QED
  BY <1>4

\* Where there are contributors, some have the highest priority.
LEMMA TopNonempty ==
  ASSUME TypeOK, NEW o \in Output, Contributors(o) # {}
  PROVE  Top(o) # {} /\ Top(o) \subseteq Contributors(o)
<1> DEFINE f == [s \in Slot |-> senders[s].priority]
<1>1. Contributors(o) \in SUBSET Slot
  BY DEF Contributors
<1>2. 255 \in Nat /\ \A s \in Contributors(o) : f[s] \in 0..255
  BY <1>1 DEF TypeOK, Entry, Priority
<1>3. \E s \in Contributors(o) : \A t \in Contributors(o) : f[t] <= f[s]
  <2> HIDE DEF f
  <2> DEFINE C == Contributors(o)
  <2>1. C \in SUBSET Slot /\ C # {} /\ \A s \in C : f[s] \in 0..255
    BY <1>1, <1>2
  <2> HIDE DEF C
  <2>2. \E s \in C : \A t \in C : f[t] <= f[s]
    BY <1>2, <2>1, SlotWithGreatest
  <2> QED
    BY <2>2 DEF C
<1> QED
  BY <1>1, <1>3 DEF Top

\* Among any slots there is a first most recently heard one.
LEMMA NewestIsNewest ==
  ASSUME TypeOK, NEW S \in SUBSET Slot, S # {}
  PROVE  /\ NewestOf(S) \in S
         /\ \A t \in S : senders[t].lastMs <= senders[NewestOf(S)].lastMs
<1> DEFINE f == [s \in Slot |-> senders[s].lastMs]
           T == {s \in S : \A t \in S : senders[t].lastMs <= senders[s].lastMs}
<1>1. ClockMod - 1 \in Nat /\ \A s \in Slot : f[s] \in 0..ClockMod-1
  BY RouterAssumption DEF TypeOK, Entry
<1>2. \E s \in S : \A t \in S : f[t] <= f[s]
  <2> HIDE DEF f
  <2> QED BY <1>1, SlotWithGreatest
<1>3. T # {} /\ T \in SUBSET Nat
  <2>1. S \in SUBSET Nat
    BY RouterAssumption DEF Slot
  <2>2. \A s \in S : f[s] = senders[s].lastMs
    OBVIOUS
  <2>3. \E s \in S : \A t \in S : senders[t].lastMs <= senders[s].lastMs
    BY <1>2, <2>2
  <2> QED
    BY <2>1, <2>3
<1>4. Lowest(T) \in T
  <2> HIDE DEF T
  <2> QED BY <1>3, LowestIsLeast
<1> QED
  BY <1>4 DEF NewestOf

\* Channel by channel the blend is the greatest of the cached levels.
LEMMA MergeMaxIsGreatest ==
  ASSUME TypeOK, NEW S \in SUBSET Slot, S # {}, NEW c \in Channel
  PROVE  /\ MergeMax(S)[c] \in Level
         /\ \E s \in S : MergeMax(S)[c] = At(senders[s].data, c)
         /\ \A s \in S : At(senders[s].data, c) <= MergeMax(S)[c]
<1> DEFINE L == {At(senders[s].data, c) : s \in S}
<1>1. \A s \in S : At(senders[s].data, c) \in Level
  BY PaddedIsFrame DEF TypeOK, Entry
<1>2. L \in SUBSET (0..MaxLevel) /\ L # {} /\ MaxLevel \in Nat
  BY <1>1, RouterAssumption DEF Level
<1>3. Highest(L) \in L /\ \A y \in L : y <= Highest(L)
  <2> HIDE DEF L
  <2> QED BY <1>2, HighestIsGreatest
<1>4. MergeMax(S)[c] = Highest(L)
  BY DEF MergeMax
<1> QED
  BY <1>1, <1>3, <1>4

\* The merged frame of an output with a contributor is a frame of levels.
LEMMA MergedIsFrame ==
  ASSUME TypeOK, NEW o \in Output, Contributors(o) # {}
  PROVE  Merged(o) \in [Channel -> Level]
<1>1. Top(o) # {} /\ Top(o) \in SUBSET Slot
  BY TopNonempty DEF Contributors
<1>2. MergeMax(Top(o)) \in [Channel -> Level]
  <2>1. \A c \in Channel : MergeMax(Top(o))[c] \in Level
    BY <1>1, MergeMaxIsGreatest
  <2> QED
    BY <2>1 DEF MergeMax
<1>3. Padded(senders[NewestOf(Top(o))].data) \in [Channel -> Level]
  <2>1. NewestOf(Top(o)) \in Slot
    BY <1>1, NewestIsNewest
  <2>2. senders[NewestOf(Top(o))].data \in Seq(Level)
    BY <2>1 DEF TypeOK, Entry
  <2> QED
    BY <2>2, PaddedIsFrame
<1> QED
  BY <1>2, <1>3 DEF Merged

-----------------------------------------------------------------------------
(***************************************************************************)
(* The inductive invariant.                                                *)
(***************************************************************************)
\* All outputs start dark and enabled as configured, with an empty table.
LEMMA InitInv == Init => IInv
<1> SUFFICES ASSUME Init PROVE IInv
  OBVIOUS
<1>1. TypeOK
  <2>1. EmptyEntry \in Entry
    BY RouterAssumption DEF EmptyEntry, Entry, Proto, Priority
  <2>2. Dark \in [Channel -> Level]
    BY RouterAssumption DEF Dark, Level
  <2>3. pkt \in Packets /\ 0 \in Output
    BY RouterAssumption DEF Init, Output
  <2>4. cfg \in [Output -> OutputConfig]
    BY RouterAssumption DEF Init
  <2> QED
    BY <2>1, <2>2, <2>3, <2>4, RouterAssumption DEF Init, TypeOK
<1>2. \A s \in Slot : senders[s].ip = NoIp
  BY DEF Init, EmptyEntry
<1>3. SenderKeysUnique /\ CacheIsLastPacket
  BY <1>2 DEF SenderKeysUnique, CacheIsLastPacket
<1>4. HeardInPast /\ StampsAreTimes
  BY DEF Init, HeardInPast, StampsAreTimes
<1> QED
  BY <1>1, <1>3, <1>4 DEF IInv

\* Steps that leave the table and the clock alone preserve what is said of
\* them, unless they open the window in which asOf counts.
LEMMA TableUntouched ==
  ASSUME IInv, UNCHANGED <<senders, heard, ms, clock, nowMs, asOf>>,
         \/ step' = "idle"
         \/ step \in {"match", "merge", "mask", "mirror"}
         \/ step' = step
  PROVE  SenderKeysUnique' /\ CacheIsLastPacket' /\ HeardInPast' /\ StampsAreTimes'
<1>1. SenderKeysUnique'
  BY DEF IInv, SenderKeysUnique, Key
<1>2. CacheIsLastPacket'
  BY DEF IInv, CacheIsLastPacket, Caches, Key
<1>3. HeardInPast'
  BY DEF IInv, HeardInPast
<1>4. StampsAreTimes'
  BY DEF IInv, StampsAreTimes, Key
<1> QED
  BY <1>1, <1>2, <1>3, <1>4

\* A new packet takes the slot of its source if there is one.
LEMMA ReceiveInv ==
  ASSUME IInv, NEW p \in Packets, Receive(p)
  PROVE  IInv'
<1> DEFINE n == SlotFor(p)
           h0 == [pkt |-> p, at |-> clock]
<1>1. n \in Slot /\ (Matching(p) # {} => n \in Matching(p))
  BY SlotForTiers DEF IInv
<1>2. /\ Cached(p) \in Entry /\ Cached(p).ip # NoIp
      /\ Key(Cached(p)) = Source(p)
  BY CachedIsEntry DEF IInv
<1>3. senders \in [Slot -> Entry] /\ clock \in 0..MaxTicks
  BY DEF IInv, TypeOK
<1>4. /\ senders' = [senders EXCEPT ![n] = Cached(p)]
      /\ heard' = {h \in heard : Source(h.pkt) # Source(p)} \cup {h0}
      /\ step' = "clock"
      /\ UNCHANGED <<ms, clock, nowMs, asOf>>
  BY DEF Receive
<1> HIDE DEF n
<1>5. senders'[n] = Cached(p) /\ \A s \in Slot \ {n} : senders'[s] = senders[s]
  BY <1>1, <1>3, <1>4
<1>6. \A s \in Slot \ {n} : Key(senders[s]) # Source(p)
  <2> SUFFICES ASSUME NEW s \in Slot \ {n}, Key(senders[s]) = Source(p)
               PROVE  FALSE
    OBVIOUS
  <2>1. s \in Matching(p) /\ Key(senders[n]) = Source(p)
    BY <1>1 DEF Matching
  <2>2. senders[s].ip # NoIp
    BY <2>1, <1>2, CachedIsEntry, RouterAssumption DEF Key, IInv
  <2> QED
    BY <1>1, <2>1, <2>2 DEF IInv, SenderKeysUnique
<1>7. TypeOK'
  <2>1. senders' \in [Slot -> Entry]
    BY <1>1, <1>2, <1>3, <1>4
  <2>2. h0 \in [pkt : Packets, at : 0..MaxTicks]
    BY <1>3
  <2>3. heard' \in SUBSET [pkt : Packets, at : 0..MaxTicks]
    BY <1>4, <2>2 DEF IInv, TypeOK
  <2>4. routed' \in 0..MaxPackets
    BY RouterAssumption DEF IInv, TypeOK, Receive
  <2> QED
    BY <2>1, <2>3, <2>4 DEF IInv, TypeOK, Receive
<1>8. SenderKeysUnique'
  BY <1>1, <1>2, <1>5, <1>6 DEF IInv, SenderKeysUnique, Key
<1>9. CacheIsLastPacket'
  <2> SUFFICES ASSUME NEW s \in Slot, senders'[s].ip # NoIp
               PROVE  \E h \in heard' :
                        /\ Caches(s, h)'
                        /\ \A g \in heard' :
                             Source(g.pkt) = Source(h.pkt) => g = h
    BY DEF CacheIsLastPacket
  <2>1. CASE s = n
    <3>1. Caches(s, h0)'
      BY <1>2, <1>5, <2>1 DEF Caches, Cached, Key
    <3>2. \A g \in heard' : Source(g.pkt) = Source(h0.pkt) => g = h0
      BY <1>4
    <3> QED
      BY <1>4, <3>1, <3>2
  <2>2. CASE s # n
    <3>1. senders'[s] = senders[s] /\ Key(senders[s]) # Source(p)
      BY <1>5, <1>6, <2>2
    <3>2. PICK h \in heard :
            /\ Caches(s, h)
            /\ \A g \in heard : Source(g.pkt) = Source(h.pkt) => g = h
      BY <3>1 DEF IInv, CacheIsLastPacket
    <3>3. h \in heard' /\ Source(h.pkt) # Source(p)
      BY <1>4, <3>1, <3>2 DEF Caches
    <3>4. Caches(s, h)'
      BY <3>1, <3>2 DEF Caches, Key
    <3>5. \A g \in heard' : Source(g.pkt) = Source(h.pkt) => g = h
      BY <1>4, <3>2, <3>3
    <3> QED
      BY <3>3, <3>4, <3>5
  <2> QED
    BY <2>1, <2>2
<1>10. HeardInPast'
  BY <1>3, <1>4 DEF IInv, HeardInPast
<1>11. StampsAreTimes'
  <2> SUFFICES ASSUME MaxTicks < ClockMod,
                      NEW s \in Slot, NEW h \in heard',
                      Key(senders'[s]) = Source(h.pkt)
               PROVE  senders'[s].lastMs = h.at
    BY <1>4 DEF StampsAreTimes, IInv, Key
  <2>0. ms = clock
    BY DEF IInv, StampsAreTimes
  <2>1. CASE s = n
    BY <1>2, <1>4, <1>5, <2>0, <2>1 DEF Cached
  <2>2. CASE s # n
    BY <1>4, <1>5, <1>6, <2>2 DEF IInv, StampsAreTimes
  <2> QED
    BY <2>1, <2>2
<1> QED
  BY <1>7, <1>8, <1>9, <1>10, <1>11 DEF IInv

\* The router's loop variable stays an output.
LEMMA NextOutputType ==
  ASSUME TypeOK, NextOutput
  PROVE  /\ i' \in Output
         /\ step' \in {"match", "idle"}
BY RouterAssumption DEF TypeOK, NextOutput, Output

\* The steps of routing that write no live buffer.
LEMMA QuietStepInv ==
  ASSUME IInv, ReadClock \/ Skip \/ MergeDisabled \/ ReadMask \/ MirrorDone
  PROVE  IInv'
<1>1. CASE ReadClock
  <2>1. TypeOK'
    BY <1>1, RouterAssumption DEF IInv, TypeOK, ReadClock, Output
  <2>2. SenderKeysUnique' /\ CacheIsLastPacket'
    BY <1>1 DEF IInv, ReadClock, SenderKeysUnique, CacheIsLastPacket, Caches, Key
  <2>3. HeardInPast' /\ StampsAreTimes'
    BY <1>1 DEF IInv, ReadClock, HeardInPast, StampsAreTimes, Key
  <2> QED
    BY <2>1, <2>2, <2>3 DEF IInv
<1>2. CASE Skip
  <2>1. TypeOK'
    BY <1>2, NextOutputType DEF IInv, TypeOK, Skip
  <2> QED
    BY <1>2, <2>1, TableUntouched DEF IInv, Skip
<1>3. CASE MergeDisabled
  <2>1. TypeOK'
    BY <1>3 DEF IInv, TypeOK, MergeDisabled
  <2> QED
    BY <1>3, <2>1, TableUntouched DEF IInv, MergeDisabled
<1>4. CASE ReadMask
  <2>1. cfg[i].split \in SUBSET Output
    BY DEF IInv, TypeOK, OutputConfig
  <2>2. TypeOK'
    BY <1>4, <2>1 DEF IInv, TypeOK, ReadMask
  <2> QED
    BY <1>4, <2>2, TableUntouched DEF IInv, ReadMask
<1>5. CASE MirrorDone
  <2>1. TypeOK'
    BY <1>5, NextOutputType DEF IInv, TypeOK, MirrorDone
  <2> QED
    BY <1>5, <2>1, TableUntouched DEF IInv, MirrorDone
<1> QED
  BY <1>1, <1>2, <1>3, <1>4, <1>5

\* The steps that write a live buffer.
LEMMA WriteStepInv ==
  ASSUME IInv, WriteStartCode \/ MergeNobody \/ MergeCommit \/ MirrorSplit
  PROVE  IInv'
<1>1. pkt \in Packet /\ pkt.sc \in Nat /\ pkt.data \in Seq(Level)
  BY RouterAssumption DEF IInv, TypeOK, Packet
<1>2. live \in [Output -> [sc : Nat, slots : [Channel -> Level]]] /\ i \in Output
  BY DEF IInv, TypeOK
<1>3. CASE WriteStartCode
  <2>1. live' \in [Output -> [sc : Nat, slots : [Channel -> Level]]]
    BY <1>1, <1>2, <1>3 DEF WriteStartCode
  <2>2. TypeOK'
    BY <1>3, <2>1 DEF IInv, TypeOK, WriteStartCode
  <2> QED
    BY <1>3, <2>2, TableUntouched DEF IInv, WriteStartCode
<1>4. CASE MergeNobody
  <2>1. Dark \in [Channel -> Level]
    BY RouterAssumption DEF Dark, Level
  <2>2. /\ live' \in [Output -> [sc : Nat, slots : [Channel -> Level]]]
        /\ origin' \in [Output -> Nat]
    BY <1>2, <1>4, <2>1 DEF MergeNobody, IInv, TypeOK
  <2>3. TypeOK'
    BY <1>4, <2>2 DEF IInv, TypeOK, MergeNobody
  <2> QED
    BY <1>4, <2>3, TableUntouched DEF IInv, MergeNobody
<1>5. CASE MergeCommit
  <2>1. Merged(i) \in [Channel -> Level]
    BY <1>2, <1>5, MergedIsFrame DEF MergeCommit, IInv
  <2>2. /\ live' \in [Output -> [sc : Nat, slots : [Channel -> Level]]]
        /\ origin' \in [Output -> Nat]
    BY <1>1, <1>2, <1>5, <2>1 DEF MergeCommit, IInv, TypeOK
  <2>3. TypeOK'
    BY <1>5, <2>2 DEF IInv, TypeOK, MergeCommit
  <2> QED
    BY <1>5, <2>3, TableUntouched DEF IInv, MergeCommit
<1>6. CASE MirrorSplit
  <2>1. Padded(pkt.data) \in [Channel -> Level]
    BY <1>1, PaddedIsFrame
  <2>2. mirrors \in SUBSET Nat /\ mirrors # {} /\ mirrors \subseteq Output
    BY <1>6, RouterAssumption DEF IInv, TypeOK, MirrorSplit, Output
  <2>3. Lowest(mirrors) \in Output
    BY <2>2, LowestIsLeast
  <2>4. /\ live' \in [Output -> [sc : Nat, slots : [Channel -> Level]]]
        /\ origin' \in [Output -> Nat]
    <3> DEFINE j == Lowest(mirrors)
               f == [sc |-> pkt.sc, slots |-> Padded(pkt.data)]
    <3>1. f \in [sc : Nat, slots : [Channel -> Level]]
      BY <1>1, <2>1
    <3>2. j \in Output /\ origin \in [Output -> Nat]
      BY <2>3 DEF IInv, TypeOK
    <3>3. \/ live' = [live EXCEPT ![j] = f] /\ origin' = [origin EXCEPT ![j] = pkt.sc]
          \/ UNCHANGED <<live, origin>>
      BY <1>6 DEF MirrorSplit
    <3> HIDE DEF j, f
    <3> QED
      BY <1>1, <1>2, <3>1, <3>2, <3>3
  <2>5. TypeOK'
    BY <1>6, <2>2, <2>4 DEF IInv, TypeOK, MirrorSplit
  <2> QED
    BY <1>6, <2>5, TableUntouched DEF IInv, MirrorSplit
<1> QED
  BY <1>3, <1>4, <1>5, <1>6

\* Time passes, or another task changes output A.
LEMMA EnvironmentInv ==
  ASSUME IInv, Tick \/ SetOutputValue
  PROVE  IInv'
<1>1. CASE Tick
  <2>1. TypeOK'
    BY <1>1, RouterAssumption DEF IInv, TypeOK, Tick, route
  <2>2. SenderKeysUnique' /\ CacheIsLastPacket'
    BY <1>1 DEF IInv, Tick, route, SenderKeysUnique, CacheIsLastPacket, Caches, Key
  <2>3. \A h \in heard : h.at <= clock + 1
    BY DEF IInv, HeardInPast, TypeOK
  <2>4. HeardInPast'
    BY <1>1, <2>3 DEF IInv, Tick, route, HeardInPast
  <2>5. StampsAreTimes'
    <3> SUFFICES ASSUME MaxTicks < ClockMod
                 PROVE  /\ ms' = clock' /\ nowMs' = asOf'
                        /\ \A s \in Slot, h \in heard' :
                             Key(senders'[s]) = Source(h.pkt) =>
                               senders'[s].lastMs = h.at
      BY DEF StampsAreTimes, Key
    <3>1. ms = clock /\ nowMs = asOf /\ clock < MaxTicks /\ clock \in Nat
      BY <1>1, RouterAssumption DEF IInv, StampsAreTimes, Tick, TypeOK
    <3>2. ms + 1 # ClockMod
      BY <3>1, RouterAssumption
    <3> QED
      BY <1>1, <3>1, <3>2 DEF Tick, route, IInv, StampsAreTimes
  <2> QED
    BY <2>1, <2>2, <2>4, <2>5 DEF IInv
<1>2. CASE SetOutputValue
  <2>1. PICK c \in Settings : cfg' = [cfg EXCEPT ![0] = c]
    BY <1>2 DEF SetOutputValue
  <2>2. c \in OutputConfig
    BY RouterAssumption
  <2>3. cfg' \in [Output -> OutputConfig]
    BY <2>1, <2>2 DEF IInv, TypeOK
  <2>4. edits' \in 0..MaxEdits
    BY <1>2, RouterAssumption DEF IInv, TypeOK, SetOutputValue
  <2>5. TypeOK'
    BY <1>2, <2>3, <2>4 DEF IInv, TypeOK, SetOutputValue, route
  <2> QED
    BY <1>2, <2>5, TableUntouched DEF IInv, SetOutputValue, route
<1> QED
  BY <1>1, <1>2

\* Every step keeps the invariant.
LEMMA StepInv == IInv /\ [Next]_vars => IInv'
<1> SUFFICES ASSUME IInv, [Next]_vars PROVE IInv'
  OBVIOUS
<1>1. CASE \E p \in Packets : Receive(p)
  BY <1>1, ReceiveInv
<1>2. CASE Routing
  BY <1>2, QuietStepInv, WriteStepInv DEF Routing
<1>3. CASE Tick \/ SetOutputValue
  BY <1>3, EnvironmentInv
<1>4. CASE UNCHANGED vars
  <2>1. TypeOK'
    BY <1>4 DEF IInv, TypeOK, vars
  <2> QED
    BY <1>4, <2>1, TableUntouched DEF IInv, vars
<1> QED
  BY <1>1, <1>2, <1>3, <1>4 DEF Next

-----------------------------------------------------------------------------
(***************************************************************************)
(* The theorems.                                                           *)
(***************************************************************************)
\* The inductive invariant holds throughout.
THEOREM InvariantHolds == Spec => []IInv
BY InitInv, StepInv, PTL DEF Spec

\* Every variable keeps its type.
THEOREM TypeCorrect == Spec => []TypeOK
<1>1. IInv => TypeOK
  BY DEF IInv
<1> QED
  BY <1>1, InvariantHolds, PTL

\* updateSender never files one source under two slots.
THEOREM KeysUnique == Spec => []SenderKeysUnique
<1>1. IInv => SenderKeysUnique
  BY DEF IInv
<1> QED
  BY <1>1, InvariantHolds, PTL

\* The table holds, for every source in it, the last packet it sent.
THEOREM CacheIsCurrent == Spec => []CacheIsLastPacket
<1>1. IInv => CacheIsLastPacket
  BY DEF IInv
<1> QED
  BY <1>1, InvariantHolds, PTL

-----------------------------------------------------------------------------
(***************************************************************************)
(* Merging.  The slots that contribute to an output and the sources heard  *)
(* within its failsafe window correspond, as long as the clock word has    *)
(* not wrapped.                                                            *)
(***************************************************************************)
Represents(s, h) == Caches(s, h) /\ senders[s].lastMs = h.at

\* The contributors are the slots of the sources heard within the failsafe
\* window of real time.
LEMMA ContributorsAreRecent ==
  ASSUME IInv, MaxTicks < ClockMod, step = "merge", NEW o \in Output
  PROVE  /\ \A s \in Contributors(o) : \E h \in Recent(o) : Represents(s, h)
         /\ \A h \in Recent(o) : \E s \in Contributors(o) : Represents(s, h)
<1>1. /\ nowMs = asOf /\ asOf \in Nat
      /\ \A h \in heard : h.at \in Nat /\ h.at <= asOf
  BY RouterAssumption DEF IInv, StampsAreTimes, HeardInPast, TypeOK
<1>2. ASSUME NEW s \in Slot, NEW h \in heard, Key(senders[s]) = Source(h.pkt)
      PROVE  /\ senders[s].lastMs = h.at
             /\ Elapsed(nowMs, senders[s].lastMs) = asOf - h.at
  BY <1>1, <1>2 DEF IInv, StampsAreTimes, Elapsed
<1>3. ASSUME NEW s \in Contributors(o)
      PROVE  \E h \in Recent(o) : Represents(s, h)
  <2>1. /\ s \in Slot /\ senders[s].ip # NoIp
        /\ senders[s].universe = cfg[o].universe
        /\ Elapsed(nowMs, senders[s].lastMs) < cfg[o].failsafe
    BY DEF Contributors
  <2>2. PICK h \in heard : Caches(s, h)
    BY <2>1 DEF IInv, CacheIsLastPacket
  <2>3. Key(senders[s]) = Source(h.pkt) /\ senders[s].universe = h.pkt.universe
    BY <2>2 DEF Caches
  <2>4. senders[s].lastMs = h.at /\ asOf - h.at < cfg[o].failsafe
    BY <1>2, <2>1, <2>3
  <2>5. h \in Recent(o)
    BY <2>1, <2>3, <2>4 DEF Recent
  <2> QED
    BY <2>2, <2>4, <2>5 DEF Represents
<1>4. ASSUME NEW h \in Recent(o)
      PROVE  \E s \in Contributors(o) : Represents(s, h)
  <2>1. /\ h \in heard /\ h.pkt.universe = cfg[o].universe
        /\ asOf - h.at < cfg[o].failsafe
    BY DEF Recent
  <2>2. PICK s \in Slot : Key(senders[s]) = Source(h.pkt)
    BY DEF Recent
  <2>3. senders[s].ip # NoIp
    <3>1. h.pkt \in Packets
      BY <2>1 DEF IInv, TypeOK
    <3>2. Source(h.pkt)[1] \in Ip
      BY <3>1, CachedIsEntry DEF IInv
    <3> QED
      BY <2>2, <3>2, RouterAssumption DEF Key
  <2>4. Caches(s, h)
    BY <2>1, <2>2, <2>3 DEF IInv, CacheIsLastPacket, Caches
  <2>5. senders[s].lastMs = h.at
        /\ Elapsed(nowMs, senders[s].lastMs) < cfg[o].failsafe
    BY <1>2, <2>1, <2>2
  <2>6. s \in Contributors(o)
    BY <2>1, <2>3, <2>4, <2>5 DEF Contributors, Caches
  <2> QED
    BY <2>4, <2>5, <2>6 DEF Represents
<1> QED
  BY <1>3, <1>4

RecentTop(o) ==
  {h \in Recent(o) : \A g \in Recent(o) : g.pkt.priority <= h.pkt.priority}

\* The priority filter keeps the same sources on both sides.
LEMMA TopIsRecentTop ==
  ASSUME IInv, MaxTicks < ClockMod, step = "merge", NEW o \in Output
  PROVE  /\ \A s \in Top(o) : \E h \in RecentTop(o) : Represents(s, h)
         /\ \A h \in RecentTop(o) : \E s \in Top(o) : Represents(s, h)
<1>1. /\ \A s \in Contributors(o) : \E h \in Recent(o) : Represents(s, h)
      /\ \A h \in Recent(o) : \E s \in Contributors(o) : Represents(s, h)
  BY ContributorsAreRecent
<1>2. \A s, h : Represents(s, h) => senders[s].priority = h.pkt.priority
  BY DEF Represents, Caches
<1>3. ASSUME NEW s \in Top(o)
      PROVE  \E h \in RecentTop(o) : Represents(s, h)
  <2>1. PICK h \in Recent(o) : Represents(s, h)
    BY <1>1 DEF Top
  <2>2. ASSUME NEW g \in Recent(o) PROVE g.pkt.priority <= h.pkt.priority
    <3>1. PICK t \in Contributors(o) : Represents(t, g)
      BY <1>1
    <3>2. senders[t].priority <= senders[s].priority
      BY DEF Top
    <3> QED
      BY <1>2, <2>1, <3>1, <3>2
  <2> QED
    BY <2>1, <2>2 DEF RecentTop
<1>4. ASSUME NEW h \in RecentTop(o)
      PROVE  \E s \in Top(o) : Represents(s, h)
  <2>1. PICK s \in Contributors(o) : Represents(s, h)
    BY <1>1 DEF RecentTop
  <2>2. ASSUME NEW t \in Contributors(o)
        PROVE  senders[t].priority <= senders[s].priority
    <3>1. PICK g \in Recent(o) : Represents(t, g)
      BY <1>1
    <3>2. g.pkt.priority <= h.pkt.priority
      BY <3>1 DEF RecentTop
    <3> QED
      BY <1>2, <2>1, <3>1, <3>2
  <2> QED
    BY <2>1, <2>2 DEF Top
<1> QED
  BY <1>3, <1>4

\* What mergeOutput computes is what it owes the sources heard.
LEMMA MergedFollows ==
  ASSUME IInv, MaxTicks < ClockMod, step = "merge", NEW o \in Output,
         Contributors(o) # {}
  PROVE  FollowsSources(o, Merged(o))
<1> DEFINE w == NewestOf(Top(o))
<1>1. TypeOK /\ Top(o) # {} /\ Top(o) \in SUBSET Slot
  BY TopNonempty DEF IInv, Contributors
<1>2. /\ \A s \in Top(o) : \E h \in RecentTop(o) : Represents(s, h)
      /\ \A h \in RecentTop(o) : \E s \in Top(o) : Represents(s, h)
  BY TopIsRecentTop
<1>3. \A s, h : Represents(s, h) =>
        senders[s].data = h.pkt.data /\ senders[s].lastMs = h.at
  BY DEF Represents, Caches
<1>4. /\ w \in Top(o)
      /\ \A t \in Top(o) : senders[t].lastMs <= senders[w].lastMs
  BY <1>1, NewestIsNewest
<1> HIDE DEF w
<1>5. ASSUME cfg[o].mergemode \in {"htp", "priority"}, NEW c \in Channel
      PROVE  /\ \E h \in RecentTop(o) : Merged(o)[c] = At(h.pkt.data, c)
             /\ \A h \in RecentTop(o) : At(h.pkt.data, c) <= Merged(o)[c]
  <2>1. /\ \E s \in Top(o) : Merged(o)[c] = At(senders[s].data, c)
        /\ \A s \in Top(o) : At(senders[s].data, c) <= Merged(o)[c]
    <3>1. CASE Blends(o)
      <4>1. Merged(o) = MergeMax(Top(o))
        BY <3>1 DEF Merged
      <4> QED
        BY <1>1, <4>1, MergeMaxIsGreatest
    <3>2. CASE ~Blends(o)
      <4>1. \A s \in Top(o) : s = w
        BY <1>4, <1>5, <3>2 DEF Blends
      <4>2. Merged(o)[c] = At(senders[w].data, c)
        BY <3>2 DEF Merged, Padded, w
      <4>3. At(senders[w].data, c) \in Nat
        BY <1>1, <1>4, PaddedIsFrame, RouterAssumption
        DEF TypeOK, Entry, Level
      <4> QED
        BY <1>4, <4>1, <4>2, <4>3
    <3> QED
      BY <3>1, <3>2
  <2> QED
    BY <1>2, <1>3, <2>1
<1>6. ASSUME cfg[o].mergemode \notin {"htp", "priority"}
      PROVE  \E h \in RecentTop(o) :
               /\ \A g \in RecentTop(o) : g.at <= h.at
               /\ Merged(o) = Padded(h.pkt.data)
  <2>1. Merged(o) = Padded(senders[w].data)
    BY <1>6 DEF Merged, Blends, w
  <2>2. PICK h \in RecentTop(o) : Represents(w, h)
    BY <1>2, <1>4
  <2>3. ASSUME NEW g \in RecentTop(o) PROVE g.at <= h.at
    <3>1. PICK t \in Top(o) : Represents(t, g)
      BY <1>2
    <3> QED
      BY <1>3, <1>4, <2>2, <3>1
  <2> QED
    BY <1>3, <2>1, <2>2, <2>3
<1> QED
  BY <1>5, <1>6 DEF FollowsSources, RecentTop

\* Every step that ends a merge writes what the sources heard ask for.
LEMMA MergeStep ==
  ASSUME IInv, MaxTicks < ClockMod, [Next]_vars,
         step = "merge", step' = "mask", cfg[i].en
  PROVE  IF Recent(i) # {} THEN FollowsSources(i, live'[i].slots)
         ELSE live'[i].slots = IF cfg[i].losemode = "zero"
                                 THEN Dark ELSE live[i].slots
<1>1. i \in Output /\ live \in [Output -> [sc : Nat, slots : [Channel -> Level]]]
  BY DEF IInv, TypeOK
<1>2. Contributors(i) = {} <=> Recent(i) = {}
  BY <1>1, ContributorsAreRecent
<1>3. MergeNobody \/ MergeCommit
  BY DEF Next, Routing, vars, Receive, ReadClock, Skip, WriteStartCode,
         MergeDisabled, ReadMask, MirrorSplit, MirrorDone, Tick,
         SetOutputValue, route
<1>4. CASE MergeNobody
  <2>1. Recent(i) = {}
    BY <1>2, <1>4 DEF MergeNobody
  <2>2. live'[i].slots = IF cfg[i].losemode = "zero" THEN Dark ELSE live[i].slots
    BY <1>1, <1>4 DEF MergeNobody
  <2> QED
    BY <2>1, <2>2
<1>5. CASE MergeCommit
  <2>1. Recent(i) # {} /\ Contributors(i) # {}
    BY <1>2, <1>5 DEF MergeCommit
  <2>2. live'[i].slots = Merged(i)
    BY <1>1, <1>5 DEF MergeCommit
  <2> QED
    BY <1>1, <2>1, <2>2, MergedFollows
<1> QED
  BY <1>3, <1>4, <1>5

\* Until the millisecond word wraps, a merge writes exactly what its mode
\* promises of the sources heard within the failsafe window.
THEOREM MergesFollowSources ==
  ASSUME MaxTicks < ClockMod
  PROVE  Spec => MergeFollowsSources
<1>1. IInv /\ [Next]_vars =>
        [step = "merge" /\ step' = "mask" /\ cfg[i].en =>
           IF Recent(i) # {} THEN FollowsSources(i, live'[i].slots)
           ELSE live'[i].slots = IF cfg[i].losemode = "zero"
                                   THEN Dark ELSE live[i].slots]_vars
  BY MergeStep
<1> QED
  BY <1>1, InvariantHolds, PTL DEF Spec, MergeFollowsSources

-----------------------------------------------------------------------------
(***************************************************************************)
(* Eviction.                                                               *)
(***************************************************************************)
LEMMA EvictionStep ==
  ASSUME IInv, MaxTicks < ClockMod, [Next]_vars, NEW h \in heard,
         HasSlot(Source(h.pkt)), ~HasSlot(Source(h.pkt))'
  PROVE  /\ \A s \in Slot : senders[s].ip # NoIp
         /\ \/ ~UniverseMapped(h.pkt.universe)
            \/ \A g \in heard : HasSlot(Source(g.pkt)) =>
                 UniverseMapped(g.pkt.universe) /\ h.at <= g.at
<1>1. PICK v \in Slot : Key(senders[v]) = Source(h.pkt)
  BY DEF HasSlot
<1>2. senders' # senders
  BY <1>1 DEF HasSlot, Key
<1>3. PICK p \in Packets : Receive(p)
  BY <1>2 DEF Next, Routing, vars, ReadClock, Skip, WriteStartCode,
         MergeDisabled, MergeNobody, MergeCommit, ReadMask, MirrorSplit,
         MirrorDone, Tick, SetOutputValue, route
<1>4. /\ senders' = [senders EXCEPT ![SlotFor(p)] = Cached(p)]
      /\ senders \in [Slot -> Entry]
      /\ h.pkt \in Packets
  BY <1>3 DEF Receive, IInv, TypeOK
<1>5. /\ SlotFor(p) \in Slot
      /\ Matching(p) # {} => SlotFor(p) \in Matching(p)
      /\ Matching(p) = {} /\ Empty # {} => SlotFor(p) \in Empty
      /\ Matching(p) = {} /\ Empty = {} /\ Unmapped # {} =>
           SlotFor(p) \in Unmapped
      /\ Matching(p) = {} /\ Empty = {} /\ Unmapped = {} =>
           SlotFor(p) \in Oldest
  BY SlotForTiers DEF IInv
<1>6. SlotFor(p) = v
  BY <1>1, <1>4 DEF HasSlot, Key
<1>7. senders[v].ip # NoIp
  BY <1>1, <1>4, CachedIsEntry, RouterAssumption DEF Key, IInv
<1>8. Matching(p) = {}
  <2> SUFFICES ASSUME Matching(p) # {} PROVE FALSE
    OBVIOUS
  <2>1. Key(senders[v]) = Source(p)
    BY <1>5, <1>6 DEF Matching
  <2>2. senders'[v] = Cached(p) /\ Key(Cached(p)) = Source(p)
    BY <1>4, <1>5, <1>6, CachedIsEntry DEF IInv
  <2> QED
    BY <1>1, <2>1, <2>2 DEF HasSlot, Key
<1>9. Empty = {}
  BY <1>5, <1>6, <1>7, <1>8 DEF Empty
<1>10. Caches(v, h)
  BY <1>1, <1>7 DEF IInv, CacheIsLastPacket, Caches
<1>11. CASE Unmapped # {}
  BY <1>5, <1>6, <1>8, <1>9, <1>10, <1>11 DEF Unmapped, Caches, Empty
<1>12. CASE Unmapped = {}
  <2>1. \A t \in Slot : senders[v].lastMs <= senders[t].lastMs
    BY <1>5, <1>6, <1>8, <1>9, <1>12 DEF Oldest
  <2>2. ASSUME NEW g \in heard, HasSlot(Source(g.pkt))
        PROVE  UniverseMapped(g.pkt.universe) /\ h.at <= g.at
    <3>1. PICK t \in Slot : Key(senders[t]) = Source(g.pkt)
      BY <2>2 DEF HasSlot
    <3>2. senders[t].ip # NoIp
      BY <1>9 DEF Empty
    <3>3. Caches(t, g)
      BY <3>1, <3>2 DEF IInv, CacheIsLastPacket, Caches
    <3>4. UniverseMapped(senders[t].universe)
      BY <1>12, <3>2 DEF Unmapped
    <3>5. senders[t].lastMs = g.at /\ senders[v].lastMs = h.at
      BY <1>1, <3>1 DEF IInv, StampsAreTimes
    <3> QED
      BY <2>1, <3>3, <3>4, <3>5 DEF Caches
  <2> QED
    BY <1>9, <2>2 DEF Empty
<1> QED
  BY <1>11, <1>12

\* Until the millisecond word wraps, a source loses its slot only if nobody
\* listens to it or every other source in the full table is heard no earlier.
THEOREM EvictionIsFair ==
  ASSUME MaxTicks < ClockMod
  PROVE  Spec => EvictionSparesActive
<1>1. IInv /\ [Next]_vars =>
        [\A h \in heard :
           HasSlot(Source(h.pkt)) /\ ~HasSlot(Source(h.pkt))' =>
             /\ \A s \in Slot : senders[s].ip # NoIp
             /\ \/ ~UniverseMapped(h.pkt.universe)
                \/ \A g \in heard : HasSlot(Source(g.pkt)) =>
                     UniverseMapped(g.pkt.universe) /\ h.at <= g.at]_vars
  BY EvictionStep
<1> QED
  BY <1>1, InvariantHolds, PTL DEF Spec, EvictionSparesActive

=============================================================================
