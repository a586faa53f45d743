----------------------------- MODULE PacketRing -----------------------------
(***************************************************************************)
(* The lock-free packet ring between one producer and one consumer         *)
(* (art_packet_queue.c; sacn_pkt_queue.c is the same code with another     *)
(* capacity).  Each side owns one index and reads the other's; both        *)
(* indices are words that only move forward and wrap.  A packet is copied  *)
(* cell by cell while the other side runs; the barriers keep the copy      *)
(* between the reading and the publication of the indices.                 *)
(***************************************************************************)
EXTENDS Integers, Sequences

CONSTANTS
  Cap,      \* Slots of the ring (32 and 16 in the code).
  Laps,     \* The indices count modulo Laps * Cap (2^32 in the code).
  Cell,     \* The cells of a packet.
  Byte,     \* The values of a cell.
  NoPacket  \* A consumer that has taken nothing; only the refinement uses it.

\* The word of an index holds a whole number of laps of the ring.
ASSUME RingAssumption ==
  /\ Cap \in Nat \ {0}
  /\ Laps \in Nat \ {0, 1}
  /\ 0 \in Byte

IndexMod == Laps * Cap
Index == 0..IndexMod-1
RingPacket == [Cell -> Byte]
Blank == [c \in Cell |-> 0]

ASSUME NoPacketAssumption == NoPacket \notin RingPacket

VARIABLES
  slots,  \* The ring.
  prod,   \* The producer's index.
  cons,   \* The consumer's index.
  ppc,    \* The producer: outside a call, or copying a packet into its slot.
  pkt,    \* The packet it pushes.
  pleft,  \* The cells it has still to copy.
  pret,   \* What its last call returned.
  cpc,    \* The consumer: outside a call, or copying a packet out of its slot.
  got,    \* The caller's packet.
  cleft,  \* The cells it has still to copy.
  cret,   \* What its last call returned.
  told    \* Since its last pop the consumer was told that the ring is not empty.

pvars == <<prod, ppc, pkt, pleft, pret>>
cvars == <<cons, cpc, got, cleft, cret, told>>
ringVars ==
  <<slots, prod, cons, ppc, pkt, pleft, pret, cpc, got, cleft, cret, told>>

\* Unsigned subtraction and addition.
Minus(x, y) == IF y <= x THEN x - y ELSE x - y + IndexMod
Plus(x, n) == IF x + n < IndexMod THEN x + n ELSE x + n - IndexMod
After(x) == Plus(x, 1)

RingInit ==
  /\ slots = [n \in 0..Cap-1 |-> Blank]
  /\ prod = 0 /\ cons = 0
  /\ ppc = "idle" /\ pkt = Blank /\ pleft = {} /\ pret = "none"
  /\ cpc = "idle" /\ got = Blank /\ cleft = {} /\ cret = "none"
  /\ told = FALSE

-----------------------------------------------------------------------------
(***************************************************************************)
(* The producer.  The value it reads of the consumer's index decides; its  *)
(* own does not move meanwhile.                                            *)
(***************************************************************************)
\* Mutant: the ring is taken to have room for one packet more.
RoomForOneMore == Minus(prod, cons) <= Cap

Room == Minus(prod, cons) < Cap

Push(p) ==
  /\ ppc = "idle"
  /\ Room
  /\ ppc' = "copy" /\ pkt' = p /\ pleft' = Cell /\ pret' = "none"
  /\ UNCHANGED <<slots, prod, cvars>>

PushFull ==
  /\ ppc = "idle"
  /\ ~Room
  /\ pret' = "refused"
  /\ UNCHANGED <<slots, prod, ppc, pkt, pleft, cvars>>

CopyIn(c) ==
  /\ ppc = "copy"
  /\ c \in pleft
  /\ slots' = [slots EXCEPT ![prod % Cap] = [@ EXCEPT ![c] = pkt[c]]]
  /\ pleft' = pleft \ {c}
  /\ UNCHANGED <<prod, ppc, pkt, pret, cvars>>

\* Mutant: the index is published before the packet is copied.
PublishEarly ==
  /\ ppc = "copy"
  /\ prod' = After(prod)
  /\ ppc' = "idle" /\ pret' = "stored"
  /\ UNCHANGED <<slots, pkt, pleft, cvars>>

Publish ==
  /\ ppc = "copy"
  /\ pleft = {}
  /\ prod' = After(prod)
  /\ ppc' = "idle" /\ pret' = "stored"
  /\ UNCHANGED <<slots, pkt, pleft, cvars>>

-----------------------------------------------------------------------------
(***************************************************************************)
(* The consumer.                                                           *)
(***************************************************************************)
\* Mutant: the indices are compared as numbers.
SomethingAhead == prod > cons

Something == prod # cons

Pop ==
  /\ cpc = "idle"
  /\ Something
  /\ cpc' = "copy" /\ cleft' = Cell /\ cret' = "none" /\ told' = FALSE
  /\ UNCHANGED <<slots, cons, got, pvars>>

PopEmpty ==
  /\ cpc = "idle"
  /\ ~Something
  /\ cret' = "empty" /\ told' = FALSE
  /\ UNCHANGED <<slots, cons, cpc, got, cleft, pvars>>

CopyOut(c) ==
  /\ cpc = "copy"
  /\ c \in cleft
  /\ got' = [got EXCEPT ![c] = slots[cons % Cap][c]]
  /\ cleft' = cleft \ {c}
  /\ UNCHANGED <<slots, cons, cpc, cret, told, pvars>>

Release ==
  /\ cpc = "copy"
  /\ cleft = {}
  /\ cons' = After(cons)
  /\ cpc' = "idle" /\ cret' = "taken"
  /\ UNCHANGED <<slots, got, cleft, told, pvars>>

\* artPktQueueEmpty.
Ask ==
  /\ cpc = "idle"
  /\ told' = Something
  /\ UNCHANGED <<slots, cons, cpc, got, cleft, cret, pvars>>

-----------------------------------------------------------------------------
Producer ==
  \/ \E p \in RingPacket : Push(p)
  \/ PushFull
  \/ \E c \in Cell : CopyIn(c)
  \/ Publish

Taking ==
  \/ Pop
  \/ \E c \in Cell : CopyOut(c)
  \/ Release

RingNext == Producer \/ Taking \/ PopEmpty \/ Ask

RingSpec == RingInit /\ [][RingNext]_ringVars

\* The consumer drains the ring; the producer owes it nothing.
RingFairSpec == RingSpec /\ WF_ringVars(Taking)

-----------------------------------------------------------------------------
(***************************************************************************)
(* Correctness.                                                            *)
(***************************************************************************)
\* The types of all variables.
RingTypeOK ==
  /\ slots \in [0..Cap-1 -> RingPacket]
  /\ prod \in Index /\ cons \in Index
  /\ ppc \in {"idle", "copy"} /\ pkt \in RingPacket /\ pleft \in SUBSET Cell
  /\ pret \in {"none", "stored", "refused"}
  /\ cpc \in {"idle", "copy"} /\ got \in RingPacket /\ cleft \in SUBSET Cell
  /\ cret \in {"none", "taken", "empty"}
  /\ told \in BOOLEAN

Fill == Minus(prod, cons)

\* Neither side enters a slot the other may be in: the producer fills a slot
\* no packet waits in, the consumer empties one that is published.
SidesApart ==
  /\ Fill <= Cap
  /\ ppc = "copy" => Fill < Cap
  /\ cpc = "copy" => Fill > 0

\* The cells copied so far, into the slot and out of it.
CopyInMatches ==
  ppc = "copy" => \A c \in Cell \ pleft : slots[prod % Cap][c] = pkt[c]
CopyOutMatches ==
  cpc = "copy" => \A c \in Cell \ cleft : got[c] = slots[cons % Cap][c]

\* A call that has not returned has no result yet.
ReturnsPending ==
  /\ ppc = "copy" => pret = "none"
  /\ cpc = "copy" => cret = "none" /\ ~told

\* The inductive invariant: the copies in progress and the slots that wait.
RingIInv ==
  /\ RingTypeOK
  /\ SidesApart
  /\ CopyInMatches
  /\ CopyOutMatches
  /\ ReturnsPending

\* "Not empty" stays true until the consumer itself pops (artPktQueueEmpty
\* reads two indices without a lock, and tests loop on its answer).
AnswerKept == told => Something

\* A packet that waits at the head is taken, across every wrap of the indices.
HeadLeaves == \A n \in Index : cons = n /\ Something ~> cons # n

\* The packets that wait, counted from the consumer's index.
WaitingAt(n) == slots[Plus(cons, n - 1) % Cap]
Waiting == [n \in 1..Fill |-> WaitingAt(n)]

\* The ring implements a bounded queue: packets are taken whole, once and in
\* order, refused only when Cap packets wait.
Queue == INSTANCE PacketQueue WITH
  Packet <- RingPacket,
  queue <- Waiting,
  offered <- pkt,
  pushed <- pret,
  popped <- cret,
  taken <- IF cret = "taken" THEN got ELSE NoPacket
RefinesQueue == Queue!Spec

=============================================================================
