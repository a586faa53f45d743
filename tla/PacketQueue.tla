---------------------------- MODULE PacketQueue ----------------------------
(***************************************************************************)
(* What a packet ring promises: a first-in first-out queue of bounded      *)
(* length between one producer and one consumer.  A packet is stored whole *)
(* or refused because the queue is full; it is taken whole, once and in    *)
(* order; a consumer is told that the queue is empty only when it is.      *)
(***************************************************************************)
EXTENDS Naturals, Sequences

CONSTANTS
  Cap,      \* The greatest length of the queue.
  Packet,   \* The packets.
  NoPacket  \* What a consumer holds that has taken nothing.

VARIABLES
  queue,    \* The packets that wait.
  offered,  \* The packet the producer wants stored.
  pushed,   \* What the producer's last call returned: "none" while it runs.
  popped,   \* What the consumer's last call returned.
  taken     \* The packet the consumer's last call took.

qvars == <<queue, offered, pushed, popped, taken>>

Init ==
  /\ queue = <<>> /\ offered \in Packet
  /\ pushed = "none" /\ popped = "none" /\ taken = NoPacket

CallPush ==
  /\ offered' \in Packet
  /\ pushed' = "none"
  /\ UNCHANGED <<queue, popped, taken>>

Push ==
  /\ Len(queue) < Cap
  /\ pushed = "none"
  /\ queue' = Append(queue, offered)
  /\ pushed' = "stored"
  /\ UNCHANGED <<offered, popped, taken>>

Refuse ==
  /\ Len(queue) = Cap
  /\ pushed' = "refused"
  /\ UNCHANGED <<queue, offered, popped, taken>>

CallPop ==
  /\ popped' = "none" /\ taken' = NoPacket
  /\ UNCHANGED <<queue, offered, pushed>>

Pop ==
  /\ queue # <<>>
  /\ taken' = Head(queue) /\ queue' = Tail(queue)
  /\ popped' = "taken"
  /\ UNCHANGED <<offered, pushed>>

FindEmpty ==
  /\ queue = <<>>
  /\ popped' = "empty" /\ taken' = NoPacket
  /\ UNCHANGED <<queue, offered, pushed>>

Next == CallPush \/ Push \/ Refuse \/ CallPop \/ Pop \/ FindEmpty

Spec == Init /\ [][Next]_qvars

=============================================================================
