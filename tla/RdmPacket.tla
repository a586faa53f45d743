----------------------------- MODULE RdmPacket -----------------------------
(***************************************************************************)
(* The bytes of RDM: building a packet and reading an answer               *)
(* (rdm_engine.c), identifiers on the wire (rdm_types.h), and the answer   *)
(* to a discovery request (rdmParseDiscoveryResponse).                     *)
(*                                                                         *)
(* Indices into a packet are those of the code, which count from 0.        *)
(***************************************************************************)
EXTENDS Integers, Sequences

CONSTANT UidBytes  \* RDM_UID_BYTES (6 in the code).

\* The byte that holds the length of a packet holds that of a header and of
\* two bytes of data.
ASSUME UidBytesAssumption == UidBytes \in 1..120

Byte == 0..255
Word == 65536
SC == 204
SubSC == 1
Header == 12 + 2 * UidBytes  \* RDM_REQUEST_HEADER_SIZE
MaxData == 255 - Header      \* RDM_MAX_PARAM_DATA

At(p, n) == p[n + 1]
Big(hi, lo) == hi * 256 + lo
Bytes(w) == <<w \div 256, w % 256>>
Total(p) ==
  LET sum[n \in 0..Len(p)] == IF n = 0 THEN 0 ELSE sum[n - 1] + p[n] IN sum[Len(p)]

\* rdm_uid_to_wire and rdm_uid_from_wire, byte by byte.
ToWire(u) ==
  LET shifted[n \in 0..UidBytes] == IF n = 0 THEN u ELSE shifted[n - 1] \div 256
  IN [n \in 1..UidBytes |-> shifted[UidBytes - n] % 256]
FromWire(w) ==
  LET read[n \in 0..UidBytes] == IF n = 0 THEN 0 ELSE Big(read[n - 1], w[n])
  IN read[UidBytes]

-----------------------------------------------------------------------------
(***************************************************************************)
(* Requests and answers.                                                   *)
(***************************************************************************)
rdmChecksum(p, len) == Total(SubSeq(p, 1, len)) % Word

\* rdmBuild, with the fields a sweep sets.
rdmBuild(dst, src, cc, pid, data) ==
  LET body == <<SC, SubSC, Header + Len(data)>> \o ToWire(dst) \o ToWire(src)
                \o <<0, 0, 0, 0, 0, cc>> \o Bytes(pid) \o <<Len(data)>> \o data
  IN IF Len(data) > MaxData THEN <<>>
     ELSE body \o Bytes(rdmChecksum(body, Len(body)))

NotRead == [ok |-> FALSE, source |-> 0, pid |-> 0, data |-> <<>>]

\* Where the start code is found.
Starts(p) == {n \in 0..Len(p)-2 : At(p, n) = SC /\ At(p, n + 1) = SubSC}

\* rdmReadResp.  (Without a byte after the start code the code reads one byte
\* past the answer, and refuses it whatever that byte is.)
rdmReadResp(p) ==
  IF Len(p) < Header + 2 \/ Starts(p) = {} THEN NotRead
  ELSE LET start == CHOOSE n \in Starts(p) : \A m \in Starts(p) : n <= m
           q == SubSeq(p, start + 1, Len(p))
           len == IF Len(q) > 2 THEN At(q, 2) ELSE 0
           pdl == At(q, Header - 1)
       IN IF \/ len < Header \/ len + 1 >= Len(q)
             \/ rdmChecksum(q, len) # Big(At(q, len), At(q, len + 1))
             \/ pdl > MaxData \/ Header + pdl > len
          THEN NotRead
          ELSE [ok |-> TRUE,
                source |-> FromWire(SubSeq(q, 4 + UidBytes, 3 + 2 * UidBytes)),
                pid |-> Big(At(q, Header - 3), At(q, Header - 2)),
                data |-> SubSeq(q, Header + 1, Header + pdl)]

-----------------------------------------------------------------------------
(***************************************************************************)
(* The answer to a discovery request.                                      *)
(***************************************************************************)
Separator == 170

\* What the tests of the repository take for an answer: two bytes or more, the
\* separator, every byte of the identifier as two nibbles, a checksum.
DiscoveryResponse(u) ==
  LET w == ToWire(u)
  IN <<254, 254, Separator>>
       \o [n \in 1..2*UidBytes |->
             240 + IF (n % 2) = 1 THEN w[(n + 1) \div 2] \div 16
                                ELSE w[n \div 2] % 16]
       \o Bytes((Total(w) + 255 * UidBytes) % Word)

\* Bytes before the first separator.
Leading(p) ==
  LET S == {n \in 0..Len(p)-1 : At(p, n) = Separator}
  IN IF S = {} THEN Len(p) ELSE CHOOSE n \in S : \A m \in S : n <= m

Result(kind, u) == [kind |-> kind, uid |-> u]

\* Mutant: the checksum is not compared.
ParseUnchecked(p) ==
  LET sep == Leading(p)
      high(n) == At(p, sep + 2 * n - 1)
      low(n) == At(p, sep + 2 * n)
      wire == [n \in 1..UidBytes |-> (high(n) % 16) * 16 + (low(n) % 16)]
  IN IF Len(p) < 4 THEN Result("EMPTY", 0)
     ELSE IF sep < 2 \/ sep + 2 * UidBytes + 2 >= Len(p) THEN Result("COLLISION", 0)
     ELSE Result("SINGLE", FromWire(wire))

rdmParseDiscoveryResponse(p) ==
  LET sep == Leading(p)
      high(n) == At(p, sep + 2 * n - 1)
      low(n) == At(p, sep + 2 * n)
      wire == [n \in 1..UidBytes |-> (high(n) % 16) * 16 + (low(n) % 16)]
      ck == sep + 2 * UidBytes + 1
  IN IF Len(p) < 4 THEN Result("EMPTY", 0)
     ELSE IF \/ sep < 2 \/ ck + 1 >= Len(p)
             \/ \E n \in 1..UidBytes : high(n) < 240 \/ low(n) < 240
             \/ (Total(wire) + 255 * UidBytes) % Word # Big(At(p, ck), At(p, ck + 1))
     THEN Result("COLLISION", 0)
     ELSE Result("SINGLE", FromWire(wire))

=============================================================================
