------------------------------ MODULE RmtFrame ------------------------------
(***************************************************************************)
(* A DMX frame as the pulses of the RMT peripheral (dmx_rmt_tx.c): the     *)
(* break, then every byte as runs of equal level, two runs to a symbol.    *)
(* One tick is a microsecond, one bit of DMX four of them.  Receiver is    *)
(* the other end: it knows DMX512 and nothing of this encoder.             *)
(***************************************************************************)
EXTENDS Integers, Sequences

CONSTANTS
  Byte,         \* The values of a slot (0..255 in the code).
  LastChannel,  \* Channels of a frame (512 in the code).
  LutMax,       \* BYTE_LUT_MAX_SYMS (6 in the code).
  MaxSym        \* RMT_DMX_MAX_SYM (3000 in the code).

\* No byte has more than ten runs, and the buffer is large enough for a frame
\* of the longest ones and the table's row of another.
ASSUME FrameAssumption ==
  /\ Byte \subseteq 0..255 /\ 0 \in Byte
  /\ LastChannel \in Nat \ {0}
  /\ LutMax \in Nat /\ LutMax >= 5
  /\ MaxSym \in Nat /\ MaxSym >= 1 + 5 * LastChannel + LutMax

Channel == 1..LastChannel
Frame == [1..LastChannel+1 -> Byte]
Symbol == {0, 1} \X Nat \X {0, 1} \X Nat

-----------------------------------------------------------------------------
(***************************************************************************)
(* The encoder.                                                            *)
(***************************************************************************)
Weight == <<1, 2, 4, 8, 16, 32, 64, 128>>

\* Mutant: the most significant bit goes first.
BitsReversed(b) ==
  <<0>> \o [k \in 1..8 |-> (b \div Weight[9 - k]) % 2] \o <<1, 1>>

\* Start bit, data bits, two stop bits.
Bits(b) == <<0>> \o [k \in 1..8 |-> (b \div Weight[k]) % 2] \o <<1, 1>>

\* Where the level changes, in order, and where the byte ends.
Edges(b) ==
  LET edges[k \in 0..11] ==
        IF k = 0 THEN <<>>
        ELSE IF k = 1 \/ Bits(b)[k] # Bits(b)[k - 1] THEN Append(edges[k - 1], k)
        ELSE edges[k - 1]
  IN Append(edges[11], 12)

\* init_lut: neighbours of equal level are one run, two runs are one symbol.
\* A byte starts low and ends high, so its runs always pair up.
ByteLut ==
  [b \in Byte |->
     LET e == Edges(b)
         Level(n) == Bits(b)[e[n]]
         Time(n) == 4 * (e[n + 1] - e[n])
     IN [n \in 1..(Len(e) - 1) \div 2 |->
           <<Level(2*n - 1), Time(2*n - 1), Level(2*n), Time(2*n)>>]]

\* The inverted table swaps the levels.
ByteLutInv ==
  [b \in Byte |->
     [n \in DOMAIN ByteLut[b] |->
        LET s == ByteLut[b][n] IN <<1 - s[1], s[2], 1 - s[3], s[4]>>]]

\* The break is low whether or not the data is inverted.
BreakSymbol(r) == <<0, r.brk, 1, r.mab>>

\* rmtDmxEncode: bytes are left out once another might not fit.
rmtDmxEncode(r, f) ==
  LET lut == IF r.inv THEN ByteLutInv ELSE ByteLut
      sym[n \in 0..Len(f)] ==
        IF n = 0 THEN <<BreakSymbol(r)>>
        ELSE LET wi == sym[n - 1]
             IN IF Len(wi) + LutMax <= MaxSym THEN wi \o lut[f[n]] ELSE wi
  IN sym[Len(f)]

-----------------------------------------------------------------------------
(***************************************************************************)
(* A receiver.                                                             *)
(***************************************************************************)
\* The level of the line, every four microseconds.
Ticks(level, duration) == [k \in 1..(duration \div 4) |-> level]

Levels(syms) ==
  LET l[n \in 0..Len(syms)] ==
        IF n = 0 THEN <<>>
        ELSE l[n - 1] \o Ticks(syms[n][1], syms[n][2])
                      \o Ticks(syms[n][3], syms[n][4])
  IN l[Len(syms)]

\* The byte that starts at place k: a start bit, eight data bits, stop bits.
WellFormed(l, k) == l[k] = 0 /\ l[k + 9] = 1 /\ l[k + 10] = 1
Value(l, k) ==
  l[k+1] + 2*l[k+2] + 4*l[k+3] + 8*l[k+4] + 16*l[k+5] + 32*l[k+6] + 64*l[k+7]
    + 128*l[k+8]

\* What is heard of a frame: nothing, unless a break of 88 microseconds and a
\* mark precede bytes that are all well formed.  The peripheral takes a run of
\* no length for the end: only the mark after break may be one.
Heard(syms) ==
  IF syms = <<>> \/ syms[1][1] # 0 \/ syms[1][2] < 88 \/ syms[1][4] < 4
    THEN <<>>
    ELSE LET l == Levels(Tail(syms))
             count == Len(l) \div 11
         IN IF \A n \in 1..count : WellFormed(l, 11 * (n - 1) + 1)
              THEN [n \in 1..count |-> Value(l, 11 * (n - 1) + 1)]
              ELSE <<>>

=============================================================================
