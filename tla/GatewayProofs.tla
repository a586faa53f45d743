--------------------------- MODULE GatewayProofs ---------------------------
(***************************************************************************)
(* Proofs about the way of a frame from a datagram to the line.  The first *)
(* half is about the encoder: what rmtDmxEncode makes of a frame, whatever *)
(* the frame and however many channels, a receiver hears as that frame.    *)
(* The second half is the invariant of the two tasks, and with both that   *)
(* what is heard on a line is what a datagram says.                        *)
(***************************************************************************)
EXTENDS Gateway, SequenceTheorems, FiniteSetTheorems, WellFoundedInduction, TLAPS

\* Induction, with a set in the place of a predicate.
LEMMA SetInduction ==
  ASSUME NEW T \in SUBSET Nat, 0 \in T, \A n \in T : n + 1 \in T
  PROVE  T = Nat
<1> DEFINE D == Nat \ T
           R == OpToRel(<, Nat)
<1> SUFFICES ASSUME D # {} PROVE FALSE
  OBVIOUS
<1>1. \A x, y \in Nat : x < y => <<x, y>> \in R
  BY DEF OpToRel
<1>2. PICK x \in D : \A y \in D : <<y, x>> \notin R
  <2>1. IsWellFoundedOn(R, Nat) /\ D \subseteq Nat
    BY NatLessThanWellFounded
  <2> HIDE DEF D, R
  <2> QED BY <2>1, WFMin
<1> HIDE DEF R
<1>3. x # 0 /\ x \in Nat
  OBVIOUS
<1>4. x - 1 \in Nat /\ x - 1 < x /\ (x - 1) + 1 = x
  BY <1>3
<1>5. x - 1 \in T
  BY <1>1, <1>2, <1>4
<1> QED BY <1>4, <1>5

\* The same for the numbers up to a limit.
LEMMA UpTo ==
  ASSUME NEW N \in Nat, NEW T, 0 \in T, \A n \in T : n \in 0..N-1 => n + 1 \in T
  PROVE  0..N \subseteq T
<1> DEFINE U == {n \in Nat : n <= N => n \in T}
<1>1. U \in SUBSET Nat /\ 0 \in U
  OBVIOUS
<1>2. \A n \in U : n + 1 \in U
  OBVIOUS
<1>3. U = Nat
  <2> HIDE DEF U
  <2> QED BY <1>1, <1>2, SetInduction
<1> QED BY <1>3

\* A function defined at 0, and then from each number to the next.
Steps(N, S) == [1..N -> [S -> S]]
Follows(f, N, a, step) == f[0] = a /\ \A n \in 1..N : f[n] = step[n][f[n - 1]]

\* There is a function that is defined that way.
LEMMA Recursion ==
  ASSUME NEW S, NEW a \in S, NEW N \in Nat, NEW step \in Steps(N, S)
  PROVE  \E f \in [0..N -> S] : Follows(f, N, a, step)
<1> DEFINE T == {k \in 0..N : \E f \in [0..k -> S] : Follows(f, k, a, step)}
<1>1. 0 \in T
  <2>1. /\ [n \in 0..0 |-> a] \in [0..0 -> S]
        /\ Follows([n \in 0..0 |-> a], 0, a, step)
    BY DEF Follows
  <2> QED BY <2>1
<1>2. ASSUME NEW k \in T, k \in 0..N-1
      PROVE  k + 1 \in T
  <2>1. PICK f \in [0..k -> S] : Follows(f, k, a, step)
    OBVIOUS
  <2>2. f[k] \in S /\ k + 1 \in 1..N
    BY <1>2
  <2>3. PICK x \in S : x = step[k + 1][f[k]]
    BY <2>2 DEF Steps
  <2> DEFINE g == [n \in 0..k+1 |-> IF n = k + 1 THEN x ELSE f[n]]
  <2>4. g \in [0..k+1 -> S]
    <3>1. \A n \in 0..k+1 : n = k + 1 \/ n \in 0..k
      OBVIOUS
    <3> QED BY <2>3, <3>1
  <2>5. g[0] = a
    BY <1>2, <2>1 DEF Follows
  <2>6. ASSUME NEW n \in 1..k+1
        PROVE  g[n] = step[n][g[n - 1]]
    <3>1. n - 1 \in 0..k /\ g[n - 1] = f[n - 1]
      BY <1>2
    <3>2. CASE n = k + 1
      <4>1. g[n] = x /\ n - 1 = k
        BY <1>2, <3>2
      <4> HIDE DEF g
      <4> QED BY <2>3, <3>1, <3>2, <4>1
    <3>3. CASE n \in 1..k
      <4>1. g[n] = f[n]
        BY <1>2, <3>3
      <4>2. f[n] = step[n][f[n - 1]]
        BY <2>1, <3>3 DEF Follows
      <4> HIDE DEF g
      <4> QED BY <3>1, <4>1, <4>2
    <3> QED BY <3>2, <3>3
  <2> HIDE DEF g
  <2>7. Follows(g, k + 1, a, step)
    BY <2>5, <2>6 DEF Follows
  <2> QED BY <1>2, <2>4, <2>7
<1>3. 0..N \subseteq T
  <2> HIDE DEF T
  <2> QED BY <1>1, <1>2, UpTo
<1> QED BY <1>3

-----------------------------------------------------------------------------
(***************************************************************************)
(* The bits of a byte and the runs they make (init_lut).                   *)
(***************************************************************************)
Bit == {0, 1}

\* u is s and then t.
Laid(S, u, s, t) ==
  /\ u \in Seq(S) /\ Len(u) = Len(s) + Len(t)
  /\ \A n \in 1..Len(s) : u[n] = s[n]
  /\ \A n \in 1..Len(t) : u[Len(s) + n] = t[n]

\* One sequence after another.
LEMMA ConcatFacts ==
  ASSUME NEW S, NEW s \in Seq(S), NEW t \in Seq(S)
  PROVE  Laid(S, s \o t, s, t)
<1>1. /\ s \o t \in Seq(S) /\ Len(s \o t) = Len(s) + Len(t)
      /\ \A n \in 1..Len(s) + Len(t) :
           (s \o t)[n] = IF n <= Len(s) THEN s[n] ELSE t[n - Len(s)]
  BY ConcatProperties
<1>2. Len(s) \in Nat /\ Len(t) \in Nat
  OBVIOUS
<1>3. ASSUME NEW n \in 1..Len(t) PROVE (s \o t)[Len(s) + n] = t[n]
  <2>1. Len(s) + n \in 1..Len(s) + Len(t) /\ ~(Len(s) + n <= Len(s))
        /\ (Len(s) + n) - Len(s) = n
    BY <1>2
  <2> QED BY <1>1, <2>1
<1>4. ASSUME NEW n \in 1..Len(s) PROVE (s \o t)[n] = s[n]
  <2>1. n \in 1..Len(s) + Len(t) /\ n <= Len(s)
    BY <1>2
  <2> QED BY <1>1, <2>1
<1> QED BY <1>1, <1>3, <1>4 DEF Laid

\* The weights of the bits.
LEMMA WeightFacts ==
  /\ Weight[1] = 1 /\ Weight[2] = 2 /\ Weight[3] = 4 /\ Weight[4] = 8
  /\ Weight[5] = 16 /\ Weight[6] = 32 /\ Weight[7] = 64 /\ Weight[8] = 128
BY DEF Weight

\* A byte is the sum of its weighted bits.
LEMMA BinaryDigits ==
  ASSUME NEW b \in Nat, b < 256
  PROVE  ((b \div 1) % 2) + 2*((b \div 2) % 2) + 4*((b \div 4) % 2) + 8*((b \div 8) % 2)
           + 16*((b \div 16) % 2) + 32*((b \div 32) % 2) + 64*((b \div 64) % 2)
           + 128*((b \div 128) % 2) = b
OBVIOUS

\* A start bit, the bits of the byte and two stop bits.
LEMMA BitsFacts ==
  ASSUME NEW b \in Byte
  PROVE  /\ Bits(b) \in Seq(Bit) /\ Len(Bits(b)) = 11
         /\ Bits(b)[1] = 0 /\ Bits(b)[10] = 1 /\ Bits(b)[11] = 1
         /\ \A k \in 1..8 : Bits(b)[k + 1] = (b \div Weight[k]) % 2
<1> DEFINE d == [k \in 1..8 |-> (b \div Weight[k]) % 2]
<1>1. b \in Nat /\ b <= 255
  BY FrameAssumption
<1>2. ASSUME NEW k \in 1..8 PROVE (b \div Weight[k]) % 2 \in Bit
  <2>1. Weight[k] \in Nat /\ Weight[k] > 0
    BY WeightFacts
  <2>2. PICK w \in Nat : w = Weight[k] /\ w > 0
    BY <2>1
  <2>3. b \div w \in Int
    BY <1>1, <2>2
  <2> QED BY <2>2, <2>3 DEF Bit
<1>3. d \in Seq(Bit) /\ Len(d) = 8
  BY <1>2
<1>4. <<0>> \in Seq(Bit) /\ Len(<<0>>) = 1 /\ <<1, 1>> \in Seq(Bit) /\ Len(<<1, 1>>) = 2
  BY DEF Bit
<1> HIDE DEF d
<1> DEFINE h == <<0>> \o d
<1>5. /\ h \in Seq(Bit) /\ Len(h) = 1 + 8
      /\ \A k \in 1..1 : h[k] = <<0>>[k]
      /\ \A k \in 1..8 : h[1 + k] = d[k]
  <2>1. /\ h \in Seq(Bit) /\ Len(h) = Len(<<0>>) + Len(d)
        /\ \A k \in 1..Len(<<0>>) : h[k] = <<0>>[k]
        /\ \A k \in 1..Len(d) : h[Len(<<0>>) + k] = d[k]
    <3>1. Laid(Bit, h, <<0>>, d)
      BY ONLY <1>3, <1>4, ConcatFacts
    <3> QED BY ONLY <3>1 DEF Laid
  <2> QED BY ONLY <1>3, <1>4, <2>1
<1>6. Bits(b) = h \o <<1, 1>>
  BY DEF Bits, d
<1> HIDE DEF h
<1>7. /\ Bits(b) \in Seq(Bit) /\ Len(Bits(b)) = 9 + 2
      /\ \A k \in 1..9 : Bits(b)[k] = h[k]
      /\ \A k \in 1..2 : Bits(b)[9 + k] = <<1, 1>>[k]
  <2>1. /\ Bits(b) \in Seq(Bit) /\ Len(Bits(b)) = Len(h) + Len(<<1, 1>>)
        /\ \A k \in 1..Len(h) : Bits(b)[k] = h[k]
        /\ \A k \in 1..Len(<<1, 1>>) : Bits(b)[Len(h) + k] = <<1, 1>>[k]
    <3>1. Laid(Bit, h \o <<1, 1>>, h, <<1, 1>>)
      BY ONLY <1>4, <1>5, ConcatFacts
    <3>2. Laid(Bit, Bits(b), h, <<1, 1>>)
      BY ONLY <1>6, <3>1
    <3> QED BY ONLY <3>2 DEF Laid
  <2>2. Len(h) = 9 /\ Len(<<1, 1>>) = 2
    BY <1>4, <1>5
  <2> QED BY ONLY <2>1, <2>2
<1>8. Bits(b)[1] = 0
  <2>1. 1 \in 1..1 /\ 1 \in 1..9 /\ <<0>>[1] = 0
    OBVIOUS
  <2> QED BY <1>5, <1>7, <2>1
<1>9. Bits(b)[10] = 1 /\ Bits(b)[11] = 1
  <2>1. 1 \in 1..2 /\ 2 \in 1..2 /\ 9 + 1 = 10 /\ 9 + 2 = 11
        /\ <<1, 1>>[1] = 1 /\ <<1, 1>>[2] = 1
    OBVIOUS
  <2> QED BY <1>7, <2>1
<1>10. ASSUME NEW k \in 1..8 PROVE Bits(b)[k + 1] = (b \div Weight[k]) % 2
  <2>1. k + 1 \in 1..9 /\ k + 1 = 1 + k
    OBVIOUS
  <2> QED BY <1>5, <1>7, <2>1 DEF d
<1> QED BY <1>7, <1>8, <1>9, <1>10

\* E lists where the level of the first k bits of B changes.
Marks(B, k, E) ==
  /\ E \in Seq(1..11) /\ Len(E) >= 1 /\ Len(E) <= k
  /\ E[1] = 1
  /\ \A n \in 1..Len(E) : E[n] <= k /\ B[E[n]] = (n - 1) % 2
  /\ \A n \in 1..Len(E)-1 :
       E[n] < E[n + 1] /\ \A m \in E[n]..E[n + 1]-1 : B[m] = B[E[n]]
  /\ \A m \in E[Len(E)]..k : B[m] = B[E[Len(E)]]

\* The next bit either starts a run or prolongs the last one.
LEMMA MarksStep ==
  ASSUME NEW B \in Seq(Bit), Len(B) = 11, NEW k \in 1..10, NEW E, Marks(B, k, E)
  PROVE  /\ B[k + 1] # B[k] => Marks(B, k + 1, Append(E, k + 1))
         /\ B[k + 1] = B[k] => Marks(B, k + 1, E)
<1> DEFINE L == Len(E)
<1>1. /\ E \in Seq(1..11) /\ L \in Nat /\ L >= 1 /\ L <= k /\ E[1] = 1
      /\ \A n \in 1..L : E[n] <= k /\ B[E[n]] = (n - 1) % 2
      /\ \A n \in 1..L-1 :
           E[n] < E[n + 1] /\ \A m \in E[n]..E[n + 1]-1 : B[m] = B[E[n]]
      /\ \A m \in E[L]..k : B[m] = B[E[L]]
  BY DEF Marks
<1>2. L \in 1..L /\ E[L] \in 1..11 /\ E[L] <= k
  <2>1. L \in 1..L
    BY <1>1
  <2> QED BY <1>1, <2>1
<1>3. B[k] = B[E[L]]
  BY <1>1, <1>2
<1>4. ASSUME B[k + 1] = B[k]
      PROVE  Marks(B, k + 1, E)
  <2>1. \A m \in E[L]..k+1 : m = k + 1 \/ m \in E[L]..k
    BY <1>2
  <2>2. \A m \in E[L]..k+1 : B[m] = B[E[L]]
    BY <1>1, <1>3, <1>4, <2>1
  <2>3. \A n \in 1..L : E[n] <= k + 1
    <3>1. \A n \in 1..L : E[n] \in 1..11
      BY <1>1
    <3> QED BY <1>1, <3>1
  <2> QED BY <1>1, <2>2, <2>3 DEF Marks
<1>5. ASSUME B[k + 1] # B[k]
      PROVE  Marks(B, k + 1, Append(E, k + 1))
  <2> DEFINE F == Append(E, k + 1)
  <2>1. /\ F \in Seq(1..11) /\ Len(F) = L + 1
        /\ \A n \in 1..L : F[n] = E[n]
        /\ F[L + 1] = k + 1
    <3>1. k + 1 \in 1..11
      OBVIOUS
    <3> QED BY ONLY <1>1, <3>1, AppendProperties
  <2> HIDE DEF F
  <2>2. B[k + 1] = L % 2
    <3>1. \A j \in 1..11 : B[j] \in Bit
      BY ElementOfSeq
    <3>2. B[k] = (L - 1) % 2
      BY <1>1, <1>2, <1>3
    <3>3. k \in 1..11 /\ k + 1 \in 1..11
      OBVIOUS
    <3>4. PICK x \in {0, 1}, y \in {0, 1} : x = B[k] /\ y = B[k + 1]
      BY <3>1, <3>3 DEF Bit
    <3>5. L \in Nat /\ x = (L - 1) % 2 /\ x # y
      BY <1>1, <1>5, <3>2, <3>4
    <3>6. y = L % 2
      BY ONLY <3>4, <3>5
    <3> QED BY <3>4, <3>6
  <2>3. \A n \in 1..L+1 : n = L + 1 \/ n \in 1..L
    BY <1>1
  <2>4. ASSUME NEW n \in 1..L+1
        PROVE  F[n] <= k + 1 /\ B[F[n]] = (n - 1) % 2
    <3>1. CASE n = L + 1
      <4>1. F[n] = k + 1 /\ n - 1 = L /\ k + 1 <= k + 1
        BY <1>1, <2>1, <3>1
      <4> QED BY <2>2, <4>1
    <3>2. CASE n \in 1..L
      <4>0. \A j \in 1..L : E[j] \in 1..11
        BY <1>1, ElementOfSeq
      <4>1. E[n] \in 1..11 /\ E[n] <= k /\ B[E[n]] = (n - 1) % 2
        BY ONLY <1>1, <3>2, <4>0
      <4> QED BY <2>1, <3>2, <4>1
    <3> QED BY <2>3, <3>1, <3>2
  <2>5. ASSUME NEW n \in 1..(L+1)-1
        PROVE  F[n] < F[n + 1] /\ \A m \in F[n]..F[n + 1]-1 : B[m] = B[F[n]]
    <3>1. CASE n = L
      <4>1. F[n] = E[L] /\ F[n + 1] = k + 1 /\ (k + 1) - 1 = k
        BY <1>2, <2>1, <3>1
      <4> QED BY <1>1, <1>2, <4>1
    <3>2. CASE n \in 1..L-1
      <4>1. n \in 1..L /\ n + 1 \in 1..L
        BY <1>1, <3>2
      <4>2. F[n] = E[n] /\ F[n + 1] = E[n + 1]
        BY <2>1, <4>1
      <4> QED BY <1>1, <3>2, <4>2
    <3>3. n = L \/ n \in 1..L-1
      BY <1>1
    <3> QED BY <3>1, <3>2, <3>3
  <2>6. \A m \in F[L + 1]..k+1 : B[m] = B[F[L + 1]]
    BY <2>1
  <2>7. F[1] = 1
    BY <1>1, <2>1
  <2>8. L + 1 >= 1 /\ L + 1 <= k + 1
    BY <1>1
  <2>9. Marks(B, k + 1, F)
    BY ONLY <2>1, <2>4, <2>5, <2>6, <2>7, <2>8 DEF Marks
  <2> QED BY <2>9 DEF F
<1> QED BY <1>4, <1>5

\* The first bits of a byte, and where their level changes.
LEMMA EdgesMark ==
  ASSUME NEW b \in Byte
  PROVE  \E E \in Seq(1..11) :
           Marks(Bits(b), 10, E) /\ Marks(Bits(b), 11, E) /\ Edges(b) = Append(E, 12)
<1> DEFINE B == Bits(b)
           S == Seq(1..11)
           New(k) == k = 1 \/ B[k] # B[k - 1]
           step == [k \in 1..11 |-> [E \in S |-> IF New(k) THEN Append(E, k) ELSE E]]
           Body(f) == [k \in 0..11 |-> IF k = 0 THEN <<>>
                         ELSE IF New(k) THEN Append(f[k - 1], k) ELSE f[k - 1]]
           e == CHOOSE f : f = Body(f)
<1>1. B \in Seq(Bit) /\ Len(B) = 11 /\ B[1] = 0 /\ B[10] = 1 /\ B[11] = 1
  BY BitsFacts
<1>2. Edges(b) = Append(e[11], 12)
  BY DEF Edges
<1>3. <<>> \in S /\ 11 \in Nat
  OBVIOUS
<1>4. ASSUME NEW k \in 1..11, NEW E \in S
      PROVE  (IF New(k) THEN Append(E, k) ELSE E) \in S
  OBVIOUS
<1> HIDE DEF B, New
<1>5. step \in Steps(11, S)
  BY <1>4 DEF Steps
<1> HIDE DEF S, step
<1>6. PICK f \in [0..11 -> S] : Follows(f, 11, <<>>, step)
  BY ONLY <1>3, <1>5, Recursion
<1>7. f = Body(f)
  <2>1. ASSUME NEW k \in 1..11
        PROVE  f[k] = IF New(k) THEN Append(f[k - 1], k) ELSE f[k - 1]
    <3>1. k - 1 \in 0..11
      OBVIOUS
    <3>2. f[k - 1] \in S
      BY <3>1
    <3>3. f[k] = step[k][f[k - 1]]
      BY <1>6 DEF Follows
    <3> QED BY <3>2, <3>3 DEF step
  <2>2. f[0] = <<>>
    BY <1>6 DEF Follows
  <2>3. ASSUME NEW k \in 0..11 PROVE k = 0 \/ k \in 1..11
    OBVIOUS
  <2> QED BY <2>1, <2>2, <2>3
<1> HIDE DEF Body
<1>8. e = Body(e)
  BY <1>7
<1> HIDE DEF e
<1>9. /\ e[0] = <<>>
      /\ \A k \in 1..11 : e[k] = IF New(k) THEN Append(e[k - 1], k) ELSE e[k - 1]
  <2>1. e = [k \in 0..11 |-> IF k = 0 THEN <<>>
               ELSE IF New(k) THEN Append(e[k - 1], k) ELSE e[k - 1]]
    BY <1>8 DEF Body
  <2>2. ASSUME NEW k \in 1..11
        PROVE  e[k] = IF New(k) THEN Append(e[k - 1], k) ELSE e[k - 1]
    <3>1. k \in 0..11 /\ k # 0
      OBVIOUS
    <3> QED BY ONLY <2>1, <3>1
  <2>3. e[0] = <<>>
    BY ONLY <2>1
  <2> QED BY <2>2, <2>3
<1>10. e[1] = <<1>>
  <2>1. 1 \in 1..11 /\ New(1) /\ 1 - 1 = 0
    BY DEF New
  <2>2. e[1] = Append(e[0], 1)
    BY <1>9, <2>1
  <2> QED BY <1>9, <2>2
<1>11. Marks(B, 1, e[1])
  <2>1. <<1>> \in Seq(1..11) /\ Len(<<1>>) = 1 /\ <<1>>[1] = 1
    OBVIOUS
  <2> QED BY <1>1, <1>10, <2>1 DEF Marks
<1> DEFINE T == {n \in 0..10 : Marks(B, n + 1, e[n + 1])}
<1>12. 0 \in T
  BY <1>11
<1>13. ASSUME NEW n \in T, n \in 0..10-1 PROVE n + 1 \in T
  <2>1. n + 1 \in 1..10 /\ (n + 1) + 1 \in 1..11 /\ ((n + 1) + 1) - 1 = n + 1
        /\ (n + 1) + 1 # 1
    BY <1>13
  <2>2. PICK k \in 1..10 : k = n + 1
    BY <2>1
  <2>3. Marks(B, k, e[k]) /\ k + 1 \in 1..11 /\ (k + 1) - 1 = k /\ k + 1 # 1
    BY <2>2
  <2>4. e[k + 1] = IF B[k + 1] # B[k] THEN Append(e[k], k + 1) ELSE e[k]
    BY <1>9, <2>3 DEF New
  <2>5. Marks(B, k + 1, e[k + 1])
    BY <1>1, <2>3, <2>4, MarksStep
  <2> QED BY <2>1, <2>2, <2>5
<1>14. 0..10 \subseteq T
  <2> HIDE DEF T
  <2>1. 10 \in Nat
    OBVIOUS
  <2> QED BY ONLY <2>1, <1>12, <1>13, UpTo
<1>15. Marks(B, 10, e[10]) /\ Marks(B, 11, e[11])
  <2>1. 9 \in T /\ 10 \in T /\ 9 + 1 = 10 /\ 10 + 1 = 11
    BY <1>14
  <2> QED BY <2>1
<1>16. e[11] = e[10]
  <2>1. 11 \in 1..11 /\ 11 - 1 = 10 /\ ~New(11)
    BY <1>1 DEF New
  <2>2. e[11] = IF New(11) THEN Append(e[10], 11) ELSE e[10]
    BY <1>9, <2>1
  <2> QED BY <2>1, <2>2
<1>17. e[11] \in Seq(1..11)
  BY <1>15 DEF Marks
<1> QED BY <1>2, <1>15, <1>16, <1>17 DEF B

\* A byte has an even number of runs, ten at most.
LEMMA EdgesFacts ==
  ASSUME NEW b \in Byte
  PROVE  \E m \in 1..5 :
           /\ Edges(b) \in Seq(1..12) /\ Len(Edges(b)) = 2*m + 1
           /\ Edges(b)[1] = 1 /\ Edges(b)[2*m + 1] = 12
           /\ \A n \in 1..2*m :
                /\ Edges(b)[n] < Edges(b)[n + 1]
                /\ \A k \in Edges(b)[n]..Edges(b)[n + 1]-1 : Bits(b)[k] = Bits(b)[Edges(b)[n]]
<1> DEFINE B == Bits(b)
           F == Edges(b)
<1>1. B[11] = 1
  BY BitsFacts
<1>2. PICK E \in Seq(1..11) : Marks(B, 10, E) /\ Marks(B, 11, E) /\ F = Append(E, 12)
  BY EdgesMark
<1> HIDE DEF B
<1> DEFINE L == Len(E)
<1>3. /\ L \in Nat /\ L >= 1 /\ L <= 10 /\ E[1] = 1
      /\ \A n \in 1..L : B[E[n]] = (n - 1) % 2
      /\ \A n \in 1..L-1 :
           E[n] < E[n + 1] /\ \A k \in E[n]..E[n + 1]-1 : B[k] = B[E[n]]
      /\ \A k \in E[L]..11 : B[k] = B[E[L]]
  BY <1>2, SMTT(30) DEF Marks
<1>4. L \in 1..L /\ E[L] \in 1..11
  <2>1. L \in 1..L
    BY <1>3
  <2> QED BY <2>1
<1>5. (L - 1) % 2 = 1
  <2>1. B[E[L]] = (L - 1) % 2 /\ B[11] = B[E[L]]
    BY <1>3, <1>4
  <2> QED BY <1>1, <2>1
<1>6. PICK m \in 1..5 : L = 2*m
  <2>1. L \div 2 \in 1..5 /\ L = 2 * (L \div 2)
    BY <1>3, <1>5
  <2> QED BY <2>1
<1>7. /\ F \in Seq(1..12) /\ Len(F) = L + 1 /\ F[L + 1] = 12
      /\ \A n \in 1..L : F[n] = E[n]
  <2>1. E \in Seq(1..12) /\ 12 \in 1..12
    <3>1. \A n \in 1..L : E[n] \in 1..12
      OBVIOUS
    <3>2. 1..11 \subseteq 1..12
      OBVIOUS
    <3> QED BY <3>2, SeqMonotonic
  <2> QED BY ONLY <1>2, <2>1, AppendProperties
<1> HIDE DEF F
<1>8. ASSUME NEW n \in 1..2*m
      PROVE  F[n] < F[n + 1] /\ \A k \in F[n]..F[n + 1]-1 : B[k] = B[F[n]]
  <2>1. CASE n = L
    <3>1. F[n] = E[L] /\ F[n + 1] = 12 /\ 12 - 1 = 11
      BY <1>4, <1>7, <2>1
    <3> QED BY <1>3, <1>4, <3>1
  <2>2. CASE n \in 1..L-1
    <3>1. n \in 1..L /\ n + 1 \in 1..L
      BY <1>3, <2>2
    <3>2. F[n] = E[n] /\ F[n + 1] = E[n + 1]
      BY <1>7, <3>1
    <3> QED BY <1>3, <2>2, <3>2
  <2>3. n = L \/ n \in 1..L-1
    BY <1>6
  <2> QED BY <2>1, <2>2, <2>3
<1>9. F[1] = 1
  BY <1>3, <1>7
<1> QED BY <1>6, <1>7, <1>8, <1>9 DEF F, B

-----------------------------------------------------------------------------
(***************************************************************************)
(* What a receiver makes of the table's runs.                              *)
(***************************************************************************)
\* The two pulses of a symbol.
Pulses(syms, n) == <<Ticks(syms[n][1], syms[n][2]), Ticks(syms[n][3], syms[n][4])>>

\* The levels after each symbol.
Levelled(syms, l) ==
  /\ l \in [0..Len(syms) -> Seq(Bit)]
  /\ l[0] = <<>>
  /\ \A n \in 1..Len(syms) : l[n] = (l[n - 1] \o Pulses(syms, n)[1]) \o Pulses(syms, n)[2]

\* A pulse keeps its level as long as it lasts.
LEMMA TicksFacts ==
  ASSUME NEW x \in Bit, NEW d \in Nat
  PROVE  /\ Ticks(x, d) \in Seq(Bit) /\ Len(Ticks(x, d)) = d \div 4
         /\ \A k \in 1..(d \div 4) : Ticks(x, d)[k] = x
<1>1. d \div 4 \in Nat
  OBVIOUS
<1>2. PICK q \in Nat : q = d \div 4
  BY <1>1
<1>3. [k \in 1..q |-> x] \in Seq(Bit) /\ Len([k \in 1..q |-> x]) = q
  BY <1>2
<1> QED BY <1>2, <1>3 DEF Ticks

\* A symbol is two pulses.
LEMMA SymbolFacts ==
  ASSUME NEW s \in Symbol
  PROVE  s[1] \in Bit /\ s[2] \in Nat /\ s[3] \in Bit /\ s[4] \in Nat
BY DEF Symbol, Bit

\* They are sequences of levels.
LEMMA PulsesFacts ==
  ASSUME NEW syms \in Seq(Symbol), NEW n \in 1..Len(syms)
  PROVE  Pulses(syms, n)[1] \in Seq(Bit) /\ Pulses(syms, n)[2] \in Seq(Bit)
<1>1. syms[n] \in Symbol
  BY ElementOfSeq
<1>2. PICK s \in Symbol : s = syms[n]
  BY <1>1
<1>3. Ticks(s[1], s[2]) \in Seq(Bit) /\ Ticks(s[3], s[4]) \in Seq(Bit)
  BY SymbolFacts, TicksFacts
<1> QED BY <1>2, <1>3 DEF Pulses

\* The way levels are put together does not matter.
LEMMA BitsAssociate ==
  \A x, y, z \in Seq(Bit) : x \o (y \o z) = (x \o y) \o z
BY ONLY ConcatAssociative, SMTT(30)

\* Levels is that function at the last symbol.
LEMMA LevelsFacts ==
  ASSUME NEW syms \in Seq(Symbol)
  PROVE  \E l : Levelled(syms, l) /\ Levels(syms) = l[Len(syms)]
<1> DEFINE N == Len(syms)
           S == Seq(Bit)
           step == [n \in 1..N |-> [x \in S |-> (x \o Pulses(syms, n)[1]) \o Pulses(syms, n)[2]]]
           Body(f) == [n \in 0..N |->
                         IF n = 0 THEN <<>>
                         ELSE f[n - 1] \o Ticks(syms[n][1], syms[n][2])
                                       \o Ticks(syms[n][3], syms[n][4])]
           e == CHOOSE f : f = Body(f)
<1>1. N \in Nat /\ <<>> \in S
  OBVIOUS
<1>2. Levels(syms) = e[N]
  BY DEF Levels
<1>3. ASSUME NEW n \in 1..N, NEW x \in S
      PROVE  (x \o Pulses(syms, n)[1]) \o Pulses(syms, n)[2] \in S
  BY PulsesFacts, ConcatProperties
<1> HIDE DEF S
<1>4. step \in Steps(N, S)
  BY <1>3 DEF Steps
<1> HIDE DEF N, step
<1>5. PICK f \in [0..N -> S] : Follows(f, N, <<>>, step)
  BY ONLY <1>1, <1>4, Recursion
<1>6. ASSUME NEW n \in 1..N
      PROVE  f[n] = (f[n - 1] \o Pulses(syms, n)[1]) \o Pulses(syms, n)[2]
  <2>1. n - 1 \in 0..N
    BY <1>1
  <2>2. f[n - 1] \in S
    BY <2>1
  <2>3. f[n] = step[n][f[n - 1]]
    BY <1>5 DEF Follows
  <2> QED BY <2>2, <2>3 DEF step
<1>7. f = Body(f)
  <2>1. ASSUME NEW n \in 1..N
        PROVE  f[n] = f[n - 1] \o Ticks(syms[n][1], syms[n][2])
                               \o Ticks(syms[n][3], syms[n][4])
    <3>1. Pulses(syms, n)[1] = Ticks(syms[n][1], syms[n][2])
          /\ Pulses(syms, n)[2] = Ticks(syms[n][3], syms[n][4])
      BY DEF Pulses
    <3> QED BY <1>6, <3>1
  <2>2. f[0] = <<>>
    BY <1>5 DEF Follows
  <2>3. ASSUME NEW n \in 0..N PROVE n = 0 \/ n \in 1..N
    BY <1>1
  <2> QED BY <2>1, <2>2, <2>3
<1> HIDE DEF Body
<1>8. e = Body(e)
  BY <1>7
<1> HIDE DEF e
<1>9. /\ e[0] = <<>>
      /\ \A n \in 1..N :
           e[n] = e[n - 1] \o Ticks(syms[n][1], syms[n][2])
                           \o Ticks(syms[n][3], syms[n][4])
      /\ e = [n \in 0..N |-> e[n]]
  <2>1. e = [n \in 0..N |->
               IF n = 0 THEN <<>>
               ELSE e[n - 1] \o Ticks(syms[n][1], syms[n][2])
                             \o Ticks(syms[n][3], syms[n][4])]
    BY <1>8 DEF Body
  <2>2. ASSUME NEW n \in 1..N
        PROVE  e[n] = e[n - 1] \o Ticks(syms[n][1], syms[n][2])
                               \o Ticks(syms[n][3], syms[n][4])
    <3>1. n \in 0..N /\ n # 0
      BY <1>1
    <3> QED BY ONLY <2>1, <3>1
  <2>3. e[0] = <<>>
    BY ONLY <1>1, <2>1
  <2>4. e = [n \in 0..N |-> e[n]]
    BY ONLY <2>1
  <2> QED BY <2>2, <2>3, <2>4
<1>10. ASSUME NEW n \in 1..N
       PROVE  e[n] = (e[n - 1] \o Pulses(syms, n)[1]) \o Pulses(syms, n)[2]
  BY <1>9 DEF Pulses
<1> DEFINE T == {n \in 0..N : e[n] = f[n]}
<1>11. 0 \in T
  <2>1. f[0] = <<>>
    BY <1>5 DEF Follows
  <2> QED BY <1>1, <1>9, <2>1
<1>12. ASSUME NEW n \in T, n \in 0..N-1 PROVE n + 1 \in T
  <2>1. n + 1 \in 1..N /\ (n + 1) - 1 = n /\ e[n] = f[n] /\ n + 1 \in 0..N
    BY <1>1, <1>12
  <2>2. e[n + 1] = f[n + 1]
    BY <1>6, <1>10, <2>1
  <2> QED BY <2>1, <2>2
<1>13. 0..N \subseteq T
  <2> HIDE DEF T
  <2> QED BY ONLY <1>1, <1>11, <1>12, UpTo
<1>14. e \in [0..N -> S]
  <2>1. \A n \in 0..N : e[n] \in S
    BY <1>13
  <2> QED BY <1>9, <2>1
<1>15. Levelled(syms, e)
  BY <1>9, <1>10, <1>14 DEF Levelled, N, S
<1> QED BY <1>2, <1>15 DEF N

\* Any function defined like that agrees with it.
LEMMA LevelsAre ==
  ASSUME NEW syms \in Seq(Symbol), NEW g, Levelled(syms, g)
  PROVE  Levels(syms) = g[Len(syms)] /\ Levels(syms) \in Seq(Bit)
<1> DEFINE N == Len(syms)
<1>1. N \in Nat
  OBVIOUS
<1>2. PICK l : Levelled(syms, l) /\ Levels(syms) = l[N]
  BY LevelsFacts
<1> DEFINE T == {n \in 0..N : g[n] = l[n]}
<1>3. 0 \in T
  BY <1>1, <1>2 DEF Levelled
<1>4. ASSUME NEW n \in T, n \in 0..N-1 PROVE n + 1 \in T
  <2>1. n + 1 \in 1..N /\ (n + 1) - 1 = n /\ g[n] = l[n] /\ n + 1 \in 0..N
    BY <1>1, <1>4
  <2>2. /\ g[n + 1] = (g[(n + 1) - 1] \o Pulses(syms, n + 1)[1]) \o Pulses(syms, n + 1)[2]
        /\ l[n + 1] = (l[(n + 1) - 1] \o Pulses(syms, n + 1)[1]) \o Pulses(syms, n + 1)[2]
    BY <1>2, <2>1 DEF Levelled
  <2> QED BY <2>1, <2>2
<1>5. 0..N \subseteq T
  <2> HIDE DEF T
  <2> QED BY ONLY <1>1, <1>3, <1>4, UpTo
<1>6. N \in 0..N
  BY <1>1
<1>7. l[N] = g[N] /\ g[N] \in Seq(Bit)
  BY <1>5, <1>6 DEF Levelled
<1> QED BY <1>2, <1>7

\* The levels of one sequence of symbols after another.
LEMMA LevelsOfConcat ==
  ASSUME NEW s \in Seq(Symbol), NEW t \in Seq(Symbol)
  PROVE  /\ Levels(s \o t) = Levels(s) \o Levels(t)
         /\ Levels(s) \in Seq(Bit) /\ Levels(t) \in Seq(Bit)
<1> DEFINE M == Len(s)
           N == Len(t)
           u == s \o t
<1>1. M \in Nat /\ N \in Nat
  OBVIOUS
<1>2. /\ u \in Seq(Symbol) /\ Len(u) = M + N
      /\ \A n \in 1..M : u[n] = s[n]
      /\ \A n \in 1..N : u[M + n] = t[n]
  <2>1. Laid(Symbol, u, s, t)
    BY ONLY ConcatFacts
  <2> QED BY ONLY <2>1 DEF Laid
<1>3. PICK l : Levelled(s, l) /\ Levels(s) = l[M]
  BY LevelsFacts
<1>4. PICK m : Levelled(t, m) /\ Levels(t) = m[N]
  BY LevelsFacts
<1> HIDE DEF u, M, N
<1>5. /\ l \in [0..M -> Seq(Bit)] /\ l[0] = <<>>
      /\ \A n \in 1..M : l[n] = (l[n - 1] \o Pulses(s, n)[1]) \o Pulses(s, n)[2]
  BY <1>3 DEF Levelled, M
<1>6. /\ m \in [0..N -> Seq(Bit)] /\ m[0] = <<>>
      /\ \A n \in 1..N : m[n] = (m[n - 1] \o Pulses(t, n)[1]) \o Pulses(t, n)[2]
  BY <1>4 DEF Levelled, N
<1>7. PICK x \in Seq(Bit) : x = l[M]
  <2>1. M \in 0..M
    BY <1>1
  <2> QED BY <1>5, <2>1
<1> DEFINE g == [n \in 0..M+N |-> IF n <= M THEN l[n] ELSE x \o m[n - M]]
<1>8. ASSUME NEW n \in 0..N PROVE g[M + n] = x \o m[n] /\ x \o m[n] \in Seq(Bit)
  <2>1. m[n] \in Seq(Bit)
    BY <1>6
  <2>2. CASE n = 0
    <3>1. g[M + n] = l[M]
      BY <1>1, <2>2
    <3> QED BY <1>6, <1>7, <2>1, <2>2, <3>1, ConcatEmptySeq
  <2>3. CASE n # 0
    <3>1. M + n \in 0..M+N /\ ~(M + n <= M) /\ (M + n) - M = n
      BY <1>1, <2>3
    <3> QED BY <2>1, <3>1, ConcatProperties
  <2> QED BY <2>2, <2>3
<1>9. ASSUME NEW n \in 0..M PROVE g[n] = l[n]
  BY <1>1
<1>10. ASSUME NEW n \in 0..M+N PROVE n \in 0..M \/ (n - M \in 1..N /\ n = M + (n - M))
  BY <1>1
<1>11. g \in [0..M+N -> Seq(Bit)]
  <2>1. ASSUME NEW n \in 0..M+N PROVE g[n] \in Seq(Bit)
    <3>1. CASE n \in 0..M
      BY <1>5, <1>9, <3>1
    <3>2. CASE n - M \in 1..N /\ n = M + (n - M)
      <4>1. PICK k \in 0..N : n = M + k
        BY <3>2
      <4> QED BY <1>8, <4>1
    <3> QED BY <1>10, <3>1, <3>2
  <2> QED BY <2>1
<1>12. g[0] = <<>>
  BY <1>1, <1>5, <1>9
<1> HIDE DEF g
<1>13. ASSUME NEW n \in 1..M+N
       PROVE  g[n] = (g[n - 1] \o Pulses(u, n)[1]) \o Pulses(u, n)[2]
  <2>1. CASE n \in 1..M
    <3>1. n \in 0..M /\ n - 1 \in 0..M
      BY <1>1, <2>1
    <3>2. g[n] = l[n] /\ g[n - 1] = l[n - 1]
      BY <1>9, <3>1
    <3>3. Pulses(u, n) = Pulses(s, n)
      BY <1>2, <2>1 DEF Pulses
    <3> QED BY <1>5, <2>1, <3>2, <3>3
  <2>2. ASSUME NEW k \in 1..N, n = M + k
        PROVE  g[n] = (g[n - 1] \o Pulses(u, n)[1]) \o Pulses(u, n)[2]
    <3>1. k \in 0..N /\ k - 1 \in 0..N /\ n - 1 = M + (k - 1)
      BY <1>1, <2>2
    <3>2. g[n] = x \o m[k] /\ g[n - 1] = x \o m[k - 1]
      BY <1>8, <2>2, <3>1
    <3>3. Pulses(u, n) = Pulses(t, k)
      BY <1>2, <2>2 DEF Pulses
    <3>4. PICK y \in Seq(Bit), p \in Seq(Bit), q \in Seq(Bit) :
            y = m[k - 1] /\ p = Pulses(t, k)[1] /\ q = Pulses(t, k)[2]
      <4>1. m[k - 1] \in Seq(Bit)
        BY <1>6, <3>1
      <4>2. Pulses(t, k)[1] \in Seq(Bit) /\ Pulses(t, k)[2] \in Seq(Bit)
        BY PulsesFacts DEF N
      <4> QED BY <4>1, <4>2
    <3>5. x \o ((y \o p) \o q) = ((x \o y) \o p) \o q
      <4>1. y \o p \in Seq(Bit) /\ x \o y \in Seq(Bit)
        BY ConcatProperties
      <4>2. PICK w \in Seq(Bit) : w = y \o p
        BY <4>1
      <4>4. x \o (w \o q) = (x \o w) \o q
        BY ONLY BitsAssociate, ZenonT(30)
      <4>3. x \o (y \o p) = (x \o y) \o p
        BY ONLY BitsAssociate, ZenonT(30)
      <4> QED BY ONLY <4>2, <4>3, <4>4, Zenon
    <3>6. m[k] = (y \o p) \o q
      BY <1>6, <3>4
    <3> QED BY <3>2, <3>3, <3>4, <3>5, <3>6
  <2>3. n \in 1..M \/ (n - M \in 1..N /\ n = M + (n - M))
    BY <1>1
  <2> QED BY <2>1, <2>2, <2>3
<1>14. Levelled(u, g)
  BY <1>2, <1>11, <1>12, <1>13 DEF Levelled
<1>15. Levels(u) = g[M + N]
  BY <1>2, <1>14, LevelsAre
<1>16. g[M + N] = x \o m[N]
  <2>1. N \in 0..N
    BY <1>1
  <2> QED BY <1>8, <2>1
<1>17. Levels(s) \in Seq(Bit) /\ Levels(t) \in Seq(Bit)
  BY <1>3, <1>4, LevelsAre
<1> QED BY <1>3, <1>4, <1>7, <1>15, <1>16, <1>17 DEF u

\* A run of equal bits, as a pulse, adds them to the bits before it.
LEMMA RunAdds ==
  ASSUME NEW B \in Seq(Bit), Len(B) = 11, NEW p \in 1..12, NEW q \in 1..12, p < q,
         \A k \in p..q-1 : B[k] = B[p]
  PROVE  SubSeq(B, 1, p - 1) \o Ticks(B[p], 4 * (q - p)) = SubSeq(B, 1, q - 1)
<1>1. p \in 1..11 /\ q - 1 \in p..11 /\ q - p \in Nat /\ q - p >= 1
  OBVIOUS
<1>2. \A k \in 1..11 : B[k] \in Bit
  BY ElementOfSeq
<1>3. PICK x \in Bit : x = B[p]
  BY <1>1, <1>2
<1>4. PICK d \in Nat : d = q - p
  BY <1>1
<1>5. (4 * d) \div 4 = d /\ 4 * d \in Nat
  OBVIOUS
<1>6. /\ Ticks(x, 4 * d) \in Seq(Bit) /\ Len(Ticks(x, 4 * d)) = d
      /\ \A k \in 1..d : Ticks(x, 4 * d)[k] = x
  <2>1. PICK e \in Nat : e = 4 * d /\ e \div 4 = d
    BY <1>5
  <2>2. /\ Ticks(x, e) \in Seq(Bit) /\ Len(Ticks(x, e)) = e \div 4
        /\ \A k \in 1..(e \div 4) : Ticks(x, e)[k] = x
    BY ONLY TicksFacts
  <2> QED BY ONLY <2>1, <2>2
<1>7. /\ SubSeq(B, p, q - 1) \in Seq(Bit) /\ Len(SubSeq(B, p, q - 1)) = d
      /\ \A k \in 1..d : SubSeq(B, p, q - 1)[k] = B[p + k - 1]
  <2>1. \A k \in p..q-1 : B[k] \in Bit
    BY <1>1, <1>2
  <2>2. p \in Int /\ q - 1 \in Int /\ p <= q - 1 /\ (q - 1) - p + 1 = d
    BY <1>4
  <2> QED BY ONLY <2>1, <2>2, SubSeqProperties
<1>8. Ticks(x, 4 * d) = SubSeq(B, p, q - 1)
  <2>1. ASSUME NEW k \in 1..d PROVE Ticks(x, 4 * d)[k] = SubSeq(B, p, q - 1)[k]
    <3>1. p + k - 1 \in p..q-1
      BY <1>1, <1>4
    <3> QED BY <1>3, <1>6, <1>7, <3>1
  <2> QED BY ONLY <1>6, <1>7, <2>1, SeqEqual
<1>9. SubSeq(B, 1, p - 1) \o SubSeq(B, (p - 1) + 1, q - 1) = SubSeq(B, 1, q - 1)
  <2>1. 1 \in 1..Len(B)+1 /\ p - 1 \in 1-1..Len(B) /\ q - 1 \in p-1..Len(B)
    BY <1>1
  <2> QED BY ONLY <2>1, ConcatAdjacentSubSeq
<1>10. (p - 1) + 1 = p
  OBVIOUS
<1> QED BY <1>3, <1>4, <1>8, <1>9, <1>10

\* A row of the table: five symbols at most, which say the bits of the byte.
LEMMA LutFacts ==
  ASSUME NEW b \in Byte
  PROVE  /\ ByteLut[b] \in Seq(Symbol) /\ Len(ByteLut[b]) <= 5
         /\ Levels(ByteLut[b]) = Bits(b)
<1> DEFINE B == Bits(b)
           E == Edges(b)
<1>1. B \in Seq(Bit) /\ Len(B) = 11
  BY BitsFacts
<1>2. PICK m \in 1..5 :
        /\ E \in Seq(1..12) /\ Len(E) = 2*m + 1
        /\ E[1] = 1 /\ E[2*m + 1] = 12
        /\ \A n \in 1..2*m :
             /\ E[n] < E[n + 1]
             /\ \A k \in E[n]..E[n + 1]-1 : B[k] = B[E[n]]
  BY EdgesFacts
<1> DEFINE Run(n) == <<B[E[n]], 4 * (E[n + 1] - E[n])>>
           t == [n \in 1..m |-> <<B[E[2*n - 1]], 4 * (E[2*n] - E[2*n - 1]),
                                  B[E[2*n]], 4 * (E[2*n + 1] - E[2*n])>>]
<1>3. ByteLut[b] = t
  <2>1. (Len(E) - 1) \div 2 = m
    BY <1>2
  <2>2. ByteLut[b] = [n \in 1..(Len(E) - 1) \div 2 |->
          <<B[E[2*n - 1]], 4 * (E[2*n - 1 + 1] - E[2*n - 1]),
            B[E[2*n]], 4 * (E[2*n + 1] - E[2*n])>>]
    BY DEF ByteLut
  <2>3. \A n \in 1..m : 2*n - 1 + 1 = 2*n
    OBVIOUS
  <2> QED BY <2>1, <2>2, <2>3
<1> HIDE DEF B, E
<1>4. \A n \in 1..2*m+1 : E[n] \in 1..12
  BY <1>2, ElementOfSeq
<1>5. \A k \in 1..11 : B[k] \in Bit
  BY <1>1, ElementOfSeq
<1>6. ASSUME NEW n \in 1..2*m
      PROVE  /\ E[n] \in 1..11 /\ B[E[n]] \in Bit
             /\ E[n + 1] - E[n] \in Nat /\ 4 * (E[n + 1] - E[n]) \in Nat
             /\ SubSeq(B, 1, E[n] - 1) \o Ticks(B[E[n]], 4 * (E[n + 1] - E[n]))
                  = SubSeq(B, 1, E[n + 1] - 1)
  <2>1. n \in 1..2*m+1 /\ n + 1 \in 1..2*m+1
    OBVIOUS
  <2>2. PICK p \in 1..12, q \in 1..12 : p = E[n] /\ q = E[n + 1]
    BY <1>4, <2>1
  <2>3. p < q /\ \A k \in p..q-1 : B[k] = B[p]
    BY <1>2, <2>2
  <2>4. SubSeq(B, 1, p - 1) \o Ticks(B[p], 4 * (q - p)) = SubSeq(B, 1, q - 1)
    BY <1>1, <2>3, RunAdds
  <2>5. p \in 1..11 /\ q - p \in Nat /\ 4 * (q - p) \in Nat
    BY <2>3
  <2> QED BY <1>5, <2>2, <2>4, <2>5
<1>7. ASSUME NEW n \in 1..m
      PROVE  /\ 2*n - 1 \in 1..2*m /\ 2*n \in 1..2*m /\ (2*n - 1) + 1 = 2*n
             /\ 2*(n - 1) + 1 = 2*n - 1
  OBVIOUS
<1>8. ASSUME NEW n \in 1..m PROVE t[n] \in Symbol
  <2>1. PICK i \in 1..2*m, j \in 1..2*m : i = 2*n - 1 /\ j = 2*n /\ i + 1 = j
    BY <1>7
  <2>2. B[E[i]] \in Bit /\ 4 * (E[i + 1] - E[i]) \in Nat
    BY <1>6
  <2>3. B[E[j]] \in Bit /\ 4 * (E[j + 1] - E[j]) \in Nat
    BY <1>6
  <2>4. t[n] = <<B[E[i]], 4 * (E[i + 1] - E[i]), B[E[j]], 4 * (E[j + 1] - E[j])>>
    BY <2>1
  <2> HIDE DEF t
  <2> QED BY <2>2, <2>3, <2>4 DEF Symbol, Bit
<1>9. t \in Seq(Symbol) /\ Len(t) = m
  BY <1>8
<1> DEFINE g == [n \in 0..m |-> SubSeq(B, 1, E[2*n + 1] - 1)]
<1>10. \A n \in 0..m : 2*n + 1 \in 1..2*m+1
  OBVIOUS
<1>11. g \in [0..m -> Seq(Bit)]
  <2>1. ASSUME NEW n \in 0..m PROVE SubSeq(B, 1, E[2*n + 1] - 1) \in Seq(Bit)
    <3>1. PICK p \in 1..12 : p = E[2*n + 1]
      BY <1>4, <1>10
    <3>2. p - 1 \in Int /\ 1 \in Int /\ \A i \in 1..p-1 : i \in 1..11
      OBVIOUS
    <3>3. \A i \in 1..p-1 : B[i] \in Bit
      BY <1>5, <3>2
    <3>4. SubSeq(B, 1, p - 1) \in Seq(Bit)
      BY ONLY <3>2, <3>3, SubSeqProperties
    <3> QED BY <3>1, <3>4
  <2> QED BY <2>1
<1>12. g[0] = <<>>
  <2>1. 0 \in 0..m /\ 2*0 + 1 = 1 /\ E[1] = 1 /\ 1 - 1 = 0
    BY <1>2
  <2>2. SubSeq(B, 1, 0) = <<>>
    BY SubSeqEmpty
  <2> QED BY <2>1, <2>2
<1>13. ASSUME NEW n \in 1..m
       PROVE  g[n] = (g[n - 1] \o Pulses(t, n)[1]) \o Pulses(t, n)[2]
  <2>1. PICK i \in 1..2*m, j \in 1..2*m :
          i = 2*n - 1 /\ j = 2*n /\ i + 1 = j /\ 2*(n - 1) + 1 = i
    BY <1>7
  <2>2. Pulses(t, n)[1] = Ticks(B[E[i]], 4 * (E[i + 1] - E[i]))
        /\ Pulses(t, n)[2] = Ticks(B[E[j]], 4 * (E[j + 1] - E[j]))
    BY <2>1 DEF Pulses
  <2>3. g[n] = SubSeq(B, 1, E[j + 1] - 1) /\ g[n - 1] = SubSeq(B, 1, E[i] - 1)
    <3>1. n \in 0..m /\ n - 1 \in 0..m
      OBVIOUS
    <3> QED BY <2>1, <3>1
  <2>4. SubSeq(B, 1, E[i] - 1) \o Ticks(B[E[i]], 4 * (E[i + 1] - E[i]))
          = SubSeq(B, 1, E[j] - 1)
    BY <1>6, <2>1
  <2>5. SubSeq(B, 1, E[j] - 1) \o Ticks(B[E[j]], 4 * (E[j + 1] - E[j]))
          = SubSeq(B, 1, E[j + 1] - 1)
    BY <1>6
  <2> HIDE DEF g, t
  <2> QED BY ONLY <2>2, <2>3, <2>4, <2>5
<1>14. Levels(t) = g[m]
  <2> HIDE DEF g, t
  <2>1. Levelled(t, g)
    BY ONLY <1>9, <1>11, <1>12, <1>13 DEF Levelled
  <2> QED BY <1>9, <2>1, LevelsAre
<1>15. g[m] = B
  <2>1. m \in 0..m /\ E[2*m + 1] - 1 = 11
    BY <1>2
  <2>2. SubSeq(B, 1, 11) = B
    BY <1>1, SubSeqFull
  <2> QED BY <2>1, <2>2
<1> HIDE DEF t, g
<1> QED BY <1>3, <1>9, <1>14, <1>15 DEF B

\* The inverted table has rows as long.
LEMMA LutInvFacts ==
  ASSUME NEW b \in Byte
  PROVE  ByteLutInv[b] \in Seq(Symbol) /\ Len(ByteLutInv[b]) <= 5
<1>1. PICK t \in Seq(Symbol) : t = ByteLut[b] /\ Len(t) <= 5
  BY LutFacts
<1> DEFINE u == [n \in 1..Len(t) |-> <<1 - t[n][1], t[n][2], 1 - t[n][3], t[n][4]>>]
<1>2. ByteLutInv[b] = u
  <2>1. DOMAIN t = 1..Len(t)
    OBVIOUS
  <2> QED BY <1>1, <2>1 DEF ByteLutInv
<1>3. ASSUME NEW n \in 1..Len(t) PROVE u[n] \in Symbol
  <2>1. PICK s \in Symbol : s = t[n]
    BY ElementOfSeq
  <2>2. s[1] \in {0, 1} /\ s[2] \in Nat /\ s[3] \in {0, 1} /\ s[4] \in Nat
    BY SymbolFacts DEF Bit
  <2>3. 1 - s[1] \in {0, 1} /\ 1 - s[3] \in {0, 1}
    BY <2>2
  <2> QED BY <2>1, <2>2, <2>3 DEF Symbol
<1>4. u \in Seq(Symbol) /\ Len(u) = Len(t)
  BY <1>3
<1> QED BY <1>1, <1>2, <1>4

-----------------------------------------------------------------------------
(***************************************************************************)
(* The symbols of a frame (rmtDmxEncode).                                  *)
(***************************************************************************)
Slots == LastChannel + 1
Lut(r) == IF r.inv THEN ByteLutInv ELSE ByteLut

\* Nor the way symbols are.
LEMMA SymbolsAssociate ==
  \A x, y, z \in Seq(Symbol) : x \o (y \o z) = (x \o y) \o z
BY ONLY ConcatAssociative, SMTT(30)

\* The symbols of the first bytes of a frame.
Encoded(r, f, w) ==
  /\ w \in [0..Slots -> Seq(Symbol)] /\ w[0] = <<>>
  /\ \A n \in 1..Slots : w[n] = w[n - 1] \o Lut(r)[f[n]]

\* One element before a sequence.
LEMMA PrefixFacts ==
  ASSUME NEW S, NEW x \in S, NEW s \in Seq(S)
  PROVE  /\ <<x>> \o s \in Seq(S) /\ Len(<<x>> \o s) = 1 + Len(s)
         /\ <<x>> \o s # <<>> /\ (<<x>> \o s)[1] = x /\ Tail(<<x>> \o s) = s
<1> DEFINE u == <<x>> \o s
<1>1. <<x>> \in Seq(S) /\ Len(<<x>>) = 1 /\ <<x>>[1] = x
  OBVIOUS
<1>2. Laid(S, u, <<x>>, s)
  BY <1>1, ConcatFacts
<1> HIDE DEF u
<1>3. /\ u \in Seq(S) /\ Len(u) = 1 + Len(s)
      /\ u[1] = x /\ \A n \in 1..Len(s) : u[1 + n] = s[n]
  BY <1>1, <1>2 DEF Laid
<1>4. u # <<>>
  BY <1>3
<1>5. Tail(u) = s
  <2>1. /\ Tail(u) \in Seq(S) /\ Len(Tail(u)) = Len(u) - 1
        /\ \A i \in 1..Len(Tail(u)) : Tail(u)[i] = u[i + 1]
    BY <1>3, <1>4, HeadTailProperties
  <2>2. Len(s) \in Nat
    OBVIOUS
  <2>3. \A i \in 1..Len(s) : 1 + i = i + 1
    BY <2>2
  <2> QED BY <1>3, <2>1, <2>2, <2>3, SeqEqual
<1> QED BY <1>3, <1>4, <1>5 DEF u

\* A row of either table is short (init_lut).
LEMMA LutRow ==
  ASSUME NEW r, NEW b \in Byte
  PROVE  Lut(r)[b] \in Seq(Symbol) /\ Len(Lut(r)[b]) <= 5
BY LutFacts, LutInvFacts DEF Lut

\* Every byte of a frame fits, so none is left out.
LEMMA EncodedFacts ==
  ASSUME NEW r, r.brk \in Nat, r.mab \in Nat, NEW f \in Frame
  PROVE  \E w : /\ Encoded(r, f, w)
                /\ Len(w[Slots]) <= 5 * Slots
                /\ rmtDmxEncode(r, f) = <<BreakSymbol(r)>> \o w[Slots]
<1> DEFINE N == Slots
           S == Seq(Symbol)
           brk == <<BreakSymbol(r)>>
           Fits(x) == Len(x) + LutMax <= MaxSym
           step == [n \in 1..N |-> [x \in S |-> x \o Lut(r)[f[n]]]]
           Body(s) == [n \in 0..N |->
                         IF n = 0 THEN brk
                         ELSE IF Fits(s[n - 1]) THEN s[n - 1] \o Lut(r)[f[n]]
                              ELSE s[n - 1]]
           e == CHOOSE s : s = Body(s)
<1>1. N \in Nat /\ <<>> \in S /\ N = LastChannel + 1
  BY FrameAssumption DEF Slots
<1>2. Len(f) = N /\ \A n \in 1..N : f[n] \in Byte
  BY <1>1 DEF Frame
<1>3. rmtDmxEncode(r, f) = e[N]
  BY <1>2 DEF rmtDmxEncode, Lut
<1>4. ASSUME NEW n \in 1..N
      PROVE  Lut(r)[f[n]] \in S /\ Len(Lut(r)[f[n]]) <= 5
  BY <1>2, LutRow
<1>5. ASSUME NEW n \in 1..N, NEW x \in S
      PROVE  x \o Lut(r)[f[n]] \in S
  BY <1>4, ConcatProperties
<1> HIDE DEF S
<1>6. step \in Steps(N, S)
  BY <1>5 DEF Steps
<1> HIDE DEF N, step
<1>7. PICK w \in [0..N -> S] : Follows(w, N, <<>>, step)
  BY ONLY <1>1, <1>6, Recursion
<1>8. ASSUME NEW n \in 1..N PROVE w[n] = w[n - 1] \o Lut(r)[f[n]]
  <2>1. n - 1 \in 0..N
    BY <1>1
  <2>2. w[n - 1] \in S
    BY <2>1
  <2>3. w[n] = step[n][w[n - 1]]
    BY <1>7 DEF Follows
  <2> QED BY <2>2, <2>3 DEF step
<1>9. w[0] = <<>>
  BY <1>7 DEF Follows
<1> DEFINE T == {n \in 0..N : Len(w[n]) <= 5 * n}
<1>10. 0..N \subseteq T
  <2>1. 0 \in T
    BY <1>1, <1>9
  <2>2. ASSUME NEW n \in T, n \in 0..N-1 PROVE n + 1 \in T
    <3>1. n \in 0..N /\ n + 1 \in 1..N /\ (n + 1) - 1 = n /\ Len(w[n]) <= 5 * n
      BY <1>1, <2>2
    <3>2. PICK x \in S, y \in S : x = w[n] /\ y = Lut(r)[f[n + 1]] /\ Len(y) <= 5
      BY <1>4, <3>1
    <3>3. w[n + 1] = x \o y
      BY <1>8, <3>1, <3>2
    <3>4. Len(x \o y) = Len(x) + Len(y) /\ Len(x) \in Nat /\ Len(y) \in Nat
      BY ConcatProperties, LenProperties DEF S
    <3>5. PICK p \in Nat, q \in Nat : p = Len(x) /\ q = Len(y)
      BY <3>4
    <3>6. p <= 5 * n /\ q <= 5 /\ n \in Nat
      BY <3>1, <3>2, <3>5
    <3>7. p + q <= 5 * (n + 1)
      BY ONLY <3>5, <3>6
    <3>8. Len(w[n + 1]) <= 5 * (n + 1)
      BY <3>3, <3>4, <3>5, <3>7
    <3> QED BY <3>1, <3>8
  <2> HIDE DEF T
  <2> QED BY ONLY <1>1, <2>1, <2>2, UpTo
<1> DEFINE h == [n \in 0..N |-> brk \o w[n]]
<1>11. BreakSymbol(r) \in Symbol
  BY DEF BreakSymbol, Symbol
<1>12. ASSUME NEW n \in 0..N
       PROVE  w[n] \in S /\ brk \in S /\ Len(brk \o w[n]) = 1 + Len(w[n]) /\ Len(w[n]) \in Nat
  <2>1. w[n] \in S
    BY <1>7
  <2>2. PICK x \in S : x = w[n]
    BY <2>1
  <2>3. Len(brk \o x) = 1 + Len(x) /\ Len(x) \in Nat /\ brk \in S
    BY <1>11, PrefixFacts, LenProperties DEF S
  <2> QED BY ONLY <2>2, <2>3
<1> HIDE DEF brk
<1>13. ASSUME NEW n \in 1..N
       PROVE  Fits(h[n - 1]) /\ h[n] = h[n - 1] \o Lut(r)[f[n]]
  <2>1. n \in 0..N /\ n - 1 \in 0..N
    BY <1>1
  <2>2. Len(h[n - 1]) = 1 + Len(w[n - 1]) /\ Len(w[n - 1]) \in Nat
        /\ Len(w[n - 1]) <= 5 * (n - 1)
    BY <1>10, <1>12, <2>1
  <2>3. Fits(h[n - 1])
    <3>0. n - 1 \in Nat /\ n - 1 <= LastChannel
      BY ONLY <1>1, n \in 1..N, FrameAssumption
    <3>1. PICK l \in Nat, k \in Nat : l = Len(w[n - 1]) /\ k = n - 1 /\ k <= LastChannel
      BY ONLY <2>2, <3>0
    <3>2. l <= 5 * k /\ Len(h[n - 1]) = 1 + l
      BY <2>2, <3>1
    <3>3. LutMax \in Nat /\ MaxSym \in Nat /\ LastChannel \in Nat
          /\ MaxSym >= 1 + 5 * LastChannel + LutMax
      BY FrameAssumption
    <3>4. 1 + l + LutMax <= MaxSym
      BY ONLY <3>1, <3>2, <3>3
    <3> QED BY <3>2, <3>4
  <2>4. PICK x \in S, y \in S : x = w[n - 1] /\ y = Lut(r)[f[n]]
    BY <1>4, <2>1
  <2>5. brk \o (x \o y) = (brk \o x) \o y
    <3>1. PICK z \in S : z = brk
      BY <1>12, <2>1
    <3>2. z \o (x \o y) = (z \o x) \o y
      BY ONLY SymbolsAssociate, ZenonT(30) DEF S
    <3> QED BY <3>1, <3>2, Zenon
  <2>6. h[n] = brk \o w[n] /\ h[n - 1] = brk \o x
    BY <2>1, <2>4
  <2>7. w[n] = x \o y
    BY <1>8, <2>4
  <2> QED BY ONLY <2>3, <2>4, <2>5, <2>6, <2>7
<1>14. h[0] = brk
  BY <1>1, <1>9, <1>12, ConcatEmptySeq DEF S
<1>15. h = Body(h)
  <2> DEFINE g == Body(h)
  <2>1. g[0] = h[0]
    BY <1>1, <1>14
  <2>2. ASSUME NEW n \in 1..N PROVE g[n] = h[n]
    <3>1. n \in 0..N /\ n # 0
      BY <1>1
    <3> HIDE DEF h, Fits
    <3> QED BY <1>13, <3>1
  <2>3. ASSUME NEW n \in 0..N PROVE n = 0 \/ n \in 1..N
    BY <1>1
  <2>4. DOMAIN g = 0..N /\ DOMAIN h = 0..N /\ g = [n \in 0..N |-> g[n]]
        /\ h = [n \in 0..N |-> h[n]]
    OBVIOUS
  <2> HIDE DEF g, h
  <2>5. \A n \in 0..N : g[n] = h[n]
    BY <2>1, <2>2, <2>3
  <2>6. g = h
    BY ONLY <2>4, <2>5
  <2> QED BY <2>6 DEF g
<1> HIDE DEF Body, h
<1>16. e = Body(e)
  BY <1>15
<1> HIDE DEF e
<1>17. /\ e[0] = brk
       /\ \A n \in 1..N : e[n] = IF Fits(e[n - 1]) THEN e[n - 1] \o Lut(r)[f[n]]
                                 ELSE e[n - 1]
  <2>1. e = [n \in 0..N |->
               IF n = 0 THEN brk
               ELSE IF Fits(e[n - 1]) THEN e[n - 1] \o Lut(r)[f[n]] ELSE e[n - 1]]
    BY <1>16 DEF Body
  <2> HIDE DEF Fits
  <2>2. ASSUME NEW n \in 1..N
        PROVE  e[n] = IF Fits(e[n - 1]) THEN e[n - 1] \o Lut(r)[f[n]] ELSE e[n - 1]
    <3>1. n \in 0..N /\ n # 0
      BY <1>1
    <3> QED BY ONLY <2>1, <3>1
  <2>3. e[0] = brk
    BY ONLY <1>1, <2>1
  <2> QED BY <2>2, <2>3
<1> HIDE DEF Fits
<1> DEFINE U == {n \in 0..N : e[n] = h[n]}
<1>18. 0..N \subseteq U
  <2>1. 0 \in U
    BY <1>1, <1>14, <1>17
  <2>2. ASSUME NEW n \in U, n \in 0..N-1 PROVE n + 1 \in U
    <3>1. n + 1 \in 1..N /\ (n + 1) - 1 = n /\ e[n] = h[n] /\ n + 1 \in 0..N
      BY <1>1, <2>2
    <3>2. e[n + 1] = h[n + 1]
      BY <1>13, <1>17, <3>1
    <3> QED BY <3>1, <3>2
  <2> HIDE DEF U
  <2> QED BY ONLY <1>1, <2>1, <2>2, UpTo
<1>19. e[N] = brk \o w[N] /\ Len(w[N]) <= 5 * N
  <2>1. N \in 0..N
    BY <1>1
  <2> QED BY <1>10, <1>18, <2>1 DEF h
<1>20. Encoded(r, f, w)
  BY <1>7, <1>8, <1>9 DEF Encoded, N, S
<1> QED BY <1>3, <1>19, <1>20 DEF N, brk

\* What is written to the symbol buffer are symbols, and they fit it.
LEMMA EncodeType ==
  ASSUME NEW r, r.brk \in Nat, r.mab \in Nat, NEW f \in Frame
  PROVE  rmtDmxEncode(r, f) \in Seq(Symbol) /\ Len(rmtDmxEncode(r, f)) <= MaxSym
<1>1. PICK w : /\ Encoded(r, f, w) /\ Len(w[Slots]) <= 5 * Slots
               /\ rmtDmxEncode(r, f) = <<BreakSymbol(r)>> \o w[Slots]
  BY EncodedFacts
<1>2. Slots \in 0..Slots /\ Slots = LastChannel + 1
  BY FrameAssumption DEF Slots
<1>3. PICK x \in Seq(Symbol) : x = w[Slots]
  BY <1>1, <1>2 DEF Encoded
<1>4. BreakSymbol(r) \in Symbol
  BY DEF BreakSymbol, Symbol
<1>5. <<BreakSymbol(r)>> \o x \in Seq(Symbol)
      /\ Len(<<BreakSymbol(r)>> \o x) = 1 + Len(x)
  BY <1>4, PrefixFacts
<1>6. PICK l \in Nat : l = Len(x)
  OBVIOUS
<1>7. l <= 5 * (LastChannel + 1)
  BY <1>1, <1>2, <1>3, <1>6
<1>8. 1 + l <= MaxSym
  <2>1. LastChannel \in Nat /\ LutMax \in Nat /\ LutMax >= 5 /\ MaxSym \in Nat
        /\ MaxSym >= 1 + 5 * LastChannel + LutMax
    BY FrameAssumption
  <2> QED BY ONLY <1>6, <1>7, <2>1
<1> QED BY ONLY <1>1, <1>3, <1>5, <1>6, <1>8

-----------------------------------------------------------------------------
(***************************************************************************)
(* What is heard of them.                                                  *)
(***************************************************************************)
\* l holds the bits of the first n bytes of f, one after the other.
Spells(l, f, n) ==
  /\ l \in Seq(Bit) /\ Len(l) = 11 * n
  /\ \A j \in 1..n : \A k \in 1..11 : l[11 * (j - 1) + k] = Bits(f[j])[k]

\* Another byte after the others.
LEMMA SpellsStep ==
  ASSUME NEW f, NEW n \in Nat, NEW l, Spells(l, f, n), f[n + 1] \in Byte
  PROVE  Spells(l \o Bits(f[n + 1]), f, n + 1)
<1> DEFINE B == Bits(f[n + 1])
           u == l \o B
<1>1. B \in Seq(Bit) /\ Len(B) = 11
  BY BitsFacts
<1> HIDE DEF B
<1>2. /\ l \in Seq(Bit) /\ Len(l) = 11 * n
      /\ \A j \in 1..n : \A k \in 1..11 : l[11 * (j - 1) + k] = Bits(f[j])[k]
  BY DEF Spells
<1>3. Laid(Bit, u, l, B)
  BY ONLY <1>1, <1>2, ConcatFacts
<1> HIDE DEF u
<1>4. /\ u \in Seq(Bit) /\ Len(u) = 11 * n + 11
      /\ \A k \in 1..11*n : u[k] = l[k]
      /\ \A k \in 1..11 : u[11 * n + k] = B[k]
  BY ONLY <1>1, <1>2, <1>3 DEF Laid
<1>5. 11 * n + 11 = 11 * (n + 1)
  OBVIOUS
<1>6. ASSUME NEW j \in 1..n+1, NEW k \in 1..11
      PROVE  u[11 * (j - 1) + k] = Bits(f[j])[k]
  <2>1. CASE j = n + 1
    <3>1. 11 * (j - 1) = 11 * n
      BY <2>1
    <3> QED BY <1>4, <2>1, <3>1 DEF B
  <2>2. CASE j \in 1..n
    <3>1. 11 * (j - 1) + k \in 1..11*n
      BY <2>2
    <3> QED BY <1>2, <1>4, <2>2, <3>1
  <2> QED BY <2>1, <2>2
<1> QED BY <1>4, <1>5, <1>6 DEF Spells, u, B

\* No symbols say nothing.
LEMMA NoLevels == Levels(<<>>) = <<>>
<1> DEFINE g == [n \in 0..0 |-> <<>>]
<1>1. <<>> \in Seq(Symbol) /\ Len(<<>>) = 0
  OBVIOUS
<1>2. Levelled(<<>>, g)
  BY DEF Levelled
<1> HIDE DEF g
<1>3. Levels(<<>>) = g[0]
  BY <1>1, <1>2, LevelsAre
<1> QED BY <1>3 DEF g

\* The bits of a byte are worth the byte.
LEMMA ValueOfBits ==
  ASSUME NEW b \in Byte, NEW l, NEW k \in Nat,
         \A i \in 1..11 : l[k + i] = Bits(b)[i]
  PROVE  WellFormed(l, k + 1) /\ Value(l, k + 1) = b
<1>1. b \in Nat /\ b < 256
  BY FrameAssumption
<1>2. /\ l[k + 1] = 0 /\ l[k + 10] = 1 /\ l[k + 11] = 1
      /\ l[k + 2] = (b \div 1) % 2 /\ l[k + 3] = (b \div 2) % 2
      /\ l[k + 4] = (b \div 4) % 2 /\ l[k + 5] = (b \div 8) % 2
      /\ l[k + 6] = (b \div 16) % 2 /\ l[k + 7] = (b \div 32) % 2
      /\ l[k + 8] = (b \div 64) % 2 /\ l[k + 9] = (b \div 128) % 2
  <2>1. ASSUME NEW i \in 1..8 PROVE l[k + (i + 1)] = (b \div Weight[i]) % 2
    <3>1. i + 1 \in 1..11
      OBVIOUS
    <3>2. l[k + (i + 1)] = Bits(b)[i + 1]
      BY <3>1
    <3>3. Bits(b)[i + 1] = (b \div Weight[i]) % 2
      BY ONLY BitsFacts
    <3> QED BY ONLY <3>2, <3>3
  <2>2. l[k + 1] = 0 /\ l[k + 10] = 1 /\ l[k + 11] = 1
    <3>1. 1 \in 1..11 /\ 10 \in 1..11 /\ 11 \in 1..11
      OBVIOUS
    <3>2. l[k + 1] = Bits(b)[1] /\ l[k + 10] = Bits(b)[10] /\ l[k + 11] = Bits(b)[11]
      BY <3>1
    <3>3. Bits(b)[1] = 0 /\ Bits(b)[10] = 1 /\ Bits(b)[11] = 1
      BY ONLY BitsFacts
    <3> QED BY ONLY <3>2, <3>3
  <2>3. /\ 1 \in 1..8 /\ 2 \in 1..8 /\ 3 \in 1..8 /\ 4 \in 1..8
        /\ 5 \in 1..8 /\ 6 \in 1..8 /\ 7 \in 1..8 /\ 8 \in 1..8
    OBVIOUS
  <2>4. l[k + 2] = (b \div 1) % 2 /\ l[k + 3] = (b \div 2) % 2
        /\ l[k + 4] = (b \div 4) % 2 /\ l[k + 5] = (b \div 8) % 2
    <3>1. l[k + (1 + 1)] = (b \div 1) % 2 /\ l[k + (2 + 1)] = (b \div 2) % 2
          /\ l[k + (3 + 1)] = (b \div 4) % 2 /\ l[k + (4 + 1)] = (b \div 8) % 2
      BY <2>1, <2>3, WeightFacts
    <3> QED BY ONLY <3>1
  <2>5. l[k + 6] = (b \div 16) % 2 /\ l[k + 7] = (b \div 32) % 2
        /\ l[k + 8] = (b \div 64) % 2 /\ l[k + 9] = (b \div 128) % 2
    <3>1. l[k + (5 + 1)] = (b \div 16) % 2 /\ l[k + (6 + 1)] = (b \div 32) % 2
          /\ l[k + (7 + 1)] = (b \div 64) % 2 /\ l[k + (8 + 1)] = (b \div 128) % 2
      BY <2>1, <2>3, WeightFacts
    <3> QED BY ONLY <3>1
  <2> QED BY <2>2, <2>4, <2>5
<1>3. /\ k + 1 + 1 = k + 2 /\ k + 1 + 2 = k + 3 /\ k + 1 + 3 = k + 4
      /\ k + 1 + 4 = k + 5 /\ k + 1 + 5 = k + 6 /\ k + 1 + 6 = k + 7
      /\ k + 1 + 7 = k + 8 /\ k + 1 + 8 = k + 9 /\ k + 1 + 9 = k + 10
      /\ k + 1 + 10 = k + 11
  OBVIOUS
<1>4. Value(l, k + 1) = l[k+2] + 2*l[k+3] + 4*l[k+4] + 8*l[k+5] + 16*l[k+6]
                          + 32*l[k+7] + 64*l[k+8] + 128*l[k+9]
  BY ONLY <1>3 DEF Value
<1>5. Value(l, k + 1) =
        ((b \div 1) % 2) + 2*((b \div 2) % 2) + 4*((b \div 4) % 2) + 8*((b \div 8) % 2)
          + 16*((b \div 16) % 2) + 32*((b \div 32) % 2) + 64*((b \div 64) % 2)
          + 128*((b \div 128) % 2)
  BY ONLY <1>2, <1>4
<1>6. Value(l, k + 1) = b
  BY ONLY <1>1, <1>5, BinaryDigits
<1>7. WellFormed(l, k + 1)
  BY ONLY <1>2, <1>3 DEF WellFormed
<1> QED BY <1>6, <1>7

\* A receiver hears the frame that was encoded: every channel, and no other
\* byte (rmtDmxEncode, init_lut).
THEOREM HeardIsFrame ==
  ASSUME NEW r, r.brk \in Nat, r.brk >= 88, r.mab \in Nat, r.mab >= 4, ~r.inv,
         NEW f \in Frame
  PROVE  Heard(rmtDmxEncode(r, f)) = f
<1> DEFINE N == Slots
           sy == rmtDmxEncode(r, f)
<1>1. PICK w : Encoded(r, f, w) /\ sy = <<BreakSymbol(r)>> \o w[N]
  BY EncodedFacts
<1> HIDE DEF sy
<1>2. N \in Nat /\ N = LastChannel + 1
  BY FrameAssumption DEF Slots
<1>3. /\ w[0] = <<>> /\ \A n \in 0..N : w[n] \in Seq(Symbol)
      /\ \A n \in 1..N : w[n] = w[n - 1] \o ByteLut[f[n]]
  BY <1>1 DEF Encoded, Lut
<1>4. \A n \in 1..N : f[n] \in Byte
  BY <1>2 DEF Frame
<1> HIDE DEF N
<1> DEFINE T == {n \in 0..N : Spells(Levels(w[n]), f, n)}
<1>5. 0..N \subseteq T
  <2>1. 0 \in T
    <3>1. Spells(<<>>, f, 0)
      BY DEF Spells
    <3> QED BY <1>2, <1>3, <3>1, NoLevels
  <2>2. ASSUME NEW n \in T, n \in 0..N-1 PROVE n + 1 \in T
    <3>1. /\ n \in 0..N /\ n + 1 \in 1..N /\ (n + 1) - 1 = n /\ n + 1 \in 0..N
          /\ n \in Nat
      BY <1>2, <2>2
    <3>2. Spells(Levels(w[n]), f, n)
      OBVIOUS
    <3>3. PICK x \in Seq(Symbol), y \in Seq(Symbol) :
            x = w[n] /\ y = ByteLut[f[n + 1]] /\ Levels(y) = Bits(f[n + 1])
      BY <1>3, <1>4, <3>1, LutFacts
    <3>4. w[n + 1] = x \o y
      BY <1>3, <3>1, <3>3
    <3>5. Levels(x \o y) = Levels(x) \o Levels(y)
      BY LevelsOfConcat
    <3>6. Levels(w[n + 1]) = Levels(w[n]) \o Bits(f[n + 1])
      BY ONLY <3>3, <3>4, <3>5
    <3>7. Spells(Levels(w[n]) \o Bits(f[n + 1]), f, n + 1)
      BY <1>4, <3>1, <3>2, SpellsStep
    <3> QED BY <3>1, <3>6, <3>7
  <2> HIDE DEF T
  <2> QED BY ONLY <1>2, <2>1, <2>2, UpTo
<1> DEFINE l == Levels(w[N])
<1>6. Spells(l, f, N)
  <2>1. N \in 0..N
    BY <1>2
  <2> QED BY <1>5, <2>1
<1>7. sy # <<>> /\ sy[1] = BreakSymbol(r) /\ Tail(sy) = w[N]
  <2>1. PICK x \in Seq(Symbol) : x = w[N]
    BY <1>2, <1>3
  <2>2. BreakSymbol(r) \in Symbol
    BY DEF BreakSymbol, Symbol
  <2> QED BY <1>1, <2>1, <2>2, PrefixFacts
<1>8. ~(sy = <<>> \/ sy[1][1] # 0 \/ sy[1][2] < 88 \/ sy[1][4] < 4)
  BY <1>7 DEF BreakSymbol
<1> HIDE DEF l
<1>9. Len(l) \div 11 = N
  BY <1>2, <1>6 DEF Spells
<1>10. ASSUME NEW n \in 1..N
       PROVE  WellFormed(l, 11 * (n - 1) + 1) /\ Value(l, 11 * (n - 1) + 1) = f[n]
  <2>1. PICK k \in Nat : k = 11 * (n - 1)
    BY <1>2
  <2>2. \A i \in 1..11 : l[k + i] = Bits(f[n])[i]
    BY <1>6, <2>1 DEF Spells
  <2>3. WellFormed(l, k + 1) /\ Value(l, k + 1) = f[n]
    BY <1>4, <2>2, ValueOfBits
  <2> QED BY ONLY <2>1, <2>3
<1>11. Heard(sy) = [n \in 1..N |-> Value(l, 11 * (n - 1) + 1)]
  BY <1>7, <1>8, <1>9, <1>10 DEF Heard, l
<1>12. f = [n \in 1..N |-> f[n]]
  BY <1>2 DEF Frame
<1>13. Heard(sy) = f
  BY ONLY <1>10, <1>11, <1>12
<1> QED BY <1>13 DEF sy

-----------------------------------------------------------------------------
(***************************************************************************)
(* Frames and the datagrams that account for them.                         *)
(***************************************************************************)
\* A dark frame needs no datagram to account for it.
LEMMA DarkFacts == /\ Dark \in Frame
                   /\ \A mine : Sendable(mine, Dark)
<1>1. Dark \in Frame
  BY FrameAssumption DEF Dark, Frame
<1>2. ASSUME NEW mine PROVE Sendable(mine, Dark)
  <2>1. \A n \in 1..LastChannel+1 : Dark[n] = 0
    BY DEF Dark
  <2>2. 1 \in 1..LastChannel+1 /\ \A n \in Channel : n + 1 \in 1..LastChannel+1
    BY FrameAssumption DEF Channel
  <2>3. Dark[1] = 0 /\ \A n \in Channel : Dark[n + 1] = 0
    BY <2>1, <2>2
  <2> HIDE DEF Dark
  <2> QED BY <2>3 DEF Sendable
<1> QED BY <1>1, <1>2

\* The fields of a datagram.
LEMMA DatagramFacts ==
  ASSUME NEW d \in Datagrams
  PROVE  /\ d.artnet \in BOOLEAN /\ d.op \in Nat /\ d.len \in 0..640
         /\ d.universe \in Nat /\ d.length \in Nat /\ d.tail \in Seq(Byte)
         /\ Len(d.tail) = IF d.len > 60 THEN d.len - 60 ELSE 0
<1>1. d \in Datagram
  BY DatagramAssumption
<1> QED BY <1>1, DatagramAssumption, GatewayAssumption DEF Datagram

\* The channels a datagram has, and no bytes past its end (artnet_bridge.c).
LEMMA ClippedFacts ==
  ASSUME NEW s \in Seq(Byte), NEW length \in Nat
  PROVE  /\ Clipped(length, s) \in Seq(Byte)
         /\ \A n \in Channel : Channels(Clipped(length, s))[n] =
              IF n <= length /\ n <= Len(s) THEN s[n] ELSE 0
<1> DEFINE u == Clipped(length, s)
<1>1. PICK m \in Nat : m = IF length < Len(s) THEN length ELSE Len(s)
  OBVIOUS
<1>2. \A i \in 1..Len(s) : s[i] \in Byte
  BY ElementOfSeq
<1>3. \A i \in 1..m : i \in 1..Len(s)
  BY <1>1
<1>4. u = SubSeq(s, 1, m)
  BY <1>1 DEF Clipped
<1> HIDE DEF u
<1>5. u \in Seq(Byte) /\ Len(u) = m /\ \A i \in 1..m : u[i] = s[i]
  <2>1. 1 \in Int /\ m \in Int /\ \A i \in 1..m : s[i] \in Byte
    BY <1>2, <1>3
  <2>2. /\ SubSeq(s, 1, m) \in Seq(Byte)
        /\ Len(SubSeq(s, 1, m)) = IF 1 <= m THEN m - 1 + 1 ELSE 0
        /\ \A i \in 1..m-1+1 : SubSeq(s, 1, m)[i] = s[1 + i - 1]
    BY ONLY <2>1, SubSeqProperties
  <2>3. (IF 1 <= m THEN m - 1 + 1 ELSE 0) = m /\ m - 1 + 1 = m
        /\ \A i \in 1..m : 1 + i - 1 = i
    OBVIOUS
  <2> QED BY ONLY <1>4, <2>2, <2>3
<1>6. ASSUME NEW n \in Channel
      PROVE  Channels(u)[n] = IF n <= length /\ n <= Len(s) THEN s[n] ELSE 0
  <2>1. n \in 1..LastChannel /\ n \in Nat /\ n >= 1
    BY FrameAssumption DEF Channel
  <2>2. Channels(u)[n] = IF n <= m THEN u[n] ELSE 0
    BY <1>5, <2>1 DEF Channels
  <2>3. n <= m <=> n <= length /\ n <= Len(s)
    BY <1>1, <2>1
  <2>4. n <= m => n \in 1..m
    BY <2>1
  <2> QED BY <1>5, <2>2, <2>3, <2>4
<1> QED BY <1>5, <1>6 DEF u

\* What is routed of a datagram says what the datagram says.
LEMMA RoutedFacts ==
  ASSUME NEW d \in Datagrams, NEW p \in Routed(d)
  PROVE  p \in Packet /\ Says(d, p)
<1>1. /\ d.op \in Nat /\ d.len \in 0..640
      /\ d.universe \in Nat /\ d.length \in Nat /\ d.tail \in Seq(Byte)
      /\ Len(d.tail) = IF d.len > 60 THEN d.len - 60 ELSE 0
  BY DatagramFacts
<1>2. CASE d.op = ArtDmx /\ d.len >= 18
  <2>1. p = [universe |-> d.universe, sc |-> 0, data |-> Clipped(d.length, d.tail)]
    BY <1>2 DEF Routed
  <2>2. d.op # ArtNzs
    BY <1>2 DEF ArtDmx, ArtNzs
  <2>3. Clipped(d.length, d.tail) \in Seq(Byte) /\ 0 \in Byte
    BY <1>1, ClippedFacts, FrameAssumption
  <2>4. p \in Packet
    BY <1>1, <2>1, <2>3 DEF Packet
  <2>5. \A n \in Channel : Channels(p.data)[n] = Said(d, n)
    <3>1. \A n \in Channel : Channels(Clipped(d.length, d.tail))[n] =
              IF n <= d.length /\ n <= Len(d.tail) THEN d.tail[n] ELSE 0
      BY <1>1, ClippedFacts
    <3> QED BY <2>1, <2>2, <3>1 DEF Said
  <2> QED BY <2>1, <2>2, <2>4, <2>5 DEF Says, StartCode
<1>3. CASE ~(d.op = ArtDmx /\ d.len >= 18) /\ d.op = ArtNzs /\ d.len >= 61
  <2>1. p = [universe |-> d.universe, sc |-> d.tail[1],
             data |-> Clipped(d.length, Tail(d.tail))]
    BY <1>3 DEF Routed
  <2>2. Len(d.tail) >= 1 /\ d.tail # <<>> /\ d.tail[1] \in Byte /\ Tail(d.tail) \in Seq(Byte)
    <3>0. PICK l \in 0..640 : l = d.len /\ l >= 61
      BY <1>1, <1>3
    <3>1. Len(d.tail) >= 1 /\ Len(d.tail) \in Nat
      BY ONLY <1>1, <3>0
    <3>2. 1 \in 1..Len(d.tail)
      BY <3>1
    <3>3. d.tail # <<>>
      BY <3>1
    <3> QED BY <1>1, <3>1, <3>2, <3>3, ElementOfSeq, HeadTailProperties
  <2>3. Clipped(d.length, Tail(d.tail)) \in Seq(Byte)
    BY <1>1, <2>2, ClippedFacts
  <2>4. p \in Packet
    BY <1>1, <2>1, <2>2, <2>3 DEF Packet
  <2>5. \A n \in Channel : Channels(p.data)[n] = Said(d, n)
    <3>1. \A n \in Channel : Channels(Clipped(d.length, Tail(d.tail)))[n] =
              IF n <= d.length /\ n <= Len(Tail(d.tail)) THEN Tail(d.tail)[n] ELSE 0
      BY <1>1, <2>2, ClippedFacts
    <3> QED BY <1>3, <2>1, <3>1 DEF Said
  <2> QED BY <1>3, <2>1, <2>4, <2>5 DEF Says, StartCode
<1>4. ~(d.op = ArtDmx /\ d.len >= 18) /\ ~(d.op = ArtNzs /\ d.len >= 61) => FALSE
  BY DEF Routed
<1> QED BY <1>2, <1>3, <1>4

\* The two writes of a packet to a live buffer.
LEMMA StartCodeWritten ==
  ASSUME NEW f \in Frame, NEW c \in Byte, NEW mine, Sendable(mine, f),
         NEW d \in mine, c = StartCode(d)
  PROVE  [f EXCEPT ![1] = c] \in Frame /\ Sendable(mine, [f EXCEPT ![1] = c])
<1> DEFINE g == [f EXCEPT ![1] = c]
<1>1. 1 \in 1..LastChannel+1 /\ \A n \in Channel : n + 1 \in 1..LastChannel+1 /\ n + 1 # 1
  BY FrameAssumption DEF Channel
<1>2. g \in Frame /\ g[1] = c /\ \A n \in Channel : g[n + 1] = f[n + 1]
  BY <1>1 DEF Frame
<1> HIDE DEF g
<1>3. Sendable(mine, g)
  BY <1>2 DEF Sendable
<1> QED BY <1>2, <1>3 DEF g

\* The channels of a packet, as cells of a frame after the start code.
LEMMA ChannelsFacts ==
  ASSUME NEW s \in Seq(Byte)
  PROVE  /\ Channels(s) \in Seq(Byte) /\ Len(Channels(s)) = LastChannel
         /\ \A c \in Byte : /\ <<c>> \o Channels(s) \in Frame
                            /\ (<<c>> \o Channels(s))[1] = c
                            /\ \A n \in Channel :
                                 (<<c>> \o Channels(s))[n + 1] = Channels(s)[n]
<1> DEFINE h == Channels(s)
<1>1. LastChannel \in Nat /\ LastChannel >= 1 /\ 0 \in Byte
  BY FrameAssumption
<1>2. ASSUME NEW n \in 1..LastChannel PROVE (IF n <= Len(s) THEN s[n] ELSE 0) \in Byte
  <2>1. n <= Len(s) => n \in 1..Len(s)
    BY <1>1
  <2> QED BY <1>1, <2>1, ElementOfSeq
<1>3. h \in Seq(Byte) /\ Len(h) = LastChannel
  BY <1>1, <1>2 DEF Channels
<1> HIDE DEF h
<1>4. ASSUME NEW c \in Byte
      PROVE  /\ <<c>> \o h \in Frame /\ (<<c>> \o h)[1] = c
             /\ \A n \in Channel : (<<c>> \o h)[n + 1] = h[n]
  <2> DEFINE u == <<c>> \o h
  <2>1. <<c>> \in Seq(Byte) /\ Len(<<c>>) = 1 /\ <<c>>[1] = c
    OBVIOUS
  <2>2. Laid(Byte, u, <<c>>, h)
    BY <1>3, <2>1, ConcatFacts
  <2> HIDE DEF u
  <2>3. /\ u \in Seq(Byte) /\ Len(u) = 1 + LastChannel
        /\ u[1] = c /\ \A n \in 1..LastChannel : u[1 + n] = h[n]
    BY <1>3, <2>1, <2>2 DEF Laid
  <2>4. u \in Frame
    <3>1. 1 + LastChannel = LastChannel + 1
      BY <1>1
    <3>2. u \in [1..Len(u) -> Byte]
      BY <2>3, LenProperties
    <3> QED BY <2>3, <3>1, <3>2 DEF Frame
  <2>5. ASSUME NEW n \in Channel PROVE u[n + 1] = h[n]
    <3>1. n \in 1..LastChannel /\ 1 + n = n + 1
      BY <1>1 DEF Channel
    <3> QED BY <2>3, <3>1
  <2> QED BY <2>3, <2>4, <2>5 DEF u
<1> QED BY <1>3, <1>4 DEF h

\* The second one (mergeOutput).
LEMMA PacketMerged ==
  ASSUME NEW f \in Frame, NEW p \in Packet, NEW mine, Sendable(mine, f),
         NEW d \in mine, Says(d, p)
  PROVE  /\ <<f[1]>> \o Channels(p.data) \in Frame
         /\ Sendable(mine, <<f[1]>> \o Channels(p.data))
<1> DEFINE g == <<f[1]>> \o Channels(p.data)
<1>1. p.data \in Seq(Byte)
  BY DEF Packet
<1>2. f[1] \in Byte
  BY FrameAssumption DEF Frame
<1>3. /\ g \in Frame /\ g[1] = f[1]
      /\ \A n \in Channel : g[n + 1] = Channels(p.data)[n]
  BY <1>1, <1>2, ChannelsFacts
<1> HIDE DEF g
<1>4. Sendable(mine, g)
  BY <1>3 DEF Sendable, Says
<1> QED BY <1>3, <1>4 DEF g

\* More datagrams account for no fewer frames.
LEMMA MoreMine ==
  ASSUME NEW mine, NEW more, mine \subseteq more
  PROVE  /\ \A f : Sendable(mine, f) => Sendable(more, f)
         /\ \A r, s : Encodes(mine, r, s) => Encodes(more, r, s)
<1>1. ASSUME NEW f, Sendable(mine, f) PROVE Sendable(more, f)
  BY <1>1 DEF Sendable
<1>2. ASSUME NEW r, NEW s, Encodes(mine, r, s) PROVE Encodes(more, r, s)
  BY <1>1, <1>2 DEF Encodes
<1> QED BY <1>1, <1>2

\* The peripheral reads what was written, in two goes.
LEMMA Halves ==
  ASSUME NEW s \in Seq(Symbol)
  PROVE  LET h == SubSeq(s, 1, Len(s) \div 2)
         IN h \in Seq(Symbol) /\ h \o SubSeq(s, Len(h) + 1, Len(s)) = s
<1> DEFINE h == SubSeq(s, 1, Len(s) \div 2)
<1>1. PICK l \in Nat : l = Len(s)
  OBVIOUS
<1>2. l \div 2 \in 0..l
  OBVIOUS
<1>3. PICK m \in 0..l : m = Len(s) \div 2
  BY <1>1, <1>2
<1>4. h \in Seq(Symbol) /\ Len(h) = m
  <2>1. 1 \in Int /\ m \in Int /\ \A i \in 1..m : i \in 1..Len(s)
    BY <1>1
  <2>2. \A i \in 1..m : s[i] \in Symbol
    BY <2>1, ElementOfSeq
  <2>3. /\ SubSeq(s, 1, m) \in Seq(Symbol)
        /\ Len(SubSeq(s, 1, m)) = IF 1 <= m THEN m - 1 + 1 ELSE 0
    BY ONLY <2>1, <2>2, SubSeqProperties
  <2>4. (IF 1 <= m THEN m - 1 + 1 ELSE 0) = m
    BY <1>1
  <2> QED BY ONLY <1>3, <2>3, <2>4
<1>5. SubSeq(s, 1, m) \o SubSeq(s, m + 1, l) = SubSeq(s, 1, l)
  <2>1. 1 \in 1..Len(s)+1 /\ m \in 1-1..Len(s) /\ l \in m..Len(s)
    BY <1>1
  <2> QED BY ONLY <2>1, ConcatAdjacentSubSeq
<1>6. SubSeq(s, 1, l) = s
  BY <1>1, SubSeqFull
<1>7. h = SubSeq(s, 1, m)
  BY ONLY <1>3
<1> HIDE DEF h
<1>8. h \o SubSeq(s, Len(h) + 1, Len(s)) = s
  BY ONLY <1>1, <1>4, <1>5, <1>6, <1>7
<1> QED BY <1>4, <1>8 DEF h

-----------------------------------------------------------------------------
(***************************************************************************)
(* The invariant: first what a step leaves as it was.                      *)
(***************************************************************************)
\* The timing of the outputs.
LEMMA TimingKept ==
  LegalTiming /\ UNCHANGED outs => LegalTiming'
BY DEF LegalTiming, outs

\* The replies that were sent.
LEMMA ReplyKept ==
  RepliesTell /\ UNCHANGED <<outs, reply>> => RepliesTell'
BY DEF RepliesTell, outs

\* The symbol buffers.
LEMMA SymbolsKept ==
  SymbolsFit /\ UNCHANGED <<outs, sym, air>> => SymbolsFit'
BY DEF SymbolsFit, outs

\* The packet being routed.
LEMMA PacketKept ==
  PacketIsDatagram /\ UNCHANGED <<outs, rstep, ri, pkt, packets>> => PacketIsDatagram'
BY DEF PacketIsDatagram, Matches, outs

\* The frames on their way.
LEMMA FramesKept ==
  FramesAreSendable /\ UNCHANGED <<outs, live, tx, packets>> => FramesAreSendable'
BY DEF FramesAreSendable, Mine, Half, outs, tx

\* The network task runs once everything is set up, and leaves it so.
LEMMA StartedKept ==
  TypeOK /\ Unstarted /\ UNCHANGED outs /\ Listening => Unstarted' /\ Listening'
<1> SUFFICES ASSUME TypeOK, Unstarted, UNCHANGED outs, Listening
             PROVE  Unstarted' /\ Listening'
  OBVIOUS
<1>1. boot' = boot /\ cfg' = cfg /\ ready' = ready /\ boot > Outputs
  BY DEF outs, Listening
<1>2. ~(boot < Outputs) /\ ~(boot <= Outputs)
  <2>1. boot \in Int /\ Outputs \in Int
    BY GatewayAssumption DEF TypeOK
  <2> QED BY ONLY <1>1, <2>1
<1> QED BY <1>1, <1>2 DEF Unstarted, Listening

\* The transmit task and the peripheral leave what the start has set up.
LEMMA StartKept ==
  Unstarted /\ UNCHANGED <<outs, live, rx>> /\ (boot < Outputs => tstep' = "prime")
    => Unstarted'
BY DEF Unstarted, outs, rx

\* Calls fail no more often than the bound has it.
LEMMA Failures ==
  TypeOK /\ (Fail \/ UNCHANGED faults) => faults' \in 0..MaxFaults
<1> SUFFICES ASSUME TypeOK, Fail \/ UNCHANGED faults PROVE faults' \in 0..MaxFaults
  OBVIOUS
<1>1. faults \in 0..MaxFaults /\ MaxFaults \in Nat
  BY GatewayAssumption DEF TypeOK
<1>2. faults' = faults \/ (faults < MaxFaults /\ faults' = faults + 1)
  BY DEF Fail
<1> QED BY ONLY <1>1, <1>2

\* The memory of a device that has started.
LEMMA InitIInv == Init => IInv
<1> SUFFICES ASSUME Init PROVE IInv
  OBVIOUS
<1>1. Outputs \in Nat /\ Outputs >= 1 /\ 0 \in Output /\ Configs \subseteq [Output -> OutputConfig]
      /\ RxCap \in Nat /\ MaxPerTick \in Nat /\ MaxArrivals \in Nat /\ MaxFaults \in Nat
      /\ MaxSym \in Nat /\ 0 \in Byte
  BY GatewayAssumption, FrameAssumption DEF Output
<1>2. TypeOK
  BY <1>1, DarkFacts DEF Init, TypeOK, Fresh, NoPacket, Packet
<1>3. Unstarted
  BY <1>1 DEF Init, Unstarted, Fresh
<1>4. LegalTiming
  BY DEF Init, LegalTiming, Fresh
<1>5. RepliesTell
  BY DEF Init, RepliesTell
<1>6. SymbolsFit
  BY <1>1 DEF Init, SymbolsFit, Fresh
<1>7. PacketIsDatagram
  BY DEF Init, PacketIsDatagram
<1>8. FramesAreSendable
  BY DarkFacts DEF Init, FramesAreSendable, Fresh, Encodes
<1> QED BY <1>2, <1>3, <1>4, <1>5, <1>6, <1>7, <1>8 DEF IInv

\* The outputs are numbered, and there are Outputs of them.
LEMMA CountsOutputs ==
  ASSUME NEW S \in SUBSET Output, NEW T \in SUBSET Output, S \subseteq T
  PROVE  /\ Cardinality(S) \in Nat /\ Cardinality(T) \in 0..Outputs
         /\ Cardinality(S) <= Cardinality(T)
<1>1. Outputs \in Nat /\ 0 \in Int /\ Outputs - 1 \in Int
  BY GatewayAssumption
<1>2. IsFiniteSet(Output) /\ Cardinality(Output) = IF 0 > Outputs - 1 THEN 0 ELSE Outputs - 1 - 0 + 1
  BY <1>1, FS_Interval DEF Output
<1>3. Cardinality(Output) = Outputs
  BY <1>1, <1>2
<1>4. IsFiniteSet(T) /\ Cardinality(T) <= Cardinality(Output)
  BY <1>2, FS_Subset
<1>5. IsFiniteSet(S) /\ Cardinality(S) <= Cardinality(T)
  BY <1>4, FS_Subset
<1>6. Cardinality(S) \in Nat /\ Cardinality(T) \in Nat
  BY <1>4, <1>5, FS_CardinalityType
<1> QED BY <1>1, <1>3, <1>4, <1>5, <1>6

-----------------------------------------------------------------------------
\* The start of the firmware.
LEMMA BootIInv == IInv /\ Boot => IInv'
<1> SUFFICES ASSUME IInv, Boot PROVE IInv'
  OBVIOUS
<1>0. /\ TypeOK /\ Unstarted /\ LegalTiming /\ RepliesTell /\ SymbolsFit
      /\ PacketIsDatagram /\ FramesAreSendable
  BY DEF IInv
<1>c. Outputs \in Nat /\ Outputs >= 1 /\ 0 \in Output /\ MaxSym \in Nat
      /\ RxCap \in Nat /\ MaxPerTick \in Nat /\ MaxArrivals \in Nat /\ MaxFaults \in Nat
      /\ \A o \in Output : o \in Nat /\ o < Outputs
  BY GatewayAssumption, FrameAssumption DEF Output
<1>1. CASE SanitizeOutputs
  <2>1. /\ boot = -1 /\ boot' = 0 /\ cfg' = [o \in Output |-> Sane(cfg[o])]
        /\ UNCHANGED <<ready, rmt, live, rx, tx, faults>>
    BY <1>1 DEF SanitizeOutputs
  <2>2. \A o \in Output : ~ready[o]
    BY <1>0, <1>c, <2>1 DEF Unstarted
  <2>3. ASSUME NEW c \in OutputConfig
        PROVE  /\ Sane(c) \in OutputConfig
               /\ Sane(c).brk \in 88..300 /\ Sane(c).mab \in 0..300
    <3>1. /\ Clamp(c.uni, 0, 15) \in Int
          /\ Clamp(c.brk, 88, 300) \in 88..300 /\ Clamp(c.mab, 0, 300) \in 0..300
      <4>1. c.uni \in Int /\ c.brk \in Int /\ c.mab \in Int
        BY DEF OutputConfig
      <4> QED BY ONLY <4>1 DEF Clamp
    <3>2. PICK u \in Int, b \in 88..300, m \in 0..300 :
            u = Clamp(c.uni, 0, 15) /\ b = Clamp(c.brk, 88, 300) /\ m = Clamp(c.mab, 0, 300)
      BY <3>1
    <3>3. Sane(c) = [c EXCEPT !.en = c.en /\ c.pins, !.uni = u, !.brk = b, !.mab = m]
      BY <3>2 DEF Sane
    <3>4. (c.en /\ c.pins) \in BOOLEAN
      BY DEF OutputConfig
    <3>5. PICK e \in BOOLEAN : e = (c.en /\ c.pins)
      BY <3>4
    <3>6. Sane(c) = [c EXCEPT !.en = e, !.uni = u, !.brk = b, !.mab = m]
      BY ONLY <3>3, <3>5
    <3>7. /\ Sane(c) \in OutputConfig /\ Sane(c).brk = b /\ Sane(c).mab = m
      <4>1. /\ c = [en |-> c.en, pins |-> c.pins, tx |-> c.tx, uni |-> c.uni,
                    brk |-> c.brk, mab |-> c.mab, inv |-> c.inv]
            /\ c.pins \in BOOLEAN /\ c.tx \in BOOLEAN /\ c.inv \in BOOLEAN
        BY DEF OutputConfig
      <4>2. Sane(c) = [en |-> e, pins |-> c.pins, tx |-> c.tx, uni |-> u,
                       brk |-> b, mab |-> m, inv |-> c.inv]
        BY ONLY <3>6, <4>1
      <4>3. b \in Int /\ m \in Int
        OBVIOUS
      <4>4. Sane(c).brk = b /\ Sane(c).mab = m
        BY ONLY <4>2
      <4>5. Sane(c) \in OutputConfig
        BY ONLY <4>1, <4>2, <4>3 DEF OutputConfig
      <4> QED BY <4>4, <4>5
    <3> QED BY <3>7
  <2>4. ASSUME NEW o \in Output
        PROVE  /\ cfg'[o] \in OutputConfig
               /\ cfg'[o].brk \in 88..300 /\ cfg'[o].mab \in 0..300
    <3>1. cfg[o] \in OutputConfig
      BY <1>0 DEF TypeOK
    <3> QED BY <2>1, <2>3, <3>1
  <2>5. TypeOK'
    <3>1. cfg' \in [Output -> OutputConfig]
      BY <2>1, <2>4
    <3>2. boot' \in -1..Outputs+1 /\ UNCHANGED <<ready, rmt, live, rx, tx, faults>>
      BY <1>c, <2>1
    <3> QED BY ONLY <1>0, <3>1, <3>2 DEF TypeOK, rx, tx
  <2>6. Unstarted'
    BY <1>0, <1>c, <2>1, <2>2, <2>4 DEF Unstarted, rx, tx
  <2>7. LegalTiming' /\ RepliesTell' /\ SymbolsFit'
    BY <1>0, <2>1 DEF LegalTiming, RepliesTell, SymbolsFit, rx, tx
  <2>8. PacketIsDatagram'
    BY <1>0, <1>c, <2>1 DEF PacketIsDatagram, Unstarted, rx
  <2>9. FramesAreSendable'
    <3>1. \A o \in Output : live'[o] = Dark
      BY <1>0, <1>c, <2>1 DEF Unstarted, Fresh
    <3>2. \A o \in Output : /\ sym'[o] = <<>> /\ shown'[o] = <<>> /\ air'[o] = "idle"
      BY <1>0, <2>1, <2>2 DEF SymbolsFit, FramesAreSendable, tx
    <3>3. tstep' = "prime" /\ txFrame' = Dark
      BY <1>0, <1>c, <2>1 DEF Unstarted, FramesAreSendable, tx
    <3> QED BY <3>1, <3>2, <3>3, DarkFacts DEF FramesAreSendable, Encodes
  <2> QED BY <2>5, <2>6, <2>7, <2>8, <2>9 DEF IInv
<1>2. CASE OutputInit
  <2>1. /\ boot \in Output /\ boot' = boot + 1
        /\ UNCHANGED <<cfg, live, rx, tx>>
        /\ \/ /\ cfg[boot].en /\ cfg[boot].tx
              /\ ready' = [ready EXCEPT ![boot] = TRUE]
              /\ rmt' = [rmt EXCEPT ![boot] = [brk |-> cfg[boot].brk,
                                               mab |-> cfg[boot].mab,
                                               inv |-> cfg[boot].inv]]
           \/ UNCHANGED <<ready, rmt>>
    BY <1>2 DEF OutputInit
  <2>2. faults' \in 0..MaxFaults
    <3>1. Fail \/ UNCHANGED faults
      BY <1>2 DEF OutputInit
    <3> QED BY <1>0, <3>1, Failures
  <2>3. ~ready[boot] /\ boot \in Nat /\ boot < Outputs
    BY <1>0, <1>c, <2>1 DEF Unstarted
  <2>4. cfg[boot] \in OutputConfig /\ cfg[boot].brk \in 88..300 /\ cfg[boot].mab \in 0..300
    BY <1>0, <2>1, <2>3 DEF TypeOK, Unstarted
  <2>5. TypeOK'
    <3>1. ready' \in [Output -> BOOLEAN]
      BY <1>0, <2>1 DEF TypeOK
    <3>2. rmt' \in [Output -> [brk : Int, mab : Int, inv : BOOLEAN]]
      <4>1. PICK r \in [brk : Int, mab : Int, inv : BOOLEAN] :
              r = [brk |-> cfg[boot].brk, mab |-> cfg[boot].mab, inv |-> cfg[boot].inv]
        BY <2>4 DEF OutputConfig
      <4>2. rmt \in [Output -> [brk : Int, mab : Int, inv : BOOLEAN]]
        BY <1>0 DEF TypeOK
      <4>3. rmt' = [rmt EXCEPT ![boot] = r] \/ rmt' = rmt
        BY ONLY <2>1, <4>1
      <4> QED BY ONLY <2>1, <4>2, <4>3
    <3>3. boot' \in -1..Outputs+1
      BY <1>c, <2>1, <2>3
    <3> QED BY <1>0, <2>1, <2>2, <3>1, <3>2, <3>3 DEF TypeOK, rx, tx
  <2>6. Unstarted'
    <3>1. ASSUME NEW o \in Output, ready'[o]
          PROVE  o < boot' /\ cfg'[o].en
      <4>1. CASE o = boot
        <5>1. boot < boot'
          BY <2>1, <2>3
        <5>2. cfg[boot].en
          BY <1>0, <2>1, <2>3, <3>1, <4>1 DEF TypeOK
        <5> QED BY <2>1, <4>1, <5>1, <5>2
      <4>2. CASE o # boot
        <5>1. ready[o]
          BY <1>0, <2>1, <3>1, <4>2 DEF TypeOK
        <5>2. o < boot /\ cfg[o].en
          BY <1>0, <5>1 DEF Unstarted
        <5> QED BY <1>c, <2>1, <2>3, <5>2
      <4> QED BY <4>1, <4>2
    <3>2. \A o \in Output : cfg'[o].brk \in 88..300 /\ cfg'[o].mab \in 0..300
      BY <1>0, <2>1, <2>3 DEF Unstarted
    <3>3. (boot < Outputs) /\ (boot <= Outputs)
      BY <1>c, <2>3
    <3> QED BY <1>0, <2>1, <3>1, <3>2, <3>3 DEF Unstarted, rx, tx
  <2>7. LegalTiming'
    <3>1. ASSUME NEW o \in Output, ready'[o]
          PROVE  rmt'[o].brk \in 88..300 /\ rmt'[o].mab \in 0..300
      <4>1. CASE rmt' = rmt /\ ready' = ready
        BY <1>0, <3>1, <4>1 DEF LegalTiming
      <4>2. CASE o # boot
        <5>1. ready[o] /\ rmt'[o] = rmt[o]
          BY <1>0, <2>1, <3>1, <4>2 DEF TypeOK
        <5> QED BY <1>0, <5>1 DEF LegalTiming
      <4>3. CASE o = boot /\ ~(rmt' = rmt /\ ready' = ready)
        <5>1. rmt' = [rmt EXCEPT ![boot] = [brk |-> cfg[boot].brk,
                                            mab |-> cfg[boot].mab,
                                            inv |-> cfg[boot].inv]]
          BY <2>1, <4>3
        <5>2. PICK r : r = [brk |-> cfg[boot].brk, mab |-> cfg[boot].mab,
                            inv |-> cfg[boot].inv]
          OBVIOUS
        <5>3. r.brk = cfg[boot].brk /\ r.mab = cfg[boot].mab
          BY ONLY <5>2
        <5>4. rmt'[o] = r
          BY ONLY <1>0, <2>1, <4>3, <5>1, <5>2 DEF TypeOK
        <5> QED BY ONLY <2>4, <5>3, <5>4
      <4> QED BY <4>1, <4>2, <4>3
    <3> QED BY <3>1 DEF LegalTiming
  <2>8. RepliesTell'
    <3>1. reply' = -1
      BY <1>0, <1>c, <2>1, <2>3 DEF Unstarted, rx
    <3> QED BY <3>1 DEF RepliesTell
  <2>9. SymbolsFit'
    BY <1>0, <2>1 DEF SymbolsFit, TypeOK, tx
  <2>10. PacketIsDatagram'
    BY <1>0, <1>c, <2>1, <2>3 DEF PacketIsDatagram, Unstarted, rx
  <2>11. FramesAreSendable'
    <3>1. sym[boot] = <<>> /\ shown[boot] = <<>> /\ air[boot] = "idle"
      BY <1>0, <2>1, <2>3 DEF SymbolsFit, FramesAreSendable
    <3>2. \A o \in Output : o # boot => rmt'[o] = rmt[o] /\ ready'[o] = ready[o]
      BY <1>0, <2>1 DEF TypeOK
    <3>3. \A o \in Output : Mine(o)' = Mine(o)
      BY <2>1 DEF Mine, rx
    <3>4. /\ tstep' = tstep /\ txFrame' = txFrame /\ sym' = sym /\ air' = air
          /\ line' = line /\ shown' = shown /\ live' = live /\ ti' = ti
      BY <2>1 DEF tx
    <3>5. tstep = "prime"
      BY <1>0, <1>c, <2>1, <2>3 DEF Unstarted
    <3>6. ASSUME NEW o \in Output
          PROVE  /\ Encodes(Mine(o)', rmt'[o], sym'[o]) /\ Encodes(Mine(o)', rmt'[o], shown'[o])
                 /\ ~ready'[o] => shown'[o] = <<>>
      <4>1. CASE o = boot
        BY <3>1, <3>4, <4>1 DEF Encodes
      <4>2. CASE o # boot
        BY <1>0, <3>2, <3>3, <3>4, <4>2 DEF FramesAreSendable
      <4> QED BY <4>1, <4>2
    <3>7. ASSUME NEW o \in Output PROVE Sendable(Mine(o)', live'[o])
      BY <1>0, <3>3, <3>4 DEF FramesAreSendable
    <3>8. \A o \in Output :
            /\ air'[o] # "idle" => sym'[o] # <<>>
            /\ air'[o] = "tail" => line'[o] = SubSeq(sym'[o], 1, Half(o)')
      BY <1>0, <3>4 DEF FramesAreSendable, Half
    <3>9. tstep' = "prime" /\ txFrame' = Dark
      BY <1>0, <3>4, <3>5 DEF FramesAreSendable
    <3> QED BY <3>6, <3>7, <3>8, <3>9 DEF FramesAreSendable
  <2> QED BY <2>5, <2>6, <2>7, <2>8, <2>9, <2>10, <2>11 DEF IInv
<1>3. CASE ArtnetInit
  <2>1. /\ boot = Outputs /\ boot' = Outputs + 1
        /\ UNCHANGED <<cfg, ready, rmt, live, rx, tx, faults>>
    BY <1>3 DEF ArtnetInit
  <2>2. boot' \in -1..Outputs+1
    BY <1>c, <2>1
  <2>3. TypeOK'
    BY ONLY <1>0, <2>1, <2>2 DEF TypeOK, rx, tx
  <2>4. Unstarted'
    <3>1. /\ ~(boot' < Outputs) /\ ~(boot' <= Outputs) /\ boot # -1
          /\ \A o \in Output : o < boot'
      BY <1>c, <2>1
    <3> QED BY <1>0, <2>1, <3>1 DEF Unstarted
  <2>5. LegalTiming' /\ RepliesTell' /\ SymbolsFit'
    BY <1>0, <2>1 DEF LegalTiming, RepliesTell, SymbolsFit, rx, tx
  <2>6. PacketIsDatagram'
    BY <1>0, <2>1 DEF PacketIsDatagram, Matches, rx
  <2>7. FramesAreSendable'
    BY <1>0, <2>1 DEF FramesAreSendable, Mine, Half, rx, tx
  <2> QED BY <2>3, <2>4, <2>5, <2>6, <2>7 DEF IInv
<1>4. CASE ArtnetInitFails
  <2>1. /\ boot = Outputs /\ boot' = -1
        /\ ready' = Fresh.ready /\ rmt' = Fresh.rmt /\ live' = Fresh.live
        /\ tstep' = "prime" /\ ti' = 0 /\ txFrame' = Dark
        /\ sym' = Fresh.sym /\ air' = Fresh.air
        /\ line' = Fresh.sym /\ shown' = Fresh.sym
        /\ UNCHANGED <<cfg, rx>>
    BY <1>4 DEF ArtnetInitFails
  <2>2. boot' \in -1..Outputs+1 /\ faults' \in 0..MaxFaults
    BY <1>0, <1>4, <1>c, <2>1, Failures DEF ArtnetInitFails
  <2>3. /\ ready' \in [Output -> BOOLEAN] /\ \A o \in Output : ~ready'[o]
        /\ rmt' \in [Output -> [brk : Int, mab : Int, inv : BOOLEAN]]
        /\ live' \in [Output -> Frame] /\ \A o \in Output : live'[o] = Dark
        /\ sym' \in [Output -> Seq(Symbol)] /\ \A o \in Output : sym'[o] = <<>>
        /\ air' \in [Output -> {"idle", "head", "tail"}]
        /\ \A o \in Output : air'[o] = "idle"
        /\ line' \in [Output -> Seq(Symbol)]
        /\ shown' \in [Output -> Seq(Symbol)] /\ \A o \in Output : shown'[o] = <<>>
    BY <2>1, DarkFacts DEF Fresh
  <2>4. TypeOK'
    <3>1. txFrame' \in Frame /\ ti' \in Output
      BY <1>c, <2>1, DarkFacts
    <3> QED BY ONLY <1>0, <2>1, <2>2, <2>3, <3>1 DEF TypeOK, rx
  <2>5. Unstarted'
    BY <1>0, <1>c, <2>1, <2>3 DEF Unstarted, rx
  <2>6. LegalTiming'
    BY <2>3 DEF LegalTiming
  <2>7. RepliesTell'
    BY <1>0, <1>c, <2>1 DEF RepliesTell, Unstarted, rx
  <2>8. SymbolsFit'
    BY <1>c, <2>3 DEF SymbolsFit
  <2>9. PacketIsDatagram'
    BY <1>0, <2>1, <1>c DEF PacketIsDatagram, Unstarted, rx
  <2>10. FramesAreSendable'
    BY <2>1, <2>3, DarkFacts DEF FramesAreSendable, Encodes
  <2> QED BY <2>4, <2>5, <2>6, <2>7, <2>8, <2>9, <2>10 DEF IInv
<1> QED BY <1>1, <1>2, <1>3, <1>4 DEF Boot

-----------------------------------------------------------------------------
(***************************************************************************)
(* The steps of the network task, the transmit task and the peripheral.    *)
(***************************************************************************)
\* What arrives.
LEMMA ArriveIInv == IInv /\ Arrive => IInv'
<1> SUFFICES ASSUME IInv, Arrive PROVE IInv'
  OBVIOUS
<1>0. /\ TypeOK /\ Unstarted /\ LegalTiming /\ RepliesTell /\ SymbolsFit
      /\ PacketIsDatagram /\ FramesAreSendable
  BY DEF IInv
<1>1. /\ Listening /\ arrived < MaxArrivals /\ arrived' = arrived + 1
      /\ UNCHANGED <<outs, live, taken, rstep, ri, pkt, reply, packets, tx, faults>>
  BY DEF Arrive
<1>2. PICK d \in Datagrams :
        socket' = IF Len(socket) < RxCap THEN Append(socket, d) ELSE socket
  BY DEF Arrive
<1>3. socket' \in Seq(Datagrams) /\ Len(socket') <= RxCap
  <2>1. socket \in Seq(Datagrams) /\ Len(socket) \in Nat /\ Len(socket) <= RxCap
        /\ RxCap \in Nat
    BY <1>0, GatewayAssumption DEF TypeOK
  <2>2. Append(socket, d) \in Seq(Datagrams) /\ Len(Append(socket, d)) = Len(socket) + 1
    BY <2>1, AppendProperties
  <2>3. CASE Len(socket) < RxCap
    BY <1>2, <2>1, <2>2, <2>3
  <2>4. CASE ~(Len(socket) < RxCap)
    BY <1>2, <2>1, <2>4
  <2> QED BY <2>3, <2>4
<1>4. TypeOK'
  <2>1. arrived' \in 0..MaxArrivals
    BY <1>0, <1>1, GatewayAssumption DEF TypeOK
  <2> QED BY ONLY <1>0, <1>1, <1>3, <2>1 DEF TypeOK, outs, tx
<1>5. Unstarted'
  BY <1>0, <1>1, StartedKept
<1>6. LegalTiming' /\ RepliesTell' /\ SymbolsFit' /\ PacketIsDatagram' /\ FramesAreSendable'
  <2>1. UNCHANGED <<outs, sym, air>> /\ UNCHANGED <<outs, reply>> /\ UNCHANGED outs
        /\ UNCHANGED <<outs, rstep, ri, pkt, packets>> /\ UNCHANGED <<outs, live, tx, packets>>
    BY <1>1 DEF tx
  <2> QED BY <1>0, <2>1, TimingKept, ReplyKept, SymbolsKept, PacketKept, FramesKept
<1> QED BY <1>4, <1>5, <1>6 DEF IInv

\* Reading a datagram (artnet_poll).
LEMMA ReceiveFacts ==
  TypeOK /\ Receive =>
    /\ Head(socket) \in Datagrams /\ socket' \in Seq(Datagrams)
    /\ Len(socket') <= RxCap /\ taken' \in 0..MaxPerTick
<1> SUFFICES ASSUME TypeOK, Receive
             PROVE  /\ Head(socket) \in Datagrams /\ socket' \in Seq(Datagrams)
                    /\ Len(socket') <= RxCap /\ taken' \in 0..MaxPerTick
  OBVIOUS
<1>1. socket \in Seq(Datagrams) /\ socket # <<>> /\ Len(socket) <= RxCap
      /\ taken \in 0..MaxPerTick /\ RxCap \in Nat /\ MaxPerTick \in Nat
  BY GatewayAssumption DEF TypeOK, Receive
<1>2. /\ socket' = Tail(socket) /\ taken < MaxPerTick
      /\ taken' = 0 \/ taken' = taken + 1
  BY DEF Receive
<1>3. Head(socket) \in Datagrams /\ Tail(socket) \in Seq(Datagrams)
      /\ Len(Tail(socket)) = Len(socket) - 1 /\ Len(socket) \in Nat
  BY <1>1, HeadTailProperties, LenProperties
<1>4. taken' \in 0..MaxPerTick
  BY ONLY <1>1, <1>2
<1> QED BY <1>1, <1>2, <1>3, <1>4

\* A datagram is dropped, routed or answered.
LEMMA ReceiveIInv == IInv /\ (Drop \/ StartRoute \/ HandlePoll) => IInv'
<1> SUFFICES ASSUME IInv, Drop \/ StartRoute \/ HandlePoll PROVE IInv'
  OBVIOUS
<1>0. /\ TypeOK /\ Unstarted /\ LegalTiming /\ RepliesTell /\ SymbolsFit
      /\ PacketIsDatagram /\ FramesAreSendable
  BY DEF IInv
<1>1. /\ Receive /\ Listening /\ rstep = "poll"
      /\ UNCHANGED <<outs, live, ri, arrived, tx>>
  BY DEF Drop, StartRoute, HandlePoll, Receive
<1>2. /\ Head(socket) \in Datagrams /\ socket' \in Seq(Datagrams)
      /\ Len(socket') <= RxCap /\ taken' \in 0..MaxPerTick
  BY <1>0, <1>1, ReceiveFacts
<1>3. Unstarted'
  BY <1>0, <1>1, StartedKept
<1>4. LegalTiming' /\ SymbolsFit'
  <2>1. UNCHANGED <<outs, sym, air>> /\ UNCHANGED outs
    BY <1>1 DEF tx
  <2> QED BY <1>0, <2>1, TimingKept, SymbolsKept
<1>5. CASE Drop
  <2>1. UNCHANGED <<rstep, pkt, reply, packets, faults>>
    BY <1>5 DEF Drop
  <2>2. TypeOK'
    BY ONLY <1>0, <1>1, <1>2, <2>1 DEF TypeOK, outs, tx
  <2>3. RepliesTell' /\ PacketIsDatagram' /\ FramesAreSendable'
    <3>1. UNCHANGED <<outs, reply>> /\ UNCHANGED <<outs, rstep, ri, pkt, packets>>
          /\ UNCHANGED <<outs, live, tx, packets>>
      BY <1>1, <2>1
    <3> QED BY <1>0, <3>1, ReplyKept, PacketKept, FramesKept
  <2> QED BY <1>3, <1>4, <2>2, <2>3 DEF IInv
<1>6. CASE StartRoute
  <2>1. /\ pkt' \in Routed(Head(socket)) /\ packets' = packets \cup {Head(socket)}
        /\ rstep' = "start" /\ UNCHANGED <<reply, faults>>
    BY <1>6 DEF StartRoute
  <2>2. pkt' \in Packet /\ Says(Head(socket), pkt')
    BY <1>2, <2>1, RoutedFacts
  <2>3. TypeOK'
    <3>1. packets' \in SUBSET Datagrams /\ rstep' \in {"poll", "start", "merge"}
      BY <1>0, <1>2, <2>1 DEF TypeOK
    <3> QED BY ONLY <1>0, <1>1, <1>2, <2>1, <2>2, <3>1 DEF TypeOK, outs, tx
  <2>4. RepliesTell'
    <3>1. UNCHANGED <<outs, reply>>
      BY <1>1, <2>1
    <3> QED BY <1>0, <3>1, ReplyKept
  <2>5. PacketIsDatagram'
    <3>1. Head(socket) \in packets' /\ rstep' # "merge"
      BY <2>1
    <3> QED BY <2>2, <3>1 DEF PacketIsDatagram
  <2>6. FramesAreSendable'
    <3>1. \A o \in Output : Mine(o) \subseteq Mine(o)'
      BY <1>1, <2>1 DEF Mine, outs
    <3>2. /\ cfg' = cfg /\ ready' = ready /\ rmt' = rmt /\ live' = live
          /\ tstep' = tstep /\ ti' = ti /\ txFrame' = txFrame /\ sym' = sym
          /\ air' = air /\ line' = line /\ shown' = shown /\ ti \in Output
      BY <1>0, <1>1 DEF outs, tx, TypeOK
    <3>3. \A o \in Output : Sendable(Mine(o)', live'[o])
      BY <1>0, <3>1, <3>2, MoreMine DEF FramesAreSendable
    <3>4. tstep' = "kick" => ready'[ti'] /\ Sendable(Mine(ti)', txFrame')
      BY <1>0, <3>1, <3>2, MoreMine DEF FramesAreSendable
    <3>5. \A o \in Output :
            /\ Encodes(Mine(o)', rmt'[o], sym'[o]) /\ Encodes(Mine(o)', rmt'[o], shown'[o])
      BY <1>0, <3>1, <3>2, MoreMine DEF FramesAreSendable
    <3>6. \A o \in Output :
            /\ air'[o] # "idle" => sym'[o] # <<>>
            /\ air'[o] = "tail" => line'[o] = SubSeq(sym'[o], 1, Half(o)')
            /\ ~ready'[o] => shown'[o] = <<>>
      BY <1>0, <3>2 DEF FramesAreSendable, Half
    <3>7. tstep' = "prime" => txFrame' = Dark
      BY <1>0, <3>2 DEF FramesAreSendable
    <3>8. Mine(ti)' = {d \in packets' : d.universe = cfg'[ti'].uni}
      BY DEF Mine
    <3> QED BY <3>2, <3>3, <3>4, <3>5, <3>6, <3>7 DEF FramesAreSendable
  <2> QED BY <1>3, <1>4, <2>3, <2>4, <2>5, <2>6 DEF IInv
<1>7. CASE HandlePoll
  <2>1. /\ UNCHANGED <<rstep, pkt, packets>>
        /\ reply' = Ports \/ UNCHANGED reply
        /\ Fail \/ UNCHANGED faults
    BY <1>7 DEF HandlePoll
  <2>2. Ports \in 0..Outputs /\ Cardinality({o \in Output : ready[o]}) <= Ports
    <3> DEFINE S == {o \in Output : ready[o]}
               T == {o \in Output : cfg[o].en}
    <3>1. S \in SUBSET Output /\ T \in SUBSET Output /\ S \subseteq T
      BY <1>0 DEF Unstarted
    <3> HIDE DEF S, T
    <3>2. Cardinality(T) \in 0..Outputs /\ Cardinality(S) <= Cardinality(T)
      BY ONLY <3>1, CountsOutputs
    <3> QED BY <3>2 DEF Ports, S, T
  <2>3. TypeOK'
    <3>1. faults' \in 0..MaxFaults
      BY <1>0, <2>1, Failures
    <3>2. reply' \in -1..Outputs
      <4>1. reply \in -1..Outputs /\ Ports \in -1..Outputs
        BY <1>0, <2>2, GatewayAssumption DEF TypeOK
      <4> QED BY ONLY <2>1, <4>1
    <3> QED BY ONLY <1>0, <1>1, <1>2, <2>1, <3>1, <3>2 DEF TypeOK, outs, tx
  <2>4. RepliesTell'
    <3>1. ready' = ready
      BY <1>1 DEF outs
    <3>2. CASE reply' = reply
      BY <1>0, <3>1, <3>2 DEF RepliesTell
    <3>3. CASE reply' = Ports
      BY <2>2, <3>1, <3>3 DEF RepliesTell
    <3> QED BY <2>1, <3>2, <3>3
  <2>5. PacketIsDatagram' /\ FramesAreSendable'
    <3>1. UNCHANGED <<outs, rstep, ri, pkt, packets>> /\ UNCHANGED <<outs, live, tx, packets>>
      BY <1>1, <2>1
    <3> QED BY <1>0, <3>1, PacketKept, FramesKept
  <2> QED BY <1>3, <1>4, <2>3, <2>4, <2>5 DEF IInv
<1> QED BY <1>5, <1>6, <1>7

\* The end of a tick of the network task.
LEMMA EndTickIInv == IInv /\ EndTick => IInv'
<1> SUFFICES ASSUME IInv, EndTick PROVE IInv'
  OBVIOUS
<1>0. /\ TypeOK /\ Unstarted /\ LegalTiming /\ RepliesTell /\ SymbolsFit
      /\ PacketIsDatagram /\ FramesAreSendable
  BY DEF IInv
<1>1. /\ Listening /\ taken' = 0
      /\ UNCHANGED <<outs, live, socket, rstep, ri, pkt, reply, packets, arrived,
                     tx, faults>>
  BY DEF EndTick
<1>2. TypeOK'
  <2>1. taken' \in 0..MaxPerTick
    BY <1>1, GatewayAssumption
  <2> QED BY ONLY <1>0, <1>1, <2>1 DEF TypeOK, outs, tx
<1>3. Unstarted'
  BY <1>0, <1>1, StartedKept
<1>4. LegalTiming' /\ RepliesTell' /\ SymbolsFit' /\ PacketIsDatagram' /\ FramesAreSendable'
  <2>1. UNCHANGED <<outs, sym, air>> /\ UNCHANGED <<outs, reply>> /\ UNCHANGED outs
        /\ UNCHANGED <<outs, rstep, ri, pkt, packets>> /\ UNCHANGED <<outs, live, tx, packets>>
    BY <1>1 DEF tx
  <2> QED BY <1>0, <2>1, TimingKept, ReplyKept, SymbolsKept, PacketKept, FramesKept
<1> QED BY <1>2, <1>3, <1>4 DEF IInv

\* The packet on its way through the outputs.
LEMMA RouteIInv == IInv /\ (Skip \/ WriteStartCode \/ MergeOutput) => IInv'
<1> SUFFICES ASSUME IInv, Skip \/ WriteStartCode \/ MergeOutput PROVE IInv'
  OBVIOUS
<1>0. /\ TypeOK /\ Unstarted /\ LegalTiming /\ RepliesTell /\ SymbolsFit
      /\ PacketIsDatagram /\ FramesAreSendable
  BY DEF IInv
<1>1. /\ rstep # "poll"
      /\ UNCHANGED <<outs, socket, taken, pkt, reply, packets, arrived, tx, faults>>
  BY DEF Skip, WriteStartCode, MergeOutput
<1>2. Listening
  <2>1. ~(boot <= Outputs) /\ boot \in Int /\ Outputs \in Int
    BY <1>0, <1>1, GatewayAssumption DEF Unstarted, TypeOK
  <2> QED BY <2>1 DEF Listening
<1>3. Unstarted' /\ LegalTiming' /\ RepliesTell' /\ SymbolsFit'
  <2>1. UNCHANGED <<outs, sym, air>> /\ UNCHANGED <<outs, reply>> /\ UNCHANGED outs
    BY <1>1 DEF tx
  <2> QED BY <1>0, <1>2, <2>1, StartedKept, TimingKept, ReplyKept, SymbolsKept
<1>4. /\ cfg' = cfg /\ ready' = ready /\ rmt' = rmt /\ packets' = packets /\ pkt' = pkt
      /\ tstep' = tstep /\ ti' = ti /\ txFrame' = txFrame /\ sym' = sym
      /\ air' = air /\ line' = line /\ shown' = shown
      /\ \A o \in Output : Mine(o)' = Mine(o)
  BY <1>1 DEF outs, tx, Mine
<1>5. ri \in Output /\ live[ri] \in Frame /\ pkt \in Packet /\ ri + 1 \in Int
  BY <1>0, GatewayAssumption DEF TypeOK, Output
<1>6. PICK d \in packets : Says(d, pkt)
  BY <1>0, <1>1 DEF PacketIsDatagram
<1>7. ASSUME Matches(ri) PROVE d \in Mine(ri)
  BY <1>6, <1>7 DEF Says, Mine, Matches
<1>8. ASSUME \A o \in Output : Sendable(Mine(o), live'[o])
      PROVE  FramesAreSendable'
  <2>1. \A o \in Output : Sendable(Mine(o)', live'[o])
    BY <1>4, <1>8
  <2>2. /\ tstep' = "prime" => txFrame' = Dark
        /\ tstep' = "kick" => ready'[ti'] /\ Sendable({x \in packets' : x.universe = cfg'[ti'].uni}, txFrame')
    BY <1>0, <1>4 DEF FramesAreSendable, Mine
  <2>3. \A o \in Output :
          /\ Encodes(Mine(o)', rmt'[o], sym'[o]) /\ Encodes(Mine(o)', rmt'[o], shown'[o])
    BY <1>0, <1>4 DEF FramesAreSendable
  <2>4. \A o \in Output :
          /\ air'[o] # "idle" => sym'[o] # <<>>
          /\ air'[o] = "tail" => line'[o] = SubSeq(sym'[o], 1, Half(o)')
          /\ ~ready'[o] => shown'[o] = <<>>
    BY <1>0, <1>4 DEF FramesAreSendable, Half
  <2> QED BY <2>1, <2>2, <2>3, <2>4 DEF FramesAreSendable, Mine
<1>9. ASSUME NextOutput
      PROVE  /\ ri' \in Output /\ rstep' \in {"start", "poll"}
  <2>1. /\ rstep' \in {"start", "poll"}
        /\ ri' = 0 \/ (ri + 1 < Outputs /\ ri' = ri + 1)
    BY <1>9 DEF NextOutput
  <2> QED BY <1>5, <2>1, GatewayAssumption DEF Output
<1>10. CASE Skip
  <2>1. NextOutput /\ live' = live
    BY <1>10 DEF Skip
  <2>2. ri' \in Output /\ rstep' \in {"poll", "start", "merge"} /\ rstep' # "merge"
    BY <1>9, <2>1
  <2>3. TypeOK'
    BY ONLY <1>0, <1>1, <2>1, <2>2 DEF TypeOK, outs, tx
  <2>4. PacketIsDatagram'
    BY <1>4, <1>6, <2>2 DEF PacketIsDatagram
  <2>5. FramesAreSendable'
    BY <1>0, <1>8, <2>1 DEF FramesAreSendable
  <2> QED BY <1>3, <2>3, <2>4, <2>5 DEF IInv
<1>11. CASE WriteStartCode
  <2>1. /\ Matches(ri) /\ ri' = ri /\ rstep' = "merge"
        /\ live' = [live EXCEPT ![ri] = [live[ri] EXCEPT ![1] = pkt.sc]]
    BY <1>11 DEF WriteStartCode
  <2>2. PICK f : f = [live[ri] EXCEPT ![1] = pkt.sc]
    OBVIOUS
  <2>3. f \in Frame /\ Sendable(Mine(ri), f)
    <3>1. pkt.sc \in Byte /\ pkt.sc = StartCode(d) /\ d \in Mine(ri)
      BY <1>5, <1>6, <1>7, <2>1 DEF Packet, Says
    <3>2. Sendable(Mine(ri), live[ri])
      BY <1>0, <1>5 DEF FramesAreSendable
    <3> QED BY <1>5, <2>2, <3>1, <3>2, StartCodeWritten
  <2>4. /\ live' \in [Output -> Frame] /\ live'[ri] = f
        /\ \A o \in Output : o # ri => live'[o] = live[o]
    BY <1>0, <1>5, <2>1, <2>2, <2>3 DEF TypeOK
  <2>5. TypeOK'
    <3>1. ri' \in Output /\ rstep' \in {"poll", "start", "merge"}
      BY <1>5, <2>1
    <3> QED BY ONLY <1>0, <1>1, <2>4, <3>1 DEF TypeOK, outs, tx
  <2>6. PacketIsDatagram'
    BY <1>4, <1>6, <2>1 DEF PacketIsDatagram, Matches
  <2>7. FramesAreSendable'
    <3>1. \A o \in Output : Sendable(Mine(o), live'[o])
      BY <1>0, <2>3, <2>4 DEF FramesAreSendable
    <3> QED BY <1>8, <3>1
  <2> QED BY <1>3, <2>5, <2>6, <2>7 DEF IInv
<1>12. CASE MergeOutput
  <2>1. /\ rstep = "merge" /\ NextOutput
        /\ live' = [live EXCEPT ![ri] = <<live[ri][1]>> \o Channels(pkt.data)]
    BY <1>12 DEF MergeOutput
  <2>2. PICK f : f = <<live[ri][1]>> \o Channels(pkt.data)
    OBVIOUS
  <2>3. f \in Frame /\ Sendable(Mine(ri), f)
    <3>1. d \in Mine(ri)
      BY <1>0, <1>7, <2>1 DEF PacketIsDatagram
    <3>2. Sendable(Mine(ri), live[ri])
      BY <1>0, <1>5 DEF FramesAreSendable
    <3> QED BY <1>5, <1>6, <2>2, <3>1, <3>2, PacketMerged
  <2>4. /\ live' \in [Output -> Frame] /\ live'[ri] = f
        /\ \A o \in Output : o # ri => live'[o] = live[o]
    BY <1>0, <1>5, <2>1, <2>2, <2>3 DEF TypeOK
  <2>5. ri' \in Output /\ rstep' \in {"poll", "start", "merge"} /\ rstep' # "merge"
    BY <1>9, <2>1
  <2>6. TypeOK'
    BY ONLY <1>0, <1>1, <2>4, <2>5 DEF TypeOK, outs, tx
  <2>7. PacketIsDatagram'
    BY <1>4, <1>6, <2>5 DEF PacketIsDatagram
  <2>8. FramesAreSendable'
    <3>1. \A o \in Output : Sendable(Mine(o), live'[o])
      BY <1>0, <2>3, <2>4 DEF FramesAreSendable
    <3> QED BY <1>8, <3>1
  <2> QED BY <1>3, <2>6, <2>7, <2>8 DEF IInv
<1> QED BY <1>10, <1>11, <1>12

\* The symbols, and what the peripheral has made of them.
Carried ==
  \A o \in Output :
    /\ Encodes(Mine(o), rmt[o], sym[o]) /\ Encodes(Mine(o), rmt[o], shown[o])
    /\ air[o] # "idle" => sym[o] # <<>>
    /\ air[o] = "tail" => line[o] = SubSeq(sym[o], 1, Half(o))
    /\ ~ready[o] => shown[o] = <<>>

\* The parts of FramesAreSendable.
LEMMA FramesAre ==
  FramesAreSendable <=>
    /\ \A o \in Output : Sendable(Mine(o), live[o])
    /\ tstep = "prime" => txFrame = Dark
    /\ tstep = "kick" => ready[ti] /\ Sendable(Mine(ti), txFrame)
    /\ Carried
BY DEF FramesAreSendable, Carried

\* An idle channel is handed a frame its output may send.
LEMMA KickFacts ==
  ASSUME TypeOK, LegalTiming, SymbolsFit, Carried, UNCHANGED <<outs, packets>>,
         Kick(ti), ready[ti], Sendable(Mine(ti), txFrame)
  PROVE  /\ sym' \in [Output -> Seq(Symbol)] /\ air' \in [Output -> {"idle", "head", "tail"}]
         /\ line' = line /\ shown' = shown /\ faults' \in 0..MaxFaults
         /\ SymbolsFit' /\ Carried'
<1>1. /\ ti \in Output /\ txFrame \in Frame
      /\ sym \in [Output -> Seq(Symbol)] /\ air \in [Output -> {"idle", "head", "tail"}]
      /\ faults \in 0..MaxFaults
  BY DEF TypeOK
<1>2. /\ cfg' = cfg /\ ready' = ready /\ rmt' = rmt /\ line' = line /\ shown' = shown
      /\ \A o \in Output : Mine(o)' = Mine(o)
  BY DEF outs, Kick, Mine
<1>3. CASE UNCHANGED <<sym, air, faults>>
  <2>1. SymbolsFit'
    BY <1>2, <1>3 DEF SymbolsFit
  <2>2. Carried'
    BY <1>2, <1>3 DEF Carried, Half
  <2> QED BY <1>1, <1>2, <1>3, <2>1, <2>2
<1>4. CASE air[ti] = "idle" /\ Transmit(ti)
  <2>1. PICK s : s = rmtDmxEncode(rmt[ti], txFrame)
    OBVIOUS
  <2>2. /\ sym' = [sym EXCEPT ![ti] = s]
        /\ air' = [air EXCEPT ![ti] = "head"] \/ air' = air
        /\ Fail \/ UNCHANGED faults
    BY <1>4, <2>1 DEF Transmit
  <2>3. rmt[ti].brk \in Nat /\ rmt[ti].mab \in Nat
    <3>1. rmt[ti].brk \in 88..300 /\ rmt[ti].mab \in 0..300
      BY <1>1 DEF LegalTiming
    <3> QED BY ONLY <3>1
  <2>4. s \in Seq(Symbol) /\ Len(s) <= MaxSym
    BY <1>1, <2>1, <2>3, EncodeType
  <2>5. s # <<>>
    <3>1. PICK w : /\ Encoded(rmt[ti], txFrame, w)
                   /\ s = <<BreakSymbol(rmt[ti])>> \o w[Slots]
      BY <1>1, <2>1, <2>3, EncodedFacts
    <3>2. BreakSymbol(rmt[ti]) \in Symbol
      BY <2>3 DEF BreakSymbol, Symbol
    <3>3. Slots \in 0..Slots
      BY FrameAssumption DEF Slots
    <3>4. PICK x \in Seq(Symbol) : x = w[Slots]
      BY <3>1, <3>3 DEF Encoded
    <3> QED BY <3>1, <3>2, <3>4, PrefixFacts
  <2>6. /\ sym' \in [Output -> Seq(Symbol)] /\ sym'[ti] = s
        /\ air' \in [Output -> {"idle", "head", "tail"}]
        /\ air'[ti] \in {"idle", "head"}
        /\ \A o \in Output : o # ti => sym'[o] = sym[o] /\ air'[o] = air[o]
    BY <1>1, <1>4, <2>2, <2>4
  <2>7. faults' \in 0..MaxFaults
    BY <2>2, Failures
  <2>8. SymbolsFit'
    <3>1. ASSUME NEW o \in Output
          PROVE  Len(sym'[o]) <= MaxSym /\ (~ready'[o] => sym'[o] = <<>> /\ air'[o] = "idle")
      <4>1. CASE o = ti
        BY <1>2, <2>4, <2>6, <4>1
      <4>2. CASE o # ti
        BY <1>2, <2>6, <4>2 DEF SymbolsFit
      <4> QED BY <4>1, <4>2
    <3> QED BY <3>1 DEF SymbolsFit
  <2>9. Encodes(Mine(ti), rmt[ti], s)
    BY <1>1, <2>1 DEF Encodes
  <2>10. Carried'
    <3>1. ASSUME NEW o \in Output
          PROVE  /\ Encodes(Mine(o)', rmt'[o], sym'[o])
                 /\ Encodes(Mine(o)', rmt'[o], shown'[o])
                 /\ air'[o] # "idle" => sym'[o] # <<>>
                 /\ air'[o] = "tail" => line'[o] = SubSeq(sym'[o], 1, Half(o)')
                 /\ ~ready'[o] => shown'[o] = <<>>
      <4>1. CASE o = ti
        <5>1. Encodes(Mine(ti), rmt[ti], shown[ti])
          BY <1>1 DEF Carried
        <5>2. air'[o] # "tail" /\ sym'[o] # <<>> /\ ready'[o]
          BY <1>2, <2>5, <2>6, <4>1
        <5> QED BY <1>2, <2>6, <2>9, <4>1, <5>1, <5>2
      <4>2. CASE o # ti
        <5>1. sym'[o] = sym[o] /\ air'[o] = air[o]
          BY <2>6, <4>2
        <5> QED BY <1>2, <5>1 DEF Carried, Half
      <4> QED BY <4>1, <4>2
    <3> QED BY <3>1 DEF Carried
  <2> QED BY <1>2, <2>6, <2>7, <2>8, <2>10
<1> QED BY <1>3, <1>4 DEF Kick, Idle

\* The loop over the outputs stays among them.
LEMMA NextTxFacts ==
  ASSUME TypeOK, NEW step \in {"prime", "snap"}, NextTx(step)
  PROVE  ti' \in Output /\ tstep' \in {step, "snap"}
<1>1. ti \in Output /\ tstep' \in {step, "snap"}
      /\ (ti' = 0 \/ (ti + 1 < Outputs /\ ti' = ti + 1))
  BY DEF TypeOK, NextTx
<1> QED BY <1>1, GatewayAssumption DEF Output

\* A snapshot that failed leaves cells of frames.
LEMMA TornFrames ==
  ASSUME TypeOK PROVE Torn \subseteq Frame
<1> SUFFICES ASSUME NEW g \in Torn PROVE g \in Frame
  OBVIOUS
<1>1. ti \in Output /\ live[ti] \in Frame /\ pkt \in Packet
  BY DEF TypeOK
<1>2. PICK f : f = <<pkt.sc>> \o Channels(pkt.data)
  OBVIOUS
<1>3. f \in Frame
  <2>1. pkt.sc \in Byte /\ pkt.data \in Seq(Byte)
    BY <1>1 DEF Packet
  <2> QED BY <1>2, <2>1, ChannelsFacts
<1>4. PICK k \in 1..LastChannel :
        g = [n \in 1..LastChannel+1 |-> IF n <= k THEN live[ti][n] ELSE f[n]]
  BY <1>2 DEF Torn
<1> QED BY <1>1, <1>3, <1>4 DEF Frame

\* The transmit task: every frame it hands over is one its output may send.
LEMMA DmxTxIInv == IInv /\ DmxTx => IInv'
<1> SUFFICES ASSUME IInv, DmxTx PROVE IInv'
  OBVIOUS
<1>0. /\ TypeOK /\ Unstarted /\ LegalTiming /\ RepliesTell /\ SymbolsFit
      /\ PacketIsDatagram /\ FramesAreSendable
  BY DEF IInv
<1>1. /\ boot >= Outputs /\ UNCHANGED <<outs, live, rx>>
  BY DEF DmxTx, Prime, NotReady, Snapshot, SnapshotFails, KickOutput, Transmitting
<1>2. Unstarted'
  <2>1. ~(boot < Outputs)
    BY <1>0, <1>1, GatewayAssumption DEF TypeOK
  <2> QED BY <1>0, <1>1, <2>1, StartKept
<1>3. LegalTiming' /\ RepliesTell' /\ PacketIsDatagram'
  <2>1. UNCHANGED <<outs, reply>> /\ UNCHANGED <<outs, rstep, ri, pkt, packets>>
        /\ UNCHANGED outs
    BY <1>1 DEF rx
  <2> QED BY <1>0, <2>1, TimingKept, ReplyKept, PacketKept
<1>4. /\ cfg' = cfg /\ ready' = ready /\ rmt' = rmt /\ live' = live
      /\ \A o \in Output : Mine(o)' = Mine(o)
      /\ UNCHANGED <<outs, packets>>
  BY <1>1 DEF outs, rx, Mine
<1>5. /\ \A o \in Output : Sendable(Mine(o), live[o])
      /\ tstep = "prime" => txFrame = Dark
      /\ tstep = "kick" => ready[ti] /\ Sendable(Mine(ti), txFrame)
      /\ Carried
  BY <1>0, FramesAre
<1>6. \A o \in Output : Sendable(Mine(o)', live'[o])
  BY <1>4, <1>5
<1>7. ASSUME TypeOK', SymbolsFit', Carried', tstep' = "prime" => txFrame' = Dark,
             tstep' = "kick" => ready'[ti'] /\ Sendable(Mine(ti'), txFrame')
      PROVE  IInv'
  <2>1. Mine(ti)' = {d \in packets : d.universe = cfg[ti'].uni}
        /\ Mine(ti') = {d \in packets : d.universe = cfg[ti'].uni}
    BY <1>4 DEF Mine
  <2>2. tstep' = "kick" => ready'[ti'] /\ Sendable(Mine(ti)', txFrame')
    BY <1>7, <2>1
  <2>3. FramesAreSendable'
    BY <1>6, <1>7, <2>2 DEF FramesAreSendable, Carried
  <2> QED BY <1>2, <1>3, <1>7, <2>3 DEF IInv
<1>8. ti \in Output /\ txFrame \in Frame /\ live[ti] \in Frame
  BY <1>0 DEF TypeOK
<1>9. ASSUME UNCHANGED <<sym, air, line, shown, faults>>
      PROVE  SymbolsFit' /\ Carried'
  <2>1. UNCHANGED <<outs, sym, air>>
    BY <1>1, <1>9
  <2>2. SymbolsFit'
    BY <1>0, <2>1, SymbolsKept
  <2>3. Carried'
    BY <1>4, <1>5, <1>9 DEF Carried, Half
  <2> QED BY <2>2, <2>3
<1>10. CASE Prime
  <2>1. /\ tstep = "prime" /\ NextTx("prime") /\ txFrame' = txFrame
        /\ IF ready[ti] THEN Kick(ti) ELSE UNCHANGED <<sym, air, line, shown, faults>>
    BY <1>10 DEF Prime
  <2>2. ti' \in Output /\ tstep' \in {"prime", "snap"}
    BY <1>0, <2>1, NextTxFacts
  <2>3. txFrame = Dark
    BY <1>5, <2>1
  <2>4. /\ sym' \in [Output -> Seq(Symbol)] /\ air' \in [Output -> {"idle", "head", "tail"}]
        /\ line' = line /\ shown' = shown /\ faults' \in 0..MaxFaults
        /\ SymbolsFit' /\ Carried'
    <3>1. CASE ready[ti]
      <4>1. Kick(ti) /\ Sendable(Mine(ti), txFrame)
        BY <2>1, <2>3, <3>1, DarkFacts
      <4> QED BY <1>0, <1>4, <1>5, <3>1, <4>1, KickFacts
    <3>2. CASE ~ready[ti]
      <4>1. UNCHANGED <<sym, air, line, shown, faults>>
        BY <2>1, <3>2
      <4> QED BY <1>0, <1>9, <4>1 DEF TypeOK
    <3> QED BY <3>1, <3>2
  <2>5. TypeOK'
    BY ONLY <1>0, <1>1, <2>1, <2>2, <2>4 DEF TypeOK, outs, rx
  <2> QED BY <1>7, <2>1, <2>2, <2>3, <2>4, <2>5
<1>11. CASE NotReady
  <2>1. /\ NextTx("snap") /\ UNCHANGED <<txFrame, sym, air, line, shown, faults>>
    BY <1>11 DEF NotReady
  <2>2. ti' \in Output /\ tstep' = "snap"
    BY <1>0, <2>1, NextTxFacts
  <2>3. TypeOK'
    BY ONLY <1>0, <1>1, <2>1, <2>2 DEF TypeOK, outs, rx
  <2> QED BY <1>7, <1>9, <2>1, <2>2, <2>3
<1>12. CASE Snapshot
  <2>1. /\ ready[ti] /\ txFrame' = live[ti] /\ tstep' = "kick" /\ ti' = ti
        /\ UNCHANGED <<sym, air, line, shown, faults>>
    BY <1>12 DEF Snapshot
  <2>2. TypeOK'
    BY ONLY <1>0, <1>1, <1>8, <2>1 DEF TypeOK, outs, rx
  <2>3. ready'[ti'] /\ Sendable(Mine(ti'), txFrame')
    BY <1>4, <1>5, <1>8, <2>1
  <2> QED BY <1>7, <1>9, <2>1, <2>2, <2>3
<1>13. CASE SnapshotFails
  <2>1. /\ NextTx("snap") /\ txFrame' \in Torn
        /\ UNCHANGED <<sym, air, line, shown, faults>>
    BY <1>13 DEF SnapshotFails
  <2>2. ti' \in Output /\ tstep' = "snap"
    BY <1>0, <2>1, NextTxFacts
  <2>3. txFrame' \in Frame
    BY <1>0, <2>1, TornFrames
  <2>4. TypeOK'
    BY ONLY <1>0, <1>1, <2>1, <2>2, <2>3 DEF TypeOK, outs, rx
  <2> QED BY <1>7, <1>9, <2>1, <2>2, <2>4
<1>14. CASE KickOutput
  <2>1. /\ tstep = "kick" /\ Kick(ti) /\ NextTx("snap") /\ txFrame' = txFrame
    BY <1>14 DEF KickOutput
  <2>2. ti' \in Output /\ tstep' = "snap"
    BY <1>0, <2>1, NextTxFacts
  <2>3. /\ sym' \in [Output -> Seq(Symbol)] /\ air' \in [Output -> {"idle", "head", "tail"}]
        /\ line' = line /\ shown' = shown /\ faults' \in 0..MaxFaults
        /\ SymbolsFit' /\ Carried'
    BY <1>0, <1>4, <1>5, <2>1, KickFacts
  <2>4. TypeOK'
    BY ONLY <1>0, <1>1, <2>1, <2>2, <2>3 DEF TypeOK, outs, rx
  <2> QED BY <1>7, <2>2, <2>3, <2>4
<1> QED BY <1>10, <1>11, <1>12, <1>13, <1>14 DEF DmxTx

\* The peripheral, while the two tasks go on.
LEMMA CarryIInv == \A o \in Output : IInv /\ Carry(o) => IInv'
<1> SUFFICES ASSUME NEW o \in Output, IInv, Carry(o) PROVE IInv'
  OBVIOUS
<1>0. /\ TypeOK /\ Unstarted /\ LegalTiming /\ RepliesTell /\ SymbolsFit
      /\ PacketIsDatagram /\ FramesAreSendable
  BY DEF IInv
<1>1. /\ UNCHANGED <<outs, live, rx, tstep, ti, txFrame, sym, faults>>
      /\ air[o] # "idle" /\ air' = [air EXCEPT ![o] = air'[o]]
      /\ air'[o] \in {"idle", "tail"}
  BY <1>0 DEF Carry, CarryHead, CarryTail, TypeOK
<1>2. Unstarted' /\ LegalTiming' /\ RepliesTell' /\ PacketIsDatagram'
  <2>1. /\ UNCHANGED <<outs, reply>> /\ UNCHANGED <<outs, rstep, ri, pkt, packets>>
        /\ UNCHANGED outs /\ UNCHANGED <<outs, live, rx>>
        /\ (boot < Outputs => tstep' = "prime")
    BY <1>0, <1>1 DEF rx, Unstarted
  <2> QED BY <1>0, <2>1, TimingKept, ReplyKept, PacketKept, StartKept
<1>3. /\ cfg' = cfg /\ ready' = ready /\ rmt' = rmt /\ live' = live /\ sym' = sym
      /\ tstep' = tstep /\ ti' = ti /\ txFrame' = txFrame
      /\ \A x \in Output : Mine(x)' = Mine(x)
      /\ air' \in [Output -> {"idle", "head", "tail"}]
      /\ \A x \in Output : x # o => air'[x] = air[x]
  BY <1>0, <1>1 DEF outs, rx, Mine, TypeOK
<1>4. PICK s \in Seq(Symbol) : s = sym[o]
  BY <1>0 DEF TypeOK
<1>5. ready[o] /\ s # <<>> /\ Encodes(Mine(o), rmt[o], s)
  BY <1>0, <1>1, <1>4 DEF SymbolsFit, FramesAreSendable
<1>6. SymbolsFit'
  <2>1. \A x \in Output : ~ready[x] => x # o
    BY <1>5
  <2> QED BY <1>0, <1>3, <2>1 DEF SymbolsFit
<1> DEFINE h == SubSeq(s, 1, Len(s) \div 2)
<1>7. h \in Seq(Symbol) /\ h \o SubSeq(s, Len(h) + 1, Len(s)) = s
  BY Halves
<1>8. ASSUME line' \in [Output -> Seq(Symbol)], shown' \in [Output -> Seq(Symbol)],
             \A x \in Output : x # o => line'[x] = line[x] /\ shown'[x] = shown[x],
             air'[o] = "tail" => line'[o] = h,
             shown'[o] = shown[o] \/ shown'[o] = s
      PROVE  IInv'
  <2>1. TypeOK'
    BY ONLY <1>0, <1>1, <1>3, <1>8 DEF TypeOK, outs, rx
  <2>2. ASSUME NEW x \in Output
        PROVE  /\ Encodes(Mine(x)', rmt'[x], sym'[x])
               /\ Encodes(Mine(x)', rmt'[x], shown'[x])
               /\ air'[x] # "idle" => sym'[x] # <<>>
               /\ air'[x] = "tail" => line'[x] = SubSeq(sym'[x], 1, Half(x)')
               /\ ~ready'[x] => shown'[x] = <<>>
    <3>1. CASE x = o
      <4>1. Encodes(Mine(o), rmt[o], shown[o])
        BY <1>0 DEF FramesAreSendable
      <4>2. air'[o] = "tail" => line'[o] = SubSeq(sym'[o], 1, Half(o)')
        BY <1>3, <1>4, <1>8 DEF Half
      <4> HIDE DEF h
      <4> QED BY <1>3, <1>4, <1>5, <1>8, <3>1, <4>1, <4>2
    <3>2. CASE x # o
      BY <1>0, <1>3, <1>8, <3>2 DEF FramesAreSendable, Half
    <3> QED BY <3>1, <3>2
  <2>3. FramesAreSendable'
    <3>1. \A x \in Output : Sendable(Mine(x)', live'[x])
      BY <1>0, <1>3 DEF FramesAreSendable
    <3>2. /\ tstep' = "prime" => txFrame' = Dark
          /\ tstep' = "kick" => ready'[ti'] /\ Sendable({d \in packets' : d.universe = cfg'[ti'].uni}, txFrame')
      BY <1>0, <1>1, <1>3 DEF FramesAreSendable, Mine, rx
    <3> QED BY <2>2, <3>1, <3>2 DEF FramesAreSendable, Mine
  <2> QED BY <1>2, <1>6, <2>1, <2>3 DEF IInv
<1>9. line \in [Output -> Seq(Symbol)] /\ shown \in [Output -> Seq(Symbol)]
  BY <1>0 DEF TypeOK
<1>10. CASE CarryHead(o)
  <2>1. line' = [line EXCEPT ![o] = h] /\ shown' = shown
    BY <1>4, <1>10 DEF CarryHead, Half
  <2> HIDE DEF h
  <2> QED BY <1>7, <1>8, <1>9, <2>1
<1>11. CASE CarryTail(o)
  <2>1. line[o] = h
    BY <1>0, <1>4, <1>11 DEF CarryTail, FramesAreSendable, Half
  <2>2. /\ line' = [line EXCEPT ![o] = <<>>] /\ air'[o] = "idle"
        /\ shown' = [shown EXCEPT ![o] = line[o] \o SubSeq(s, Len(line[o]) + 1, Len(s))]
    BY <1>0, <1>4, <1>11 DEF CarryTail, TypeOK
  <2>3. shown' = [shown EXCEPT ![o] = s]
    BY ONLY <1>7, <2>1, <2>2
  <2>4. <<>> \in Seq(Symbol)
    OBVIOUS
  <2> HIDE DEF h
  <2> QED BY <1>8, <1>9, <2>2, <2>3, <2>4
<1> QED BY <1>10, <1>11 DEF Carry

\* The two tasks, the start and the peripheral keep the invariant, in whatever
\* order they go and whichever calls fail.
THEOREM InvariantHolds == Spec => []IInv
<1>1. Init => IInv
  BY InitIInv
<1>2. IInv /\ [Next]_vars => IInv'
  <2> SUFFICES ASSUME IInv, [Next]_vars PROVE IInv'
    OBVIOUS
  <2>1. CASE UNCHANGED vars
    <3>1. UNCHANGED outs /\ UNCHANGED live /\ UNCHANGED rx /\ UNCHANGED tx /\ UNCHANGED faults
      BY <2>1 DEF vars
    <3>2. /\ UNCHANGED <<outs, reply>> /\ UNCHANGED <<outs, sym, air>>
          /\ UNCHANGED <<outs, rstep, ri, pkt, packets>>
          /\ UNCHANGED <<outs, live, tx, packets>> /\ UNCHANGED <<outs, live, rx>>
      BY <3>1 DEF rx, tx
    <3>3. Unstarted'
      BY <3>1, <3>2, StartKept DEF IInv, Unstarted, tx
    <3>4. TypeOK'
      BY <3>1 DEF IInv, TypeOK, outs, rx, tx
    <3> QED BY <3>1, <3>2, <3>3, <3>4, TimingKept, ReplyKept, SymbolsKept, PacketKept,
               FramesKept DEF IInv
  <2>2. CASE Next
    BY <2>2, BootIInv, ArriveIInv, ReceiveIInv, EndTickIInv, RouteIInv, DmxTxIInv, CarryIInv
       DEF Next, NetRx
  <2> QED BY <2>1, <2>2
<1> QED BY <1>1, <1>2, PTL DEF Spec

\* A legal timing in numbers.
LEMMA TimingNumbers ==
  /\ \A k \in 88..300 : k \in Nat /\ k >= 88
  /\ \A m \in 0..300 : m \in Nat
<1>1. ASSUME NEW k \in 88..300 PROVE k \in Nat /\ k >= 88
  BY ONLY k \in 88..300, SMT
<1>2. ASSUME NEW m \in 0..300 PROVE m \in Nat
  BY ONLY m \in 0..300, SMT
<1> QED BY ONLY <1>1, <1>2, Zenon

\* What is heard on a line that can be made out is a whole frame, and one that
\* datagrams for that output account for: the two tasks, the shared tx_frame
\* and the peripheral never put anything else on it (dmx_tx_task, artnet_poll).
THEOREM LineShowsDatagrams == Spec => []LineIsDatagram
<1>1. IInv => LineIsDatagram
  <2> SUFFICES ASSUME IInv, NEW o \in Output, shown[o] # <<>>, Legible(o)
               PROVE  /\ Len(Heard(shown[o])) = LastChannel + 1
                      /\ Sendable(Mine(o), Heard(shown[o]))
    BY DEF LineIsDatagram
  <2>1. /\ ready[o] /\ rmt[o].brk \in 88..300 /\ rmt[o].mab \in 0..300
        /\ rmt[o].mab >= 4 /\ ~rmt[o].inv /\ Encodes(Mine(o), rmt[o], shown[o])
    BY DEF IInv, FramesAreSendable, LegalTiming, Legible
  <2>2. PICK f \in Frame : Sendable(Mine(o), f) /\ shown[o] = rmtDmxEncode(rmt[o], f)
    BY <2>1 DEF Encodes
  <2>3. Heard(shown[o]) = f
    <3>1. rmt[o].brk \in Nat /\ rmt[o].brk >= 88 /\ rmt[o].mab \in Nat
      BY ONLY <2>1, TimingNumbers, Zenon
    <3> QED BY <2>1, <2>2, <3>1, HeardIsFrame
  <2>4. Len(f) = LastChannel + 1
    BY FrameAssumption DEF Frame
  <2> QED BY <2>2, <2>3, <2>4
<1> QED BY <1>1, InvariantHolds, PTL

=============================================================================
