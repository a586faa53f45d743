------------------------------ MODULE RdmProofs ------------------------------
(***************************************************************************)
(* Proofs about RdmDiscovery, RdmPacket and RdmLine, for every number of   *)
(* bytes an identifier may have, every set of devices and every line.      *)
(*                                                                         *)
(* The search: whatever is answered, no device is lost but by a wrong      *)
(* answer, no device is found twice, and the stack suffices.  The bytes:   *)
(* identifiers, packets and answers survive the way to the wire and back,  *)
(* and one damaged byte never makes a device another.  The line: a sweep   *)
(* without faults finds every device, and what the bytes do to the search  *)
(* is a step of the search.                                                *)
(***************************************************************************)
EXTENDS RdmLine, SequenceTheorems, FiniteSetTheorems, WellFoundedInduction, TLAPS

-----------------------------------------------------------------------------
(***************************************************************************)
(* The stack.                                                              *)
(***************************************************************************)
\* What remains when the top is taken off.
LEMMA RestFacts ==
  ASSUME NEW B, NEW s \in Seq(B), s # <<>>
  PROVE  /\ Len(s) \in Nat \ {0}
         /\ SubSeq(s, 1, Len(s) - 1) \in Seq(B)
         /\ Len(SubSeq(s, 1, Len(s) - 1)) = Len(s) - 1
         /\ \A n \in 1..Len(s)-1 : SubSeq(s, 1, Len(s) - 1)[n] = s[n]
         /\ \A n \in 1..Len(s) : s[n] \in B
<1>1. Len(s) \in Nat \ {0} /\ \A n \in 1..Len(s) : s[n] \in B
  BY EmptySeq, LenProperties, ElementOfSeq
<1>2. PICK k \in Nat : k = Len(s) - 1
  BY <1>1
<1>3. \A n \in 1..k : s[n] \in B
  BY <1>1, <1>2
<1>4. /\ SubSeq(s, 1, k) \in Seq(B)
      /\ Len(SubSeq(s, 1, k)) = IF 1 <= k THEN k - 1 + 1 ELSE 0
      /\ \A n \in 1..(k - 1 + 1) : SubSeq(s, 1, k)[n] = s[1 + n - 1]
  BY <1>2, <1>3, SubSeqProperties
<1>5. Len(SubSeq(s, 1, k)) = k
  BY <1>4
<1>6. \A n \in 1..k : SubSeq(s, 1, k)[n] = s[n]
  BY <1>4
<1> QED BY <1>1, <1>2, <1>4, <1>5, <1>6

\* What two pushes leave.
LEMMA PushFacts ==
  ASSUME NEW B, NEW s \in Seq(B), NEW x \in B, NEW y \in B,
         NEW t, t = s \o <<x, y>>
  PROVE  /\ t \in Seq(B)
         /\ Len(t) = Len(s) + 2
         /\ \A n \in 1..Len(s) : t[n] = s[n]
         /\ t[Len(s) + 1] = x
         /\ t[Len(s) + 2] = y
OBVIOUS

\* One more result.
LEMMA AppendFacts ==
  ASSUME NEW B, NEW s \in Seq(B), NEW x \in B
  PROVE  /\ Append(s, x) \in Seq(B)
         /\ Len(Append(s, x)) = Len(s) + 1
         /\ \A n \in 1..Len(s) : Append(s, x)[n] = s[n]
         /\ Append(s, x)[Len(s) + 1] = x
         /\ Listed(Append(s, x)) = Listed(s) \cup {x}
<1>1. /\ Append(s, x) \in Seq(B)
      /\ Len(Append(s, x)) = Len(s) + 1
      /\ \A n \in 1..Len(s) : Append(s, x)[n] = s[n]
      /\ Append(s, x)[Len(s) + 1] = x
      /\ Len(s) \in Nat
  OBVIOUS
<1>2. 1..Len(s)+1 = 1..Len(s) \cup {Len(s) + 1}
  BY <1>1
<1>3. Listed(Append(s, x)) = Listed(s) \cup {x}
  BY <1>1, <1>2 DEF Listed
<1> QED BY <1>1, <1>3

\* The halves of a branch are branches; they share nothing, lose nothing, and
\* neither exceeds half of what the branch may hold.
LEMMA HalvesFacts ==
  ASSUME NEW b \in Branch, b[1] < b[2]
  PROVE  LET m == Midpoint(b)
         IN /\ <<b[1], m>> \in Branch
            /\ <<m + 1, b[2]>> \in Branch
            /\ b[1] <= m /\ m < b[2]
            /\ \A w \in Nat : b[2] - b[1] < w => b[2] - (m + 1) < w \div 2
<1> DEFINE m == Midpoint(b)
<1>1. /\ UidMax \in Nat
      /\ b[1] \in 0..UidMax /\ b[2] \in 0..UidMax
      /\ b = <<b[1], b[2]>>
  BY SweepAssumption DEF Branch, Uid
<1>2. PICK d \in Nat : d = b[2] - b[1] /\ d > 0
  BY <1>1
<1>3. m = b[1] + (d \div 2)
  BY <1>2 DEF Midpoint
<1>4. d \div 2 \in Nat /\ d \div 2 < d
  BY <1>2
<1>5. m \in 0..UidMax /\ b[1] <= m /\ m < b[2] /\ m + 1 \in 0..UidMax
  BY <1>1, <1>2, <1>3, <1>4
<1>6. ASSUME NEW w \in Nat, d < w
      PROVE  b[2] - (m + 1) < w \div 2
  BY <1>1, <1>2, <1>3, <1>6
<1> HIDE DEF m
<1>7. <<b[1], m>> \in Branch /\ <<m + 1, b[2]>> \in Branch
  BY <1>1, <1>5 DEF Branch, Uid
<1> QED BY <1>2, <1>5, <1>6, <1>7 DEF m


\* A stack whose n-th branch was halved often enough has room for both halves
\* of its top.
LEMMA Room ==
  ASSUME NEW s \in Seq(Branch), s # <<>>, Len(s) <= Capacity,
         \A n \in 1..Len(s) : s[n][2] - s[n][1] < Half[n],
         s[Len(s)][1] < s[Len(s)][2]
  PROVE  Len(SubSeq(s, 1, Len(s) - 1)) + 2 <= Capacity
<1>1. /\ Capacity \in Nat /\ Half \in [1..Capacity -> Nat] /\ Half[Capacity] <= 1
      /\ UidMax \in Nat
  BY SweepAssumption
<1>2. /\ Len(s) \in Nat \ {0} /\ s[Len(s)] \in Branch
      /\ Len(SubSeq(s, 1, Len(s) - 1)) = Len(s) - 1
  BY RestFacts
<1>3. PICK k \in 1..Capacity : k = Len(s)
  BY <1>1, <1>2
<1>4. s[k][1] \in Nat /\ s[k][2] \in Nat
  BY <1>1, <1>2, <1>3 DEF Branch, Uid
<1>5. s[k][2] - s[k][1] < Half[k] /\ s[k][1] < s[k][2] /\ Half[k] \in Nat
  BY <1>1, <1>2, <1>3
<1>6. Half[k] > 1
  BY <1>4, <1>5
<1>7. k # Capacity
  BY <1>1, <1>6
<1> QED BY <1>1, <1>2, <1>3, <1>7

-----------------------------------------------------------------------------
(***************************************************************************)
(* The inductive invariant.                                                *)
(***************************************************************************)
LEMMA BudgetNat == Budget \in Nat
BY SweepAssumption DEF Budget

\* The sweep starts with all identifiers as its only branch.
LEMMA InitInv == Init => IInv
<1> SUFFICES ASSUME Init PROVE IInv
  OBVIOUS
<1> USE SweepAssumption
<1>1. stack \in Seq(Branch) /\ Len(stack) = 1 /\ stack[1] = <<0, UidMax>>
  BY DEF Init, Branch, Uid
<1>2. found \in Seq(Uid) /\ Len(found) = 0 /\ Listed(found) = {}
  BY DEF Init, Listed
<1>3. TypeOK
  BY <1>1, <1>2, BudgetNat DEF Init, TypeOK
<1>4. RangesApart
  BY <1>1 DEF RangesApart
<1>5. FoundOnce
  BY <1>2 DEF FoundOnce
<1>6. NothingLost
  BY <1>1 DEF NothingLost, Init, In
<1>7. Halved
  BY <1>1 DEF Halved
<1>8. RoomToSplit
  <2>1. stack # <<>> /\ Top[1] < Top[2] => Len(Rest) + 2 <= Capacity
    BY <1>1, <1>3, <1>7, Room DEF Halved, TypeOK, Top, Rest
  <2> QED BY <2>1 DEF RoomToSplit, CanSplit
<1> QED BY <1>3, <1>4, <1>5, <1>6, <1>7, <1>8 DEF IInv

\* What holds where the loop goes on: the top is a branch, and the rest is the
\* stack without it.
LEMMA AtTop ==
  ASSUME TypeOK, More
  PROVE  /\ Len(stack) \in Nat \ {0}
         /\ Rest \in Seq(Branch)
         /\ Len(Rest) = Len(stack) - 1
         /\ \A n \in 1..Len(stack)-1 : Rest[n] = stack[n]
         /\ \A n \in 1..Len(stack) : stack[n] \in Branch
         /\ Top = stack[Len(stack)]
         /\ Top \in Branch
         /\ iterations + 1 \in 0..Budget
         /\ \A n \in 1..Len(stack) : stack[n][1] \in Nat /\ stack[n][2] \in Nat
                                     /\ stack[n][1] <= stack[n][2]
<1>1. stack \in Seq(Branch) /\ stack # <<>>
  BY DEF TypeOK, More
<1>2. iterations + 1 \in 0..Budget
  BY BudgetNat DEF TypeOK, More
<1>3. \A b \in Branch : b[1] \in Nat /\ b[2] \in Nat /\ b[1] <= b[2]
  BY SweepAssumption DEF Branch, Uid
<1>4. /\ Len(stack) \in Nat \ {0}
      /\ Rest \in Seq(Branch)
      /\ Len(Rest) = Len(stack) - 1
      /\ \A n \in 1..Len(stack)-1 : Rest[n] = stack[n]
      /\ \A n \in 1..Len(stack) : stack[n] \in Branch
  BY <1>1, RestFacts DEF Rest
<1> QED BY <1>2, <1>3, <1>4 DEF Top

\* The room for two halves, after a step as before it.
LEMMA RoomAfter ==
  ASSUME TypeOK', Halved'
  PROVE  RoomToSplit'
<1>1. stack' # <<>> /\ Top'[1] < Top'[2] => Len(Rest') + 2 <= Capacity
  BY Room DEF Halved, TypeOK, Top, Rest
<1> QED BY <1>1 DEF RoomToSplit, CanSplit

\* A step that takes the top off, finds nothing or one device of the top, and
\* counts what it gives up, keeps the invariant.
LEMMA PopKeeps ==
  ASSUME IInv, Probed, stack' = Rest,
         NEW new \in SUBSET devices,
         \A u \in new : In(u, Top),
         Listed(found') = Listed(found) \cup new,
         missed' = missed \cup (Here \ (Listed(found) \cup new)),
         found' \in Seq(Uid), Len(found') <= MaxDevices,
         \A m, n \in 1..Len(found') : found'[m] = found'[n] => m = n
  PROVE  IInv'
<1>1. TypeOK /\ More /\ devices' = devices /\ iterations' = iterations + 1
  BY DEF IInv, Probed
<1> DEFINE k == Len(stack)
<1>2. /\ k \in Nat \ {0}
      /\ stack' \in Seq(Branch) /\ Len(stack') = k - 1
      /\ \A n \in 1..k-1 : stack'[n] = stack[n]
      /\ Top = stack[k]
      /\ iterations' \in 0..Budget
      /\ \A n \in 1..k : stack[n][1] \in Nat /\ stack[n][2] \in Nat
                         /\ stack[n][1] <= stack[n][2]
  BY <1>1, AtTop
<1>3. k <= Capacity /\ Capacity \in Nat
  BY <1>1, SweepAssumption DEF TypeOK
<1>a. \A m, n \in 1..k : m < n => stack[m][2] < stack[n][1]
  BY DEF IInv, RangesApart
<1> HIDE DEF k
<1>4. TypeOK'
  <2>1. missed' \in SUBSET devices
    BY <1>1 DEF TypeOK, Here
  <2> QED BY <1>1, <1>2, <1>3, <2>1 DEF TypeOK
<1>5. RangesApart'
  BY <1>2, <1>a DEF RangesApart
<1>6. FoundOnce'
  <2>1. /\ Listed(found) \subseteq devices
        /\ \A u \in Listed(found), n \in 1..k : ~In(u, stack[n])
    BY DEF IInv, FoundOnce, k
  <2>2. Listed(found') \subseteq devices'
    BY <1>1, <2>1
  <2>3. ASSUME NEW u \in new, NEW n \in 1..k-1
        PROVE  ~In(u, stack[n])
    <3>1. stack[n][2] < stack[k][1] /\ In(u, stack[k])
      BY <1>2, <1>a, <2>3
    <3>2. u \in Nat
      BY <1>1, SweepAssumption DEF TypeOK
    <3> QED BY <1>2, <3>1, <3>2 DEF In
  <2>4. \A u \in Listed(found'), n \in 1..Len(stack') : ~In(u, stack'[n])
    BY <1>2, <2>1, <2>3
  <2> QED BY <2>2, <2>4 DEF FoundOnce
<1>7. NothingLost'
  <2> SUFFICES ASSUME NEW d \in devices, d \notin Listed(found'), d \notin missed'
               PROVE  \E n \in 1..Len(stack') : In(d, stack'[n])
    BY <1>1 DEF NothingLost
  <2>1. PICK n \in 1..k : In(d, stack[n])
    BY DEF IInv, NothingLost, k
  <2>2. n # k
    BY <1>2, <2>1 DEF Here
  <2> QED BY <1>2, <2>1, <2>2
<1>8. Halved'
  <2>1. \A n \in 1..k : stack[n][2] - stack[n][1] < Half[n]
    BY DEF IInv, Halved, k
  <2> QED BY <1>2, <2>1 DEF Halved
<1>9. RoomToSplit'
  BY <1>4, <1>8, RoomAfter
<1> QED BY <1>4, <1>5, <1>6, <1>7, <1>8, <1>9 DEF IInv

\* A step that halves the top keeps the invariant.
LEMMA SplitKeeps ==
  ASSUME IInv, Split
  PROVE  IInv'
<1>1. /\ TypeOK /\ More /\ CanSplit /\ devices' = devices
      /\ iterations' = iterations + 1
      /\ found' = found /\ missed' = missed
      /\ stack' = Rest \o Halves(Top)
  BY DEF IInv, Split, Probed
<1> DEFINE k == Len(stack)
           m == Midpoint(Top)
           lower == <<Top[1], m>>
           upper == <<m + 1, Top[2]>>
<1>2. /\ k \in Nat \ {0}
      /\ Rest \in Seq(Branch) /\ Len(Rest) = k - 1
      /\ \A n \in 1..k-1 : Rest[n] = stack[n]
      /\ Top = stack[k] /\ Top \in Branch
      /\ iterations' \in 0..Budget
      /\ \A n \in 1..k : stack[n][1] \in Nat /\ stack[n][2] \in Nat
                         /\ stack[n][1] <= stack[n][2]
  BY <1>1, AtTop
<1>3. Top[1] < Top[2] /\ k + 1 <= Capacity /\ Capacity \in Nat
  BY <1>1, <1>2, SweepAssumption DEF CanSplit
<1>4. /\ lower \in Branch /\ upper \in Branch
      /\ Top[1] <= m /\ m < Top[2]
      /\ \A w \in Nat : Top[2] - Top[1] < w => Top[2] - (m + 1) < w \div 2
  BY <1>2, <1>3, HalvesFacts
<1>5. /\ stack' \in Seq(Branch)
      /\ Len(stack') = k + 1
      /\ \A n \in 1..k-1 : stack'[n] = stack[n]
      /\ stack'[k] = lower
      /\ stack'[k + 1] = upper
  <2>1. stack' = Rest \o <<lower, upper>>
    BY <1>1 DEF Halves
  <2>a. lower \in Branch /\ upper \in Branch /\ Rest \in Seq(Branch)
    BY <1>2, <1>4
  <2> HIDE DEF lower, upper, k, m
  <2>2. /\ stack' \in Seq(Branch)
        /\ Len(stack') = Len(Rest) + 2
        /\ \A n \in 1..Len(Rest) : stack'[n] = Rest[n]
        /\ stack'[Len(Rest) + 1] = lower
        /\ stack'[Len(Rest) + 2] = upper
    BY <2>1, <2>a, PushFacts
  <2>3. Len(Rest) + 1 = k /\ Len(Rest) + 2 = k + 1
    BY <1>2
  <2> QED BY <1>2, <2>2, <2>3
<1>6. /\ lower[1] = stack[k][1] /\ lower[2] = m
      /\ upper[1] = m + 1 /\ upper[2] = stack[k][2]
      /\ m \in Nat /\ stack[k][1] <= m /\ m < stack[k][2]
      /\ k \in 1..k /\ stack[k][1] \in Nat /\ stack[k][2] \in Nat
      /\ \A w \in Nat : stack[k][2] - stack[k][1] < w => stack[k][2] - (m + 1) < w \div 2
  <2>1. /\ lower[1] = stack[k][1] /\ lower[2] = m
        /\ upper[1] = m + 1 /\ upper[2] = stack[k][2]
        /\ stack[k][1] <= m /\ m < stack[k][2]
        /\ \A w \in Nat : stack[k][2] - stack[k][1] < w => stack[k][2] - (m + 1) < w \div 2
    BY <1>2, <1>4
  <2>2. k \in 1..k /\ stack[k][1] \in Nat /\ stack[k][2] \in Nat
    BY <1>2
  <2>3. lower[2] \in Nat
    <3>1. lower[2] \in Uid
      BY <1>4 DEF Branch
    <3> QED BY <3>1, SweepAssumption DEF Uid
  <2> QED BY <2>1, <2>2, <2>3
<1>7. \A i, j \in 1..k : i < j => stack[i][2] < stack[j][1]
  BY DEF IInv, RangesApart
<1>8. \A n \in 1..k : stack[n][2] - stack[n][1] < Half[n]
  BY DEF IInv, Halved
<1> HIDE DEF k, m, lower, upper
<1>9. \A n \in 1..k+1 : n \in 1..k-1 \/ n = k \/ n = k + 1
  BY <1>2
<1>10. TypeOK'
  BY <1>1, <1>2, <1>3, <1>5 DEF TypeOK
<1>11. RangesApart'
  <2> SUFFICES ASSUME NEW i \in 1..k+1, NEW j \in 1..k+1, i < j
               PROVE  stack'[i][2] < stack'[j][1]
    BY <1>5 DEF RangesApart
  <2>1. CASE j \in 1..k-1
    <3>1. i \in 1..k-1 /\ i \in 1..k /\ j \in 1..k
      BY <1>2, <2>1
    <3> QED BY <1>5, <1>7, <2>1, <3>1
  <2>2. CASE j = k
    BY <1>2, <1>5, <1>6, <1>7, <2>2
  <2>3. CASE j = k + 1 /\ i = k
    BY <1>2, <1>5, <1>6, <2>3
  <2>4. CASE j = k + 1 /\ i \in 1..k-1
    <3>1. i \in 1..k /\ i < k
      BY <1>2, <2>4
    <3>2. stack[i][2] < stack[k][1] /\ stack[i][2] \in Nat
      BY <1>2, <1>6, <1>7, <3>1
    <3>3. stack'[i] = stack[i] /\ stack'[j][1] = m + 1
      BY <1>5, <1>6, <2>4
    <3>4. stack[i][2] < m + 1
      BY <1>6, <3>2
    <3> QED BY <3>3, <3>4
  <2> QED BY <1>2, <1>9, <2>1, <2>2, <2>3, <2>4
\* What is in either half is in the top, and the other way round.
<1>12. \A u \in Nat : In(u, lower) \/ In(u, upper) <=> In(u, stack[k])
  BY <1>2, <1>6 DEF In
<1>13. devices \subseteq Nat /\ Listed(found) \subseteq devices
  BY <1>1, SweepAssumption DEF IInv, TypeOK, FoundOnce
<1>14. FoundOnce'
  <2>1. \A u \in Listed(found), n \in 1..k : ~In(u, stack[n])
    BY DEF IInv, FoundOnce, k
  <2>2. ASSUME NEW u \in Listed(found), NEW n \in 1..k+1
        PROVE  ~In(u, stack'[n])
    <3>1. u \in Nat /\ ~In(u, stack[k])
      BY <1>6, <1>13, <2>1
    <3>2. ~In(u, lower) /\ ~In(u, upper)
      BY <1>12, <3>1
    <3>3. CASE n \in 1..k-1
      <4>1. n \in 1..k
        BY <1>2, <3>3
      <4> QED BY <1>5, <2>1, <3>3, <4>1
    <3> QED BY <1>5, <1>9, <3>2, <3>3
  <2>3. \A i, j \in 1..Len(found) : found[i] = found[j] => i = j
    BY DEF IInv, FoundOnce
  <2> QED BY <1>1, <1>5, <1>13, <2>2, <2>3 DEF FoundOnce
<1>15. NothingLost'
  <2> SUFFICES ASSUME NEW d \in devices, d \notin Listed(found), d \notin missed
               PROVE  \E n \in 1..k+1 : In(d, stack'[n])
    BY <1>1, <1>5 DEF NothingLost
  <2>1. PICK n \in 1..k : In(d, stack[n])
    BY DEF IInv, NothingLost, k
  <2>2. CASE n = k
    BY <1>2, <1>5, <1>12, <1>13, <2>1, <2>2
  <2>3. CASE n # k
    BY <1>2, <1>5, <2>1, <2>3
  <2> QED BY <2>2, <2>3
<1>16. Halved'
  <2>1. /\ k \in 1..Capacity-1 /\ Half[k] \in Nat /\ Half[k + 1] = Half[k] \div 2
        /\ stack[k][2] - stack[k][1] < Half[k]
    BY <1>2, <1>3, <1>8, SweepAssumption
  <2>2. stack'[k][2] - stack'[k][1] < Half[k]
    <3>1. m - stack[k][1] < Half[k]
      BY <1>6, <2>1
    <3> QED BY <1>5, <1>6, <3>1
  <2>3. stack'[k + 1][2] - stack'[k + 1][1] < Half[k + 1]
    BY <1>5, <1>6, <2>1
  <2>4. \A n \in 1..k-1 : stack'[n][2] - stack'[n][1] < Half[n]
    BY <1>2, <1>5, <1>8
  <2> QED BY <1>5, <1>9, <2>2, <2>3, <2>4 DEF Halved
<1>17. RoomToSplit'
  BY <1>10, <1>16, RoomAfter
<1> QED BY <1>10, <1>11, <1>14, <1>15, <1>16, <1>17 DEF IInv

\* One more result is new: the results stay apart.
LEMMA RecordKeeps ==
  ASSUME IInv, NEW u \in devices, Record(u)
  PROVE  IInv'
<1>1. /\ TypeOK /\ More /\ Probed /\ Fresh(u)
      /\ stack' = Rest /\ found' = Append(found, u)
      /\ missed' = missed \cup (Here \ (Listed(found) \cup {u}))
  BY DEF IInv, Record, Probed
<1>2. found \in Seq(Uid) /\ u \in Uid /\ Len(found) < MaxDevices
  BY <1>1, SweepAssumption DEF TypeOK, Uid, More
<1>3. /\ found' \in Seq(Uid)
      /\ Len(found') = Len(found) + 1
      /\ \A n \in 1..Len(found) : found'[n] = found[n]
      /\ found'[Len(found) + 1] = u
      /\ Listed(found') = Listed(found) \cup {u}
  BY <1>1, <1>2, AppendFacts
<1>4. PICK n \in Nat : n = Len(found)
  BY <1>2
<1>5. Len(found') <= MaxDevices
  BY <1>2, <1>3, <1>4, SweepAssumption
<1>6. \A i, j \in 1..Len(found') : found'[i] = found'[j] => i = j
  <2>1. \A i, j \in 1..n : found[i] = found[j] => i = j
    BY <1>4 DEF IInv, FoundOnce
  <2>2. \A i \in 1..n : found[i] # u
    BY <1>1, <1>4 DEF Fresh, Listed
  <2> QED BY <1>3, <1>4, <2>1, <2>2
<1>7. {u} \in SUBSET devices /\ \A v \in {u} : In(v, Top)
  BY <1>1 DEF Fresh
<1> QED BY <1>1, <1>3, <1>5, <1>6, <1>7, PopKeeps

\* Every iteration keeps the invariant.
LEMMA NextInv == IInv /\ [Next]_vars => IInv'
<1> SUFFICES ASSUME IInv, [Next]_vars PROVE IInv'
  OBVIOUS
<1>1. CASE GiveUp
  <2>1. /\ TypeOK /\ Probed /\ stack' = Rest /\ found' = found
        /\ missed' = missed \cup (Here \ (Listed(found) \cup {}))
        /\ Listed(found') = Listed(found) \cup {}
    BY <1>1 DEF IInv, GiveUp
  <2>2. \A i, j \in 1..Len(found') : found'[i] = found'[j] => i = j
    BY <2>1 DEF IInv, FoundOnce
  <2>3. found' \in Seq(Uid) /\ Len(found') <= MaxDevices
    BY <2>1 DEF TypeOK
  <2>4. {} \in SUBSET devices /\ \A u \in {} : In(u, Top)
    OBVIOUS
  <2> QED BY <2>1, <2>2, <2>3, <2>4, PopKeeps
<1>2. CASE Split
  BY <1>2, SplitKeeps
<1>3. ASSUME NEW u \in devices, Record(u)
      PROVE  IInv'
  BY <1>3, RecordKeeps
<1>4. CASE UNCHANGED vars
  BY <1>4 DEF vars, IInv, TypeOK, RangesApart, FoundOnce, NothingLost, Halved,
     RoomToSplit, CanSplit, Top, Rest, Listed
<1> QED BY <1>1, <1>2, <1>3, <1>4 DEF Next

-----------------------------------------------------------------------------
(***************************************************************************)
(* The theorems.                                                           *)
(***************************************************************************)
\* The sweep keeps its invariant, whatever the line answers (rdmDiscRange).
THEOREM InvariantHolds == Spec => []IInv
<1> QED BY InitInv, NextInv, PTL DEF Spec

\* No device is lost but by a wrong answer, wherever the search is cut off.
THEOREM NothingIsLost == Spec => []NothingLost
<1>1. IInv => NothingLost
  BY DEF IInv
<1> QED BY <1>1, InvariantHolds, PTL

\* Results are devices of the line, each listed once and asked for no more.
THEOREM ResultsAreDistinct == Spec => []FoundOnce
<1>1. IInv => FoundOnce
  BY DEF IInv
<1> QED BY <1>1, InvariantHolds, PTL

\* No branch is dropped for want of room: 64 places suffice for 48 bits.
THEOREM StackSuffices == Spec => []RoomToSplit
<1>1. IInv => RoomToSplit
  BY DEF IInv
<1> QED BY <1>1, InvariantHolds, PTL

-----------------------------------------------------------------------------
(***************************************************************************)
(* Induction, and functions defined from each number to the next.          *)
(***************************************************************************)
\* Induction, with a set in the place of a predicate.
LEMMA SetInduction ==
  ASSUME NEW T \in SUBSET Nat, 0 \in T, \A n \in T : n + 1 \in T
  PROVE  T = Nat
<1> DEFINE D == Nat \ T
           R == OpToRel(<, Nat)
<1> SUFFICES ASSUME D # {} PROVE FALSE
  OBVIOUS
<1>1. \A x, y \in Nat : x < y => <<x, y>> \in R
  BY DEF OpToRel
<1>2. PICK x \in D : \A y \in D : <<y, x>> \notin R
  <2>1. IsWellFoundedOn(R, Nat) /\ D \subseteq Nat
    BY NatLessThanWellFounded
  <2> HIDE DEF D, R
  <2> QED BY <2>1, WFMin
<1> HIDE DEF R
<1>3. x # 0 /\ x \in Nat
  OBVIOUS
<1>4. x - 1 \in Nat /\ x - 1 < x /\ (x - 1) + 1 = x
  BY <1>3
<1>5. x - 1 \in T
  BY <1>1, <1>2, <1>4
<1> QED BY <1>4, <1>5

\* The same for the numbers up to a limit.
LEMMA UpTo ==
  ASSUME NEW N \in Nat, NEW T, 0 \in T, \A n \in T : n \in 0..N-1 => n + 1 \in T
  PROVE  0..N \subseteq T
<1> DEFINE U == {n \in Nat : n <= N => n \in T}
<1>1. U \in SUBSET Nat /\ 0 \in U
  OBVIOUS
<1>2. \A n \in U : n + 1 \in U
  OBVIOUS
<1>3. U = Nat
  <2> HIDE DEF U
  <2> QED BY <1>1, <1>2, SetInduction
<1> QED BY <1>3

\* A function defined at 0, and then from each number to the next.
Steps(N, S) == [1..N -> [S -> S]]
Follows(f, N, a, step) == f[0] = a /\ \A n \in 1..N : f[n] = step[n][f[n - 1]]

\* There is a function that is defined that way.
LEMMA Recursion ==
  ASSUME NEW S, NEW a \in S, NEW N \in Nat, NEW step \in Steps(N, S)
  PROVE  \E f \in [0..N -> S] : Follows(f, N, a, step)
<1> DEFINE T == {k \in 0..N : \E f \in [0..k -> S] : Follows(f, k, a, step)}
<1>1. 0 \in T
  <2>1. /\ [n \in 0..0 |-> a] \in [0..0 -> S]
        /\ Follows([n \in 0..0 |-> a], 0, a, step)
    BY DEF Follows
  <2> QED BY <2>1
<1>2. ASSUME NEW k \in T, k \in 0..N-1
      PROVE  k + 1 \in T
  <2>1. PICK f \in [0..k -> S] : Follows(f, k, a, step)
    OBVIOUS
  <2>2. f[k] \in S /\ k + 1 \in 1..N
    BY <1>2
  <2>3. PICK x \in S : x = step[k + 1][f[k]]
    BY <2>2 DEF Steps
  <2> DEFINE g == [n \in 0..k+1 |-> IF n = k + 1 THEN x ELSE f[n]]
  <2>4. g \in [0..k+1 -> S]
    <3>1. \A n \in 0..k+1 : n = k + 1 \/ n \in 0..k
      OBVIOUS
    <3> QED BY <2>3, <3>1
  <2>5. g[0] = a
    BY <1>2, <2>1 DEF Follows
  <2>6. ASSUME NEW n \in 1..k+1
        PROVE  g[n] = step[n][g[n - 1]]
    <3>1. n - 1 \in 0..k /\ g[n - 1] = f[n - 1]
      BY <1>2
    <3>2. CASE n = k + 1
      <4>1. g[n] = x /\ n - 1 = k
        BY <1>2, <3>2
      <4> HIDE DEF g
      <4> QED BY <2>3, <3>1, <3>2, <4>1
    <3>3. CASE n \in 1..k
      <4>1. g[n] = f[n]
        BY <1>2, <3>3
      <4>2. f[n] = step[n][f[n - 1]]
        BY <2>1, <3>3 DEF Follows
      <4> HIDE DEF g
      <4> QED BY <3>1, <4>1, <4>2
    <3> QED BY <3>2, <3>3
  <2> HIDE DEF g
  <2>7. Follows(g, k + 1, a, step)
    BY <2>5, <2>6 DEF Follows
  <2> QED BY <1>2, <2>4, <2>7
<1>3. 0..N \subseteq T
  <2> HIDE DEF T
  <2> QED BY <1>1, <1>2, UpTo
<1> QED BY <1>3

\* Total is the last of the sums of the first bytes.
LEMMA TotalSums ==
  ASSUME NEW p \in Seq(Nat)
  PROVE  \E s \in [0..Len(p) -> Nat] :
           /\ s[0] = 0
           /\ \A n \in 1..Len(p) : s[n] = s[n - 1] + p[n]
           /\ Total(p) = s[Len(p)]
<1> DEFINE N == Len(p)
           step == [n \in 1..N |-> [v \in Nat |-> v + p[n]]]
           Sums(f) == [n \in 0..N |-> IF n = 0 THEN 0 ELSE f[n - 1] + p[n]]
           s == CHOOSE f : f = Sums(f)
<1>1. N \in Nat /\ \A n \in 1..N : p[n] \in Nat
  OBVIOUS
<1>2. \E f : f = Sums(f)
  <2>1. step \in Steps(N, Nat)
    BY <1>1 DEF Steps
  <2>2. PICK f \in [0..N -> Nat] : Follows(f, N, 0, step)
    <3>1. 0 \in Nat
      OBVIOUS
    <3> HIDE DEF step, N
    <3> QED BY <1>1, <2>1, <3>1, Recursion, Zenon
  <2>3. ASSUME NEW n \in 1..N
        PROVE  n - 1 \in 0..N /\ f[n - 1] \in Nat /\ f[n] = f[n - 1] + p[n]
    <3>1. n - 1 \in 0..N
      BY <1>1
    <3>a. f[n - 1] \in Nat
      BY <3>1
    <3> QED BY <2>2, <3>1, <3>a DEF Follows
  <2>4. f = Sums(f)
    BY <1>1, <2>2, <2>3 DEF Follows
  <2> QED BY <2>4
<1>3. s = Sums(s)
  BY <1>2
<1> HIDE DEF s
<1>4. s[0] = 0 /\ \A n \in 1..N : s[n] = s[n - 1] + p[n]
  BY <1>1, <1>3
<1>5. 0..N \subseteq {n \in 0..N : s[n] \in Nat}
  <2> DEFINE T == {n \in 0..N : s[n] \in Nat}
  <2>1. 0 \in T
    BY <1>1, <1>4
  <2>2. ASSUME NEW n \in T, n \in 0..N-1 PROVE n + 1 \in T
    <3>1. n + 1 \in 1..N /\ (n + 1) - 1 = n
      BY <1>1, <2>2
    <3>2. s[n + 1] = s[n] + p[n + 1]
      BY <1>4, <3>1
    <3> QED BY <1>1, <3>1, <3>2
  <2> HIDE DEF T, N
  <2>3. 0..N \subseteq T
    BY <1>1, <2>1, <2>2, UpTo
  <2> QED BY <2>3 DEF T
<1>6. s \in [0..N -> Nat]
  BY <1>3, <1>5
<1>7. Total(p) = s[N]
  BY DEF Total, s
<1> QED BY <1>4, <1>6, <1>7

\* The sum of bytes changes by what one byte changes.
LEMMA TotalChange ==
  ASSUME NEW p \in Seq(Nat), NEW q \in Seq(Nat), Len(p) = Len(q),
         NEW k \in 1..Len(p), \A n \in 1..Len(p) \ {k} : p[n] = q[n]
  PROVE  Total(p) \in Nat /\ Total(q) \in Nat /\ Total(p) - Total(q) = p[k] - q[k]
<1> DEFINE N == Len(p)
<1>1. N \in Nat /\ \A n \in 1..N : p[n] \in Nat /\ q[n] \in Nat
  OBVIOUS
<1>2. PICK s \in [0..N -> Nat] :
             /\ s[0] = 0 /\ \A n \in 1..N : s[n] = s[n - 1] + p[n]
             /\ Total(p) = s[N]
  BY TotalSums
<1>3. PICK t \in [0..N -> Nat] :
             /\ t[0] = 0 /\ \A n \in 1..N : t[n] = t[n - 1] + q[n]
             /\ Total(q) = t[N]
  BY TotalSums
<1> DEFINE T == {n \in 0..N : s[n] - t[n] = IF n < k THEN 0 ELSE p[k] - q[k]}
<1>4. 0 \in T
  BY <1>1, <1>2, <1>3
<1>5. ASSUME NEW n \in T, n \in 0..N-1
      PROVE  n + 1 \in T
  <2>1. n + 1 \in 1..N /\ (n + 1) - 1 = n /\ k \in 1..N
    BY <1>1, <1>5
  <2>2. s[n + 1] = s[n] + p[n + 1] /\ t[n + 1] = t[n] + q[n + 1]
    BY <1>2, <1>3, <2>1
  <2>3. /\ s[n] \in Nat /\ t[n] \in Nat /\ p[k] \in Nat /\ q[k] \in Nat
        /\ p[n + 1] \in Nat /\ q[n + 1] \in Nat
    BY <1>1, <1>2, <1>3, <2>1
  <2>a. s[n] - t[n] = IF n < k THEN 0 ELSE p[k] - q[k]
    BY <1>5
  <2>b. n \in Nat /\ n + 1 \in 0..N
    BY <1>5, <2>1
  <2>4. CASE n + 1 = k
    <3>0. n < k /\ ~(n + 1 < k)
      BY <2>4, <2>b
    <3>b. p[n + 1] = p[k] /\ q[n + 1] = q[k] /\ s[n] - t[n] = 0
      BY <2>4, <2>a, <3>0
    <3>1. s[n + 1] - t[n + 1] = p[k] - q[k] /\ ~(n + 1 < k)
      <4>1. PICK a, b, x, y \in Nat :
               /\ a = s[n] /\ b = t[n] /\ x = p[k] /\ y = q[k]
        BY <2>3
      <4>2. s[n + 1] = a + x /\ t[n + 1] = b + y /\ a - b = 0
        BY <2>2, <3>b, <4>1
      <4>3. (a + x) - (b + y) = x - y
        BY <4>2
      <4> QED BY <3>0, <4>1, <4>2, <4>3
    <3> QED BY <2>b, <3>1
  <2>5. CASE n + 1 # k
    <3>1. p[n + 1] = q[n + 1]
      BY <2>1, <2>5
    <3>2. s[n + 1] - t[n + 1] = s[n] - t[n]
      <4>1. PICK a, b, x \in Nat : a = s[n] /\ b = t[n] /\ x = p[n + 1]
        BY <2>3
      <4>2. s[n + 1] = a + x /\ t[n + 1] = b + x
        BY <2>2, <3>1, <4>1
      <4>3. (a + x) - (b + x) = a - b
        OBVIOUS
      <4> QED BY <4>1, <4>2, <4>3
    <3>3. n + 1 < k <=> n < k
      BY <2>1, <2>5
    <3> QED BY <2>a, <2>b, <3>2, <3>3
  <2> QED BY <2>4, <2>5
<1>6. 0..N \subseteq T
  <2> HIDE DEF T, N
  <2> QED BY <1>1, <1>4, <1>5, UpTo
<1>7. N \in T
  <2>1. N \in 0..N
    BY <1>1
  <2> HIDE DEF T, N
  <2> QED BY <1>6, <2>1
<1>8. ~(N < k) /\ k \in Nat
  BY <1>1
<1>9. s[N] - t[N] = p[k] - q[k]
  BY <1>7, <1>8
<1>10. s[N] \in Nat /\ t[N] \in Nat
  <2>1. N \in 0..N
    BY <1>1
  <2> QED BY <2>1
<1> QED BY <1>2, <1>3, <1>9, <1>10

-----------------------------------------------------------------------------
(***************************************************************************)
(* Identifiers on the wire.                                                *)
(***************************************************************************)
\* A byte taken off and put back.
LEMMA Shifted ==
  ASSUME NEW x \in Nat
  PROVE  /\ x \div 256 \in Nat /\ x % 256 \in 0..255
         /\ x = 256 * (x \div 256) + (x % 256)
<1>1. x \div 256 \in Nat
  OBVIOUS
<1>2. x % 256 \in 0..255
  OBVIOUS
<1>3. x = 256 * (x \div 256) + (x % 256)
  OBVIOUS
<1> QED BY <1>1, <1>2, <1>3

\* A byte read after a number is taken off again.
LEMMA Unread ==
  ASSUME NEW x \in Nat, NEW b \in 0..255
  PROVE  (x * 256 + b) \div 256 = x /\ (x * 256 + b) % 256 = b
OBVIOUS

\* Reading one more byte keeps the order of two numbers.
LEMMA Below ==
  ASSUME NEW x \in Nat, NEW y \in Nat, x <= y, NEW b \in 0..255
  PROVE  x * 256 + b <= y * 256 + 255
OBVIOUS

\* FromWire reads one byte after the other.
Reading(r, w) ==
  /\ r[0] = 0
  /\ \A n \in 1..UidBytes : r[n] = r[n - 1] * 256 + w[n]
  /\ FromWire(w) = r[UidBytes]

\* rdm_uid_from_wire reads each byte into what was read before it.
LEMMA FromWireReads ==
  ASSUME NEW w, \A n \in 1..UidBytes : w[n] \in Nat
  PROVE  \E r \in [0..UidBytes -> Nat] : Reading(r, w)
<1> DEFINE N == UidBytes
           step == [n \in 1..N |-> [v \in Nat |-> v * 256 + w[n]]]
           Reads(f) == [n \in 0..N |-> IF n = 0 THEN 0 ELSE Big(f[n - 1], w[n])]
           r == CHOOSE f : f = Reads(f)
<1>1. N \in Nat
  BY UidBytesAssumption
<1>2. \E f : f = Reads(f)
  <2>1. step \in Steps(N, Nat)
    BY DEF Steps
  <2>2. PICK f \in [0..N -> Nat] : Follows(f, N, 0, step)
    <3>1. 0 \in Nat
      OBVIOUS
    <3> HIDE DEF step, N
    <3> QED BY <1>1, <2>1, <3>1, Recursion, Zenon
  <2>3. ASSUME NEW n \in 1..N
        PROVE  f[n] = Big(f[n - 1], w[n])
    <3>1. n - 1 \in 0..N
      BY <1>1
    <3>2. f[n - 1] \in Nat
      BY <3>1
    <3> QED BY <2>2, <3>1, <3>2 DEF Follows, Big
  <2>4. f = Reads(f)
    BY <1>1, <2>2, <2>3 DEF Follows
  <2> QED BY <2>4
<1>3. r = Reads(r)
  BY <1>2
<1> HIDE DEF r
<1>a. \A n \in 0..N : r[n] = IF n = 0 THEN 0 ELSE Big(r[n - 1], w[n])
  BY <1>3
<1>4. r[0] = 0 /\ \A n \in 1..N : r[n] = r[n - 1] * 256 + w[n]
  BY <1>1, <1>a DEF Big
<1>5. 0..N \subseteq {n \in 0..N : r[n] \in Nat}
  <2> DEFINE T == {n \in 0..N : r[n] \in Nat}
  <2>1. 0 \in T
    BY <1>1, <1>4
  <2>2. ASSUME NEW n \in T, n \in 0..N-1 PROVE n + 1 \in T
    <3>1. n + 1 \in 1..N /\ (n + 1) - 1 = n
      BY <1>1, <2>2
    <3>2. r[n + 1] = r[n] * 256 + w[n + 1] /\ w[n + 1] \in Nat
      BY <1>4, <3>1
    <3> QED BY <1>1, <3>1, <3>2
  <2> HIDE DEF T, N
  <2>3. 0..N \subseteq T
    BY <1>1, <2>1, <2>2, UpTo
  <2> QED BY <2>3 DEF T
<1>6. r \in [0..N -> Nat]
  BY <1>3, <1>5
<1>7. FromWire(w) = r[N]
  BY DEF FromWire, r
<1> QED BY <1>4, <1>6, <1>7 DEF Reading

\* ToWire shifts the identifier by one byte after the other.
Shifting(s, u) ==
  /\ s[0] = u
  /\ \A n \in 1..UidBytes : s[n] = s[n - 1] \div 256
  /\ ToWire(u) = [n \in 1..UidBytes |-> s[UidBytes - n] % 256]

\* rdm_uid_to_wire shifts one byte out after the other.
LEMMA ToWireShifts ==
  ASSUME NEW u \in Nat
  PROVE  \E s \in [0..UidBytes -> Nat] : Shifting(s, u)
<1> DEFINE N == UidBytes
           step == [n \in 1..N |-> [v \in Nat |-> v \div 256]]
           Shifts(f) == [n \in 0..N |-> IF n = 0 THEN u ELSE f[n - 1] \div 256]
           s == CHOOSE f : f = Shifts(f)
<1>1. N \in Nat
  BY UidBytesAssumption
<1>2. \E f : f = Shifts(f)
  <2>1. step \in Steps(N, Nat)
    BY DEF Steps
  <2>2. PICK f \in [0..N -> Nat] : Follows(f, N, u, step)
    <3> HIDE DEF step, N
    <3> QED BY <1>1, <2>1, Recursion, Zenon
  <2>3. ASSUME NEW n \in 1..N
        PROVE  f[n] = f[n - 1] \div 256
    <3>1. n - 1 \in 0..N
      BY <1>1
    <3>2. f[n - 1] \in Nat
      BY <3>1
    <3> QED BY <2>2, <3>1, <3>2 DEF Follows
  <2>4. f = Shifts(f)
    BY <1>1, <2>2, <2>3 DEF Follows
  <2> QED BY <2>4
<1>3. s = Shifts(s)
  BY <1>2
<1> HIDE DEF s
<1>a. \A n \in 0..N : s[n] = IF n = 0 THEN u ELSE s[n - 1] \div 256
  BY <1>3
<1>4. s[0] = u /\ \A n \in 1..N : s[n] = s[n - 1] \div 256
  BY <1>1, <1>a
<1>5. 0..N \subseteq {n \in 0..N : s[n] \in Nat}
  <2> DEFINE T == {n \in 0..N : s[n] \in Nat}
  <2>1. 0 \in T
    BY <1>1, <1>4
  <2>2. ASSUME NEW n \in T, n \in 0..N-1 PROVE n + 1 \in T
    <3>1. n + 1 \in 1..N /\ (n + 1) - 1 = n
      BY <1>1, <2>2
    <3>2. s[n + 1] = s[n] \div 256 /\ s[n] \in Nat
      BY <1>4, <3>1
    <3> QED BY <1>1, <3>1, <3>2
  <2> HIDE DEF T, N
  <2>3. 0..N \subseteq T
    BY <1>1, <2>1, <2>2, UpTo
  <2> QED BY <2>3 DEF T
<1>6. s \in [0..N -> Nat]
  BY <1>3, <1>5
<1>7. ToWire(u) = [n \in 1..N |-> s[N - n] % 256]
  BY DEF ToWire, s
<1> QED BY <1>4, <1>6, <1>7 DEF Shifting

\* The identifier whose bytes are all 255.
Highest == FromWire([n \in 1..UidBytes |-> 255])

\* The highest identifier is read from bytes that are all 255.
LEMMA HighestReads ==
  \E h \in [0..UidBytes -> Nat] :
     /\ h[0] = 0 /\ \A n \in 1..UidBytes : h[n] = h[n - 1] * 256 + 255
     /\ Highest = h[UidBytes]
<1> DEFINE w == [n \in 1..UidBytes |-> 255]
<1>1. \A n \in 1..UidBytes : w[n] = 255 /\ w[n] \in Nat
  OBVIOUS
<1>2. Highest = FromWire(w)
  BY DEF Highest
<1> HIDE DEF w
<1>3. PICK h \in [0..UidBytes -> Nat] : Reading(h, w)
  BY <1>1, FromWireReads
<1>4. h[0] = 0 /\ Highest = h[UidBytes]
  BY <1>2, <1>3 DEF Reading
<1>5. \A n \in 1..UidBytes : h[n] = h[n - 1] * 256 + 255
  BY <1>1, <1>3 DEF Reading
<1> QED BY <1>4, <1>5

\* On the wire an identifier is as many bytes as it should be.
LEMMA ToWireBytes ==
  ASSUME NEW u \in Nat
  PROVE  /\ ToWire(u) \in [1..UidBytes -> Byte]
         /\ ToWire(u) \in Seq(Byte) /\ Len(ToWire(u)) = UidBytes
<1>1. PICK s \in [0..UidBytes -> Nat] : Shifting(s, u)
  BY ToWireShifts
<1>2. UidBytes \in Nat
  BY UidBytesAssumption
<1>3. \A n \in 1..UidBytes : UidBytes - n \in 0..UidBytes
  BY <1>2
<1>4. \A x \in Nat : x % 256 \in Byte
  BY DEF Byte
<1>5. \A n \in 1..UidBytes : s[UidBytes - n] % 256 \in Byte
  BY <1>3, <1>4
<1>6. ToWire(u) \in [1..UidBytes -> Byte]
  BY <1>1, <1>5 DEF Shifting
<1> QED BY <1>2, <1>6

\* An identifier survives the way to the wire and back.
THEOREM FromToWire ==
  ASSUME NEW u \in 0..Highest
  PROVE  FromWire(ToWire(u)) = u
<1> DEFINE N == UidBytes
<1>1. N \in Nat
  BY UidBytesAssumption
<1>0. \A n \in 1..N : n \in 0..N /\ n - 1 \in 0..N /\ N - n \in 0..N /\ N - (n - 1) \in 0..N
                      /\ N - (n - 1) = (N - n) + 1
  BY <1>1
<1>2. PICK h \in [0..N -> Nat] :
             /\ h[0] = 0 /\ \A n \in 1..N : h[n] = h[n - 1] * 256 + 255
             /\ Highest = h[N]
  BY HighestReads
<1>3. u \in Nat /\ u <= h[N]
  BY <1>1, <1>2
<1>4. PICK s \in [0..N -> Nat] :
             /\ s[0] = u /\ \A n \in 1..N : s[n] = s[n - 1] \div 256
             /\ ToWire(u) = [n \in 1..N |-> s[N - n] % 256]
  <2>1. PICK s \in [0..N -> Nat] : Shifting(s, u)
    BY <1>3, ToWireShifts
  <2> QED BY <2>1 DEF Shifting
<1>5. \A n \in 1..N : ToWire(u)[n] = s[N - n] % 256 /\ ToWire(u)[n] \in Nat
  <2>1. \A n \in 1..N : ToWire(u)[n] = s[N - n] % 256
    BY <1>4
  <2>2. \A n \in 1..N : ToWire(u)[n] \in Nat
    <3>1. ToWire(u) \in [1..N -> 0..255]
      BY <1>3, ToWireBytes DEF Byte
    <3>2. \A n \in 1..N : ToWire(u)[n] \in 0..255
      BY <3>1
    <3>3. \A b \in 0..255 : b \in Nat
      OBVIOUS
    <3> QED BY <3>2, <3>3
  <2> QED BY <2>1, <2>2
<1>6. PICK r \in [0..N -> Nat] :
             /\ r[0] = 0 /\ \A n \in 1..N : r[n] = r[n - 1] * 256 + ToWire(u)[n]
             /\ FromWire(ToWire(u)) = r[N]
  <2>1. PICK r \in [0..N -> Nat] : Reading(r, ToWire(u))
    BY <1>5, FromWireReads
  <2> QED BY <2>1 DEF Reading
\* Nothing is left when all bytes are shifted out.
<1>7. s[N] = 0
  <2> DEFINE T == {n \in 0..N : s[n] <= h[N - n]}
  <2>1. 0 \in T
    BY <1>1, <1>3, <1>4
  <2>2. ASSUME NEW n \in T, n \in 0..N-1 PROVE n + 1 \in T
    <3>1. /\ n + 1 \in 1..N /\ (n + 1) - 1 = n /\ N - n \in 1..N /\ n \in 0..N
          /\ (N - n) - 1 = N - (n + 1) /\ N - (n + 1) \in 0..N /\ N - n \in 0..N
      BY <1>1, <2>2
    <3>2. s[n + 1] = s[n] \div 256 /\ h[N - n] = h[N - (n + 1)] * 256 + 255
      BY <1>2, <1>4, <3>1
    <3>3. s[n] \in Nat /\ h[N - n] \in Nat /\ h[N - (n + 1)] \in Nat /\ s[n] <= h[N - n]
      BY <3>1
    <3>4. \A x, y \in Nat : x <= y * 256 + 255 => x \div 256 <= y
      OBVIOUS
    <3>5. s[n + 1] <= h[N - (n + 1)]
      BY <3>2, <3>3, <3>4
    <3> QED BY <3>1, <3>5
  <2>3. 0..N \subseteq T
    <3> HIDE DEF T, N
    <3> QED BY <1>1, <2>1, <2>2, UpTo
  <2>4. N \in T /\ N - N = 0
    <3> HIDE DEF T
    <3> QED BY <1>1, <2>3
  <2>5. s[N] <= h[0] /\ s[N] \in Nat
    BY <1>1, <2>4
  <2> QED BY <1>2, <2>5
\* What is read so far is what was not shifted out yet.
<1>8. r[N] = s[0]
  <2> DEFINE T == {n \in 0..N : r[n] = s[N - n]}
  <2>1. 0 \in T
    BY <1>1, <1>6, <1>7
  <2>2. ASSUME NEW n \in T, n \in 0..N-1 PROVE n + 1 \in T
    <3>1. /\ n + 1 \in 1..N /\ (n + 1) - 1 = n /\ N - n \in 1..N
          /\ (N - n) - 1 = N - (n + 1) /\ N - (n + 1) \in 0..N
      BY <1>1, <2>2
    <3>2. PICK x \in Nat : x = s[N - (n + 1)]
      BY <3>1
    <3>3. r[n] = x \div 256
      BY <1>4, <2>2, <3>1, <3>2
    <3>4. ToWire(u)[n + 1] = x % 256
      BY <1>5, <3>1, <3>2
    <3>a. r[n + 1] = r[n] * 256 + ToWire(u)[n + 1]
      BY <1>6, <3>1
    <3>5. r[n + 1] = x
      <4>1. x = 256 * (x \div 256) + (x % 256) /\ x \div 256 \in Nat /\ x % 256 \in Nat
        BY Shifted
      <4> QED BY <3>3, <3>4, <3>a, <4>1
    <3>6. r[n + 1] = s[N - (n + 1)]
      BY <3>2, <3>5
    <3> QED BY <3>1, <3>6
  <2>3. 0..N \subseteq T
    <3> HIDE DEF T, N
    <3> QED BY <1>1, <2>1, <2>2, UpTo
  <2>4. N \in T /\ N - N = 0
    <3> HIDE DEF T
    <3> QED BY <1>1, <2>3
  <2> QED BY <2>4
<1> QED BY <1>4, <1>6, <1>8

\* Bytes survive the way to an identifier and back.
THEOREM ToFromWire ==
  ASSUME NEW w \in [1..UidBytes -> Byte]
  PROVE  FromWire(w) \in 0..Highest /\ ToWire(FromWire(w)) = w
<1> DEFINE N == UidBytes
<1>1. N \in Nat
  BY UidBytesAssumption
<1>2. PICK h \in [0..N -> Nat] :
             /\ h[0] = 0 /\ \A n \in 1..N : h[n] = h[n - 1] * 256 + 255
             /\ Highest = h[N]
  BY HighestReads
<1>3. \A n \in 1..N : w[n] \in 0..255 /\ w[n] \in Nat
  <2>1. w \in [1..N -> 0..255]
    BY DEF Byte
  <2>2. \A n \in 1..N : w[n] \in 0..255
    BY <2>1
  <2>3. \A b \in 0..255 : b \in Nat
    OBVIOUS
  <2> QED BY <2>2, <2>3
<1>4. PICK r \in [0..N -> Nat] :
             /\ r[0] = 0 /\ \A n \in 1..N : r[n] = r[n - 1] * 256 + w[n]
             /\ FromWire(w) = r[N]
  <2>1. \A n \in 1..UidBytes : w[n] \in Nat
    BY <1>3
  <2>2. PICK r \in [0..N -> Nat] : Reading(r, w)
    BY <2>1, FromWireReads
  <2> QED BY <2>2 DEF Reading
<1>5. r[N] \in Nat
  BY <1>1
<1>6. PICK s \in [0..N -> Nat] :
             /\ s[0] = r[N] /\ \A n \in 1..N : s[n] = s[n - 1] \div 256
             /\ ToWire(r[N]) = [n \in 1..N |-> s[N - n] % 256]
  <2>1. PICK s \in [0..N -> Nat] : Shifting(s, r[N])
    BY <1>5, ToWireShifts
  <2> QED BY <2>1 DEF Shifting
<1>7. r[N] <= h[N]
  <2> DEFINE T == {n \in 0..N : r[n] <= h[n]}
  <2>1. 0 \in T
    BY <1>1, <1>2, <1>4
  <2>2. ASSUME NEW n \in T, n \in 0..N-1 PROVE n + 1 \in T
    <3>1. n + 1 \in 1..N /\ (n + 1) - 1 = n /\ n \in 0..N
      BY <1>1, <2>2
    <3>2. r[n + 1] = r[n] * 256 + w[n + 1] /\ h[n + 1] = h[n] * 256 + 255
      BY <1>2, <1>4, <3>1
    <3>a. PICK b \in 0..255 : b = w[n + 1]
      BY <1>3, <3>1
    <3>3. r[n] \in Nat /\ h[n] \in Nat /\ r[n] <= h[n]
      BY <2>2, <3>1
    <3>b. PICK x \in Nat, y \in Nat : x = r[n] /\ y = h[n] /\ x <= y
      BY <3>3
    <3>c. x * 256 + b <= y * 256 + 255
      <4>1. x <= y
        BY <3>b
      <4> QED BY <4>1, Below
    <3>d. r[n + 1] = x * 256 + b /\ h[n + 1] = y * 256 + 255
      BY <3>2, <3>a, <3>b
    <3>5. r[n + 1] <= h[n + 1]
      BY <3>c, <3>d
    <3> QED BY <3>1, <3>5
  <2>3. 0..N \subseteq T
    <3> HIDE DEF T, N
    <3> QED BY <1>1, <2>1, <2>2, UpTo
  <2>4. N \in T
    <3> HIDE DEF T
    <3> QED BY <1>1, <2>3
  <2> QED BY <2>4
\* Shifting takes off what was read last.
<1>8. \A k \in 0..N : s[k] = r[N - k]
  <2> DEFINE T == {n \in 0..N : s[n] = r[N - n]}
  <2>1. 0 \in T
    BY <1>1, <1>6
  <2>2. ASSUME NEW n \in T, n \in 0..N-1 PROVE n + 1 \in T
    <3>1. /\ n + 1 \in 1..N /\ (n + 1) - 1 = n /\ N - n \in 1..N
          /\ (N - n) - 1 = N - (n + 1) /\ N - (n + 1) \in 0..N
      BY <1>1, <2>2
    <3>2. s[n + 1] = r[N - n] \div 256
      BY <1>6, <2>2, <3>1
    <3>3. /\ r[N - n] = r[N - (n + 1)] * 256 + w[N - n]
          /\ r[N - (n + 1)] \in Nat /\ w[N - n] \in 0..255
      <4>1. r[N - n] = r[(N - n) - 1] * 256 + w[N - n]
        BY <1>4, <3>1
      <4>2. r[N - (n + 1)] \in Nat
        BY <3>1
      <4>3. w[N - n] \in 0..255
        BY <1>3, <3>1
      <4> QED BY <3>1, <4>1, <4>2, <4>3
    <3>4. PICK x \in Nat, b \in 0..255 : x = r[N - (n + 1)] /\ b = w[N - n]
      BY <3>3
    <3>5. r[N - n] = x * 256 + b
      BY <3>3, <3>4
    <3>6. s[n + 1] = x
      BY <3>2, <3>5, Unread
    <3>7. s[n + 1] = r[N - (n + 1)]
      BY <3>4, <3>6
    <3> QED BY <3>1, <3>7
  <2>3. 0..N \subseteq T
    <3> HIDE DEF T, N
    <3> QED BY <1>1, <2>1, <2>2, UpTo
  <2> QED BY <2>3
<1>9. ASSUME NEW n \in 1..N
      PROVE  s[N - n] % 256 = w[n]
  <2>1. N - n \in 0..N /\ N - (N - n) = n /\ n - 1 \in 0..N
    BY <1>1
  <2>2. s[N - n] = r[n] /\ r[n] = r[n - 1] * 256 + w[n]
    BY <1>4, <1>8, <2>1
  <2>3. PICK x \in Nat, b \in 0..255 : x = r[n - 1] /\ b = w[n]
    BY <1>3, <2>1
  <2>4. s[N - n] = x * 256 + b
    BY <2>2, <2>3
  <2>5. (x * 256 + b) % 256 = b
    <3>1. x \in Nat /\ b \in Nat /\ b <= 255
      OBVIOUS
    <3> QED BY ONLY <3>1
  <2> QED BY <2>3, <2>4, <2>5
<1>10. ToWire(r[N]) = w
  BY <1>6, <1>9
<1> QED BY <1>2, <1>4, <1>5, <1>7, <1>10

-----------------------------------------------------------------------------
(***************************************************************************)
(* Answers to a discovery request.                                         *)
(***************************************************************************)
\* The number of bytes of an identifier.
LEMMA UidBytesNat == UidBytes \in Nat \ {0} /\ UidBytes <= 120
BY UidBytesAssumption

\* The values of a word, which the provers do not enumerate.
LEMMA WordNat ==
  /\ Word \in Nat
  /\ \A x : x \in 0..Word-1 <=> x \in Nat /\ x <= 65535
  /\ \A x \in Nat : x < Word <=> x <= 65535
<1>1. Word \in Nat
  BY DEF Word
<1>2. \A x : x \in 0..Word-1 <=> x \in Nat /\ x < Word
  BY <1>1
<1>3. \A x \in Nat : x < Word <=> x <= 65535
  BY DEF Word
<1> QED BY <1>1, <1>2, <1>3

\* Two bytes make a word, and a word makes two bytes.
LEMMA BigBytes ==
  ASSUME NEW x \in 0..Word-1
  PROVE  /\ Bytes(x) \in Seq(Byte) /\ Len(Bytes(x)) = 2
         /\ Bytes(x)[1] = x \div 256 /\ Bytes(x)[2] = x % 256
         /\ Bytes(x)[1] \in Byte /\ Bytes(x)[2] \in Byte
         /\ Big(Bytes(x)[1], Bytes(x)[2]) = x
<1>1. x \in Nat /\ x <= 65535
  <2>1. Word \in Nat
    BY WordNat
  <2>2. x \in Nat /\ x < Word
    BY <2>1
  <2> QED BY ONLY <2>2, WordNat
<1>2. x \div 256 \in 0..255 /\ x % 256 \in 0..255 /\ (x \div 256) * 256 + (x % 256) = x
  BY <1>1
<1> QED BY <1>2 DEF Bytes, Byte, Big

\* The two bytes of a word are those it was made of.
LEMMA BytesBig ==
  ASSUME NEW h \in Byte, NEW l \in Byte
  PROVE  /\ Big(h, l) \in 0..Word-1
         /\ Big(h, l) \div 256 = h /\ Big(h, l) % 256 = l
<1>1. h \in 0..255 /\ l \in 0..255
  BY DEF Byte
<1>2. PICK x \in Nat, y \in 0..255 : x = h /\ y = l /\ x <= 255
  BY <1>1
<1>3. x * 256 + y \in Nat /\ x * 256 + y <= 65535
  BY <1>2
<1>4. (x * 256 + y) \div 256 = x /\ (x * 256 + y) % 256 = y
  <2>1. x \in Nat /\ y \in Nat /\ y <= 255
    OBVIOUS
  <2>2. (x * 256 + y) \div 256 = x
    BY ONLY <2>1
  <2>3. (x * 256 + y) % 256 = y
    BY ONLY <2>1
  <2> QED BY <2>2, <2>3
<1>5. Big(h, l) = x * 256 + y
  BY <1>2 DEF Big
<1>6. Big(h, l) \in 0..Word-1
  BY <1>3, <1>5, WordNat
<1> QED BY <1>2, <1>4, <1>5, <1>6

\* Bytes are numbers.
LEMMA ByteNat == Byte \subseteq Nat /\ \A b \in Byte : b <= 255
BY DEF Byte

\* The bytes an answer's nibbles make.
Nibbles(p) == [n \in 1..UidBytes |-> (p[2 + 2*n] % 16) * 16 + (p[3 + 2*n] % 16)]

\* Where the nibbles of an answer are.
LEMMA NibblePlaces ==
  ASSUME NEW n \in 1..UidBytes
  PROVE  /\ 2 + 2*n \in 4..3+2*UidBytes /\ 3 + 2*n \in 4..3+2*UidBytes
         /\ 2 + 2*n \in 1..5+2*UidBytes /\ 3 + 2*n \in 1..5+2*UidBytes
BY UidBytesNat

\* The nibbles of an answer make bytes.
LEMMA NibblesBytes ==
  ASSUME NEW p \in Seq(Byte), Len(p) = 5 + 2*UidBytes
  PROVE  /\ Nibbles(p) \in [1..UidBytes -> Byte]
         /\ Nibbles(p) \in Seq(Nat) /\ Len(Nibbles(p)) = UidBytes
<1>1. ASSUME NEW n \in 1..UidBytes
      PROVE  (p[2 + 2*n] % 16) * 16 + (p[3 + 2*n] % 16) \in Byte
  <2>1. p[2 + 2*n] \in Byte /\ p[3 + 2*n] \in Byte
    BY NibblePlaces
  <2>2. \A x, y \in 0..255 : (x % 16) * 16 + (y % 16) \in 0..255
    OBVIOUS
  <2> QED BY <2>1, <2>2 DEF Byte
<1>2. Nibbles(p) \in [1..UidBytes -> Byte]
  BY <1>1 DEF Nibbles
<1>3. Nibbles(p) \in [1..UidBytes -> Nat]
  BY <1>2, ByteNat
<1> QED BY <1>2, <1>3, UidBytesNat

\* The first separator is at the place that Leading tells.
LEMMA LeadingFacts ==
  ASSUME NEW p \in Seq(Byte)
  PROVE  /\ Leading(p) \in 0..Len(p)
         /\ Leading(p) < Len(p) => p[Leading(p) + 1] = Separator
         /\ \A n \in 1..Len(p) : p[n] = Separator => Leading(p) <= n - 1
<1> DEFINE S == {n \in 0..Len(p)-1 : p[n + 1] = Separator}
<1>0. Len(p) \in Nat
  OBVIOUS
<1>1. Leading(p) = IF S = {} THEN Len(p) ELSE CHOOSE n \in S : \A m \in S : n <= m
  BY DEF Leading, At
<1>2. \A n \in 1..Len(p) : p[n] = Separator => n - 1 \in S
  BY <1>0
<1>3. CASE S = {}
  <2>1. Leading(p) = Len(p)
    BY <1>1, <1>3
  <2>2. \A n \in 1..Len(p) : p[n] # Separator
    <3> HIDE DEF S
    <3> QED BY <1>2, <1>3
  <2> QED BY <1>0, <2>1, <2>2
<1>4. CASE S # {}
  <2>1. \E n \in S : \A m \in S : n <= m
    <3> DEFINE T == {n \in Nat : \A m \in S : m > n}
    <3>1. SUFFICES ASSUME \A n \in S : \E m \in S : ~(n <= m) PROVE FALSE
      OBVIOUS
    <3>2. 0 \in T
      <4>1. 0 \notin S
        BY <3>1
      <4> QED BY <4>1
    <3>3. ASSUME NEW n \in T PROVE n + 1 \in T
      <4>1. ASSUME NEW m \in S, ~(m > n + 1) PROVE FALSE
        <5>1. m \in Nat /\ m > n
          BY <1>0
        <5>2. m = n + 1
          BY <4>1, <5>1
        <5>3. PICK k \in S : ~(m <= k)
          BY <3>1
        <5>4. k > n /\ k \in Nat
          BY <1>0
        <5> QED BY <5>2, <5>3, <5>4
      <4> QED BY <4>1
    <3>4. T = Nat
      <4>1. T \in SUBSET Nat
        OBVIOUS
      <4> HIDE DEF T
      <4> QED BY <4>1, <3>2, <3>3, SetInduction
    <3>5. PICK m \in S : TRUE
      BY <1>4
    <3>6. m \in Nat
      BY <1>0
    <3>7. m \in T
      BY <3>4, <3>6
    <3> QED BY <3>6, <3>7
  <2>2. Leading(p) \in S /\ \A m \in S : Leading(p) <= m
    BY <1>1, <1>4, <2>1
  <2> QED BY <1>0, <1>2, <2>2
<1> QED BY <1>3, <1>4

\* What rdmParseDiscoveryResponse makes of an answer of the usual length.
LEMMA ParseFacts ==
  ASSUME NEW p \in Seq(Byte), Len(p) = 5 + 2*UidBytes
  PROVE  LET r == rdmParseDiscoveryResponse(p)
         IN /\ r.kind \in {"COLLISION", "SINGLE"}
            /\ r.kind = "SINGLE" <=>
                 /\ Leading(p) = 2
                 /\ \A n \in 1..UidBytes : p[2 + 2*n] >= 240 /\ p[3 + 2*n] >= 240
                 /\ (Total(Nibbles(p)) + 255 * UidBytes) % Word
                      = Big(p[4 + 2*UidBytes], p[5 + 2*UidBytes])
            /\ r.kind = "SINGLE" => r.uid = FromWire(Nibbles(p))
<1> DEFINE sep == Leading(p)
           high(n) == At(p, sep + 2 * n - 1)
           low(n) == At(p, sep + 2 * n)
           bytes == [n \in 1..UidBytes |-> (high(n) % 16) * 16 + (low(n) % 16)]
           ck == sep + 2 * UidBytes + 1
           Bad == \/ sep < 2 \/ ck + 1 >= Len(p)
                  \/ \E n \in 1..UidBytes : high(n) < 240 \/ low(n) < 240
                  \/ (Total(bytes) + 255 * UidBytes) % Word # Big(At(p, ck), At(p, ck + 1))
           r == rdmParseDiscoveryResponse(p)
<1>1. r = IF Len(p) < 4 THEN Result("EMPTY", 0)
          ELSE IF Bad THEN Result("COLLISION", 0) ELSE Result("SINGLE", FromWire(bytes))
  BY DEF rdmParseDiscoveryResponse
<1>2. Len(p) >= 4 /\ UidBytes \in Nat /\ sep \in Nat
  BY UidBytesNat, LeadingFacts
<1>3. r = IF Bad THEN Result("COLLISION", 0) ELSE Result("SINGLE", FromWire(bytes))
  BY <1>1, <1>2
<1>4. r.kind \in {"COLLISION", "SINGLE"} /\ (r.kind = "SINGLE" <=> ~Bad)
      /\ (~Bad => r.uid = FromWire(bytes))
  <2> HIDE DEF Bad, bytes, r
  <2> QED BY <1>3 DEF Result
<1>5. ~(sep < 2 \/ ck + 1 >= Len(p)) <=> sep = 2
  BY <1>2
<1>6. ASSUME sep = 2
      PROVE  /\ bytes = Nibbles(p)
             /\ \A n \in 1..UidBytes : high(n) = p[2 + 2*n] /\ low(n) = p[3 + 2*n]
             /\ At(p, ck) = p[4 + 2*UidBytes] /\ At(p, ck + 1) = p[5 + 2*UidBytes]
  <2>1. \A n \in 1..UidBytes : sep + 2*n - 1 + 1 = 2 + 2*n /\ sep + 2*n + 1 = 3 + 2*n
    BY <1>6
  <2>2. \A n \in 1..UidBytes : high(n) = p[2 + 2*n] /\ low(n) = p[3 + 2*n]
    BY <2>1 DEF At
  <2>3. bytes = Nibbles(p)
    <3> HIDE DEF high, low
    <3> QED BY <2>2 DEF Nibbles
  <2>4. ck + 1 = 4 + 2*UidBytes /\ ck + 1 + 1 = 5 + 2*UidBytes
    BY <1>2, <1>6
  <2> QED BY <2>2, <2>3, <2>4 DEF At
<1>7. ASSUME NEW n \in 1..UidBytes
      PROVE  p[2 + 2*n] \in Nat /\ p[3 + 2*n] \in Nat
  <2>1. p[2 + 2*n] \in Byte /\ p[3 + 2*n] \in Byte
    BY NibblePlaces
  <2> QED BY <2>1, ByteNat
<1>8. ~Bad <=> /\ sep = 2
               /\ \A n \in 1..UidBytes : p[2 + 2*n] >= 240 /\ p[3 + 2*n] >= 240
               /\ (Total(Nibbles(p)) + 255 * UidBytes) % Word
                    = Big(p[4 + 2*UidBytes], p[5 + 2*UidBytes])
  <2>1. CASE sep = 2
    <3>1. /\ bytes = Nibbles(p)
          /\ \A n \in 1..UidBytes : high(n) = p[2 + 2*n] /\ low(n) = p[3 + 2*n]
          /\ At(p, ck) = p[4 + 2*UidBytes] /\ At(p, ck + 1) = p[5 + 2*UidBytes]
      BY <1>6, <2>1
    <3>2. (\E n \in 1..UidBytes : high(n) < 240 \/ low(n) < 240)
          <=> ~(\A n \in 1..UidBytes : p[2 + 2*n] >= 240 /\ p[3 + 2*n] >= 240)
      <4>1. ASSUME NEW n \in 1..UidBytes
            PROVE  (high(n) < 240 \/ low(n) < 240)
                   <=> ~(p[2 + 2*n] >= 240 /\ p[3 + 2*n] >= 240)
        <5>1. PICK x \in Nat, y \in Nat : x = p[2 + 2*n] /\ y = p[3 + 2*n]
          BY <1>7
        <5>2. high(n) = x /\ low(n) = y
          BY <3>1, <5>1
        <5> HIDE DEF high, low
        <5> QED BY <5>1, <5>2
      <4> HIDE DEF high, low
      <4> QED BY <4>1
    <3> HIDE DEF high, low, bytes, ck
    <3>3. ~(sep < 2 \/ ck + 1 >= Len(p))
      BY <1>5, <2>1
    <3> QED BY <2>1, <3>1, <3>2, <3>3
  <2>2. CASE sep # 2
    BY <1>5, <2>2
  <2> QED BY <2>1, <2>2
<1> HIDE DEF Bad, bytes, r
<1> QED BY <1>4, <1>6, <1>8 DEF r

\* Three sequences in a row.
Joined(t, a, b, c) == t = a \o b \o c

\* Where each of them is found.
Laid(t, a, b, c) ==
  /\ t \in Seq(Byte) /\ Len(t) = Len(a) + Len(b) + Len(c)
  /\ \A n \in 1..Len(a) : t[n] = a[n]
  /\ \A n \in 1..Len(b) : t[Len(a) + n] = b[n]
  /\ \A n \in 1..Len(c) : t[Len(a) + Len(b) + n] = c[n]

\* Where the elements of three sequences in a row are.
LEMMA ThreeJoined ==
  ASSUME NEW a \in Seq(Byte), NEW b \in Seq(Byte), NEW c \in Seq(Byte),
         NEW t, Joined(t, a, b, c)
  PROVE  Laid(t, a, b, c)
<1> DEFINE x == a \o b
<1>1. x \in Seq(Byte) /\ Len(x) = Len(a) + Len(b)
  OBVIOUS
<1>2. Len(a) \in Nat /\ Len(b) \in Nat /\ Len(c) \in Nat
  OBVIOUS
<1>3. \A n \in 1..Len(a) : x[n] = a[n]
  OBVIOUS
<1>4. \A n \in 1..Len(b) : x[Len(a) + n] = b[n]
  OBVIOUS
<1>5. t = x \o c
  BY DEF Joined
<1> HIDE DEF x
<1>6. t \in Seq(Byte) /\ Len(t) = Len(x) + Len(c)
  <2>1. x \o c \in Seq(Byte) /\ Len(x \o c) = Len(x) + Len(c)
    <3>1. x \in Seq(Byte) /\ c \in Seq(Byte)
      BY <1>1
    <3> QED BY ONLY <3>1, ConcatProperties
  <2> QED BY <1>5, <2>1
<1>7. \A n \in 1..Len(x) : t[n] = x[n]
  BY <1>1, <1>5
<1>8. \A n \in 1..Len(c) : t[Len(x) + n] = c[n]
  BY <1>1, <1>5
<1> QED BY <1>1, <1>2, <1>3, <1>4, <1>6, <1>7, <1>8 DEF Laid

\* The sum of bytes is a number.
LEMMA TotalNat ==
  ASSUME NEW p \in Seq(Nat)
  PROVE  Total(p) \in Nat
<1>1. PICK s \in [0..Len(p) -> Nat] : Total(p) = s[Len(p)]
  BY TotalSums
<1>2. Len(p) \in 0..Len(p)
  OBVIOUS
<1> QED BY <1>1, <1>2

\* The checksum of an answer.
Check(w) == (Total(w) + 255 * UidBytes) % Word

\* The checksum of an answer is a word.
LEMMA CheckWord ==
  ASSUME NEW w \in [1..UidBytes -> Byte]
  PROVE  Check(w) \in 0..Word-1 /\ Total(w) \in Nat
<1>1. w \in [1..UidBytes -> Nat] /\ UidBytes \in Nat
  BY ByteNat, UidBytesNat
<1>2. Total(w) \in Nat
  BY <1>1, TotalNat
<1>3. PICK t \in Nat : t = Total(w) + 255 * UidBytes
  BY <1>1, <1>2
<1>4. t % Word \in Nat /\ t % Word <= 65535
  BY DEF Word
<1>5. t % Word \in 0..Word-1
  BY <1>4, WordNat
<1> QED BY <1>2, <1>3, <1>5 DEF Check

\* What an answer is, byte by byte.
IsAnswer(p, w) ==
  /\ p \in Seq(Byte) /\ Len(p) = 5 + 2*UidBytes
  /\ p[1] = 254 /\ p[2] = 254 /\ p[3] = Separator
  /\ \A n \in 1..UidBytes : /\ p[2 + 2*n] = 240 + (w[n] \div 16)
                            /\ p[3 + 2*n] = 240 + (w[n] % 16)
  /\ p[4 + 2*UidBytes] = Check(w) \div 256
  /\ p[5 + 2*UidBytes] = Check(w) % 256

\* The answer of a device, byte by byte.
LEMMA AnswerBytes ==
  ASSUME NEW u \in Nat
  PROVE  IsAnswer(DiscoveryResponse(u), ToWire(u))
<1> DEFINE w == ToWire(u)
           a == <<254, 254, Separator>>
           b == [n \in 1..2*UidBytes |->
                   240 + IF (n % 2) = 1 THEN w[(n + 1) \div 2] \div 16 ELSE w[n \div 2] % 16]
           c == Bytes(Check(w))
           p == DiscoveryResponse(u)
<1>1. UidBytes \in Nat /\ 2*UidBytes \in Nat
  BY UidBytesNat
<1>2. w \in [1..UidBytes -> Byte]
  BY ToWireBytes
<1>3. Joined(p, a, b, c)
  BY DEF DiscoveryResponse, Check, Joined
<1>4. a \in Seq(Byte) /\ Len(a) = 3 /\ a[1] = 254 /\ a[2] = 254 /\ a[3] = Separator
  BY DEF Byte, Separator
<1>5. /\ c \in Seq(Byte) /\ Len(c) = 2
      /\ c[1] = Check(w) \div 256 /\ c[2] = Check(w) % 256
  BY <1>2, CheckWord, BigBytes
<1>6. ASSUME NEW n \in 1..2*UidBytes
      PROVE  240 + (IF (n % 2) = 1 THEN w[(n + 1) \div 2] \div 16 ELSE w[n \div 2] % 16) \in Byte
  <2>1. \A x \in Byte : 240 + (x \div 16) \in Byte /\ 240 + (x % 16) \in Byte
    BY DEF Byte
  <2>2. CASE n % 2 = 1
    <3>1. (n + 1) \div 2 \in 1..UidBytes
      BY <1>1, <2>2
    <3> QED BY <1>2, <2>1, <2>2, <3>1
  <2>3. CASE n % 2 # 1
    <3>1. n \div 2 \in 1..UidBytes
      BY <1>1, <2>3
    <3> QED BY <1>2, <2>1, <2>3, <3>1
  <2> QED BY <2>2, <2>3
<1>7. b \in Seq(Byte) /\ Len(b) = 2*UidBytes
  <2>1. b \in [1..2*UidBytes -> Byte]
    BY <1>6
  <2> HIDE DEF b
  <2> QED BY <1>1, <2>1
<1>8. ASSUME NEW n \in 1..UidBytes
      PROVE  /\ b[2*n - 1] = 240 + (w[n] \div 16)
             /\ b[2*n] = 240 + (w[n] % 16)
             /\ 2*n - 1 \in 1..2*UidBytes /\ 2*n \in 1..2*UidBytes
  <2>1. /\ 2*n - 1 \in 1..2*UidBytes /\ 2*n \in 1..2*UidBytes
        /\ (2*n - 1) % 2 = 1 /\ (2*n) % 2 # 1
        /\ ((2*n - 1) + 1) \div 2 = n /\ (2*n) \div 2 = n
    BY <1>1
  <2>2. b[2*n - 1] = 240 + (w[n] \div 16)
    BY <2>1
  <2>3. b[2*n] = 240 + (w[n] % 16)
    BY <2>1
  <2> QED BY <2>1, <2>2, <2>3
<1> HIDE DEF a, b, c, p
<1>9. /\ p \in Seq(Byte) /\ Len(p) = Len(a) + Len(b) + Len(c)
      /\ \A n \in 1..Len(a) : p[n] = a[n]
      /\ \A n \in 1..Len(b) : p[Len(a) + n] = b[n]
      /\ \A n \in 1..Len(c) : p[Len(a) + Len(b) + n] = c[n]
  <2>1. a \in Seq(Byte) /\ b \in Seq(Byte) /\ c \in Seq(Byte)
    BY <1>4, <1>5, <1>7
  <2>2. Laid(p, a, b, c)
    BY ONLY <1>3, <2>1, ThreeJoined
  <2> QED BY ONLY <2>2 DEF Laid
<1>10. Len(p) = 5 + 2*UidBytes
  BY <1>1, <1>4, <1>5, <1>7, <1>9
<1>11. p[1] = 254 /\ p[2] = 254 /\ p[3] = Separator
  <2>1. 1 \in 1..Len(a) /\ 2 \in 1..Len(a) /\ 3 \in 1..Len(a)
    BY <1>4
  <2> QED BY <1>4, <1>9, <2>1
<1>12. ASSUME NEW n \in 1..UidBytes
       PROVE  p[2 + 2*n] = 240 + (w[n] \div 16) /\ p[3 + 2*n] = 240 + (w[n] % 16)
  <2>1. 3 + (2*n - 1) = 2 + 2*n
    OBVIOUS
  <2>2. p[3 + (2*n - 1)] = b[2*n - 1] /\ p[3 + 2*n] = b[2*n]
    <3>1. 2*n - 1 \in 1..Len(b) /\ 2*n \in 1..Len(b)
      BY <1>7, <1>8
    <3>2. \A i \in 1..Len(b) : p[3 + i] = b[i]
      BY <1>4, <1>9
    <3> QED BY <3>1, <3>2
  <2> QED BY <1>8, <2>1, <2>2
<1>13. /\ p[4 + 2*UidBytes] = Check(w) \div 256
       /\ p[5 + 2*UidBytes] = Check(w) % 256
  <2>1. 1 \in 1..Len(c) /\ 2 \in 1..Len(c)
    BY <1>5
  <2>2. /\ Len(a) + Len(b) + 1 = 4 + 2*UidBytes
        /\ Len(a) + Len(b) + 2 = 5 + 2*UidBytes
    BY <1>1, <1>4, <1>7
  <2> QED BY <1>5, <1>9, <2>1, <2>2
<1> QED BY <1>9, <1>10, <1>11, <1>12, <1>13 DEF IsAnswer, p

\* Bytes that are those of an answer are the answer.
LEMMA AnswerUnique ==
  ASSUME NEW w, NEW p, NEW q, IsAnswer(p, w), IsAnswer(q, w)
  PROVE  p = q
<1>1. UidBytes \in Nat
  BY UidBytesNat
<1>2. ASSUME NEW k \in 1..5+2*UidBytes
      PROVE  p[k] = q[k]
  <2>1. CASE k <= 3
    <3>1. k = 1 \/ k = 2 \/ k = 3
      BY <2>1
    <3> QED BY <3>1 DEF IsAnswer
  <2>2. CASE k >= 4 + 2*UidBytes
    <3>1. k = 4 + 2*UidBytes \/ k = 5 + 2*UidBytes
      BY <1>1, <2>2
    <3> QED BY <3>1 DEF IsAnswer
  <2>3. CASE k > 3 /\ k < 4 + 2*UidBytes
    <3>1. PICK n \in 1..UidBytes : k = 2 + 2*n \/ k = 3 + 2*n
      <4> DEFINE n == (k - 2) \div 2
      <4>1. n \in 1..UidBytes /\ (k = 2 + 2*n \/ k = 3 + 2*n)
        BY <1>1, <2>3
      <4> QED BY <4>1
    <3>2. /\ p[2 + 2*n] = q[2 + 2*n]
          /\ p[3 + 2*n] = q[3 + 2*n]
      BY DEF IsAnswer
    <3> QED BY <3>1, <3>2
  <2> QED BY <1>1, <2>1, <2>2, <2>3
<1> QED BY <1>1, <1>2 DEF IsAnswer

\* Two nibbles make a byte, and a byte makes two nibbles.
LEMMA ByteOfNibbles ==
  \A b \in Byte : ((240 + (b \div 16)) % 16) * 16 + ((240 + (b % 16)) % 16) = b
BY DEF Byte

\* Nibbles that carry their mark are those of the byte they make.
LEMMA NibblesOfByte ==
  \A x, y \in Byte :
    x >= 240 /\ y >= 240 =>
      LET b == (x % 16) * 16 + (y % 16)
      IN x = 240 + (b \div 16) /\ y = 240 + (b % 16)
BY DEF Byte

\* The nibbles of an answer make the identifier on the wire.
LEMMA NibblesOfAnswer ==
  ASSUME NEW w \in [1..UidBytes -> Byte], NEW p, IsAnswer(p, w)
  PROVE  Nibbles(p) = w
<1>1. ASSUME NEW n \in 1..UidBytes
      PROVE  (p[2 + 2*n] % 16) * 16 + (p[3 + 2*n] % 16) = w[n]
  <2>1. /\ p[2 + 2*n] = 240 + (w[n] \div 16)
        /\ p[3 + 2*n] = 240 + (w[n] % 16)
    BY DEF IsAnswer
  <2>2. w[n] \in Byte
    OBVIOUS
  <2>3. PICK b \in Byte : b = w[n]
    BY <2>2
  <2>4. p[2 + 2*n] = 240 + (b \div 16) /\ p[3 + 2*n] = 240 + (b % 16)
    BY <2>1, <2>3
  <2> QED BY <2>3, <2>4, ByteOfNibbles
<1> QED BY <1>1 DEF Nibbles

\* The separator of an answer comes after two bytes.
LEMMA LeadingOfAnswer ==
  ASSUME NEW w, NEW p, IsAnswer(p, w)
  PROVE  Leading(p) = 2
<1>1. /\ p \in Seq(Byte) /\ Len(p) = 5 + 2*UidBytes /\ UidBytes \in Nat
      /\ p[1] # Separator /\ p[2] # Separator /\ p[3] = Separator
  BY UidBytesNat DEF IsAnswer, Separator
<1>2. /\ Leading(p) \in 0..Len(p)
      /\ Leading(p) < Len(p) => p[Leading(p) + 1] = Separator
      /\ Leading(p) <= 2
  <2>1. 3 \in 1..Len(p) /\ 3 - 1 = 2
    BY <1>1
  <2> QED BY <1>1, <2>1, LeadingFacts
<1>3. Leading(p) < Len(p)
  BY <1>1, <1>2
<1>4. Leading(p) # 0 /\ Leading(p) # 1
  BY <1>1, <1>2, <1>3
<1> QED BY <1>2, <1>4

\* The answer of one device is read as that device.
THEOREM AnswerIsRead ==
  ASSUME NEW u \in 0..Highest
  PROVE  LET r == rdmParseDiscoveryResponse(DiscoveryResponse(u))
         IN r.kind = "SINGLE" /\ r.uid = u
<1> DEFINE p == DiscoveryResponse(u)
           w == ToWire(u)
<1>1. u \in Nat
  OBVIOUS
<1>2. IsAnswer(p, w) /\ w \in [1..UidBytes -> Byte]
  BY <1>1, AnswerBytes, ToWireBytes
<1> HIDE DEF p, w
<1>3. p \in Seq(Byte) /\ Len(p) = 5 + 2*UidBytes
  BY <1>2 DEF IsAnswer
<1>4. Nibbles(p) = w /\ Leading(p) = 2
  BY <1>2, NibblesOfAnswer, LeadingOfAnswer
<1>5. ASSUME NEW n \in 1..UidBytes
      PROVE  p[2 + 2*n] >= 240 /\ p[3 + 2*n] >= 240
  <2>1. \A b \in Byte : 240 + (b \div 16) >= 240 /\ 240 + (b % 16) >= 240
    BY DEF Byte
  <2>2. PICK b \in Byte : b = w[n]
    BY <1>2
  <2>3. p[2 + 2*n] = 240 + (b \div 16) /\ p[3 + 2*n] = 240 + (b % 16)
    BY <1>2, <2>2 DEF IsAnswer
  <2> QED BY <2>1, <2>3
<1>6. (Total(Nibbles(p)) + 255 * UidBytes) % Word = Big(p[4 + 2*UidBytes], p[5 + 2*UidBytes])
  <2>1. /\ p[4 + 2*UidBytes] = Check(w) \div 256
        /\ p[5 + 2*UidBytes] = Check(w) % 256
    BY <1>2 DEF IsAnswer
  <2>2. Check(w) \in 0..Word-1
    BY <1>2, CheckWord
  <2>3. Big(Check(w) \div 256, Check(w) % 256) = Check(w)
    BY <2>2, BigBytes
  <2> QED BY <1>4, <2>1, <2>3 DEF Check
<1>7. FromWire(Nibbles(p)) = u
  BY <1>4, FromToWire DEF w
<1>8. LET r == rdmParseDiscoveryResponse(p)
      IN /\ r.kind = "SINGLE" <=>
              /\ Leading(p) = 2
              /\ \A n \in 1..UidBytes : p[2 + 2*n] >= 240 /\ p[3 + 2*n] >= 240
              /\ (Total(Nibbles(p)) + 255 * UidBytes) % Word
                   = Big(p[4 + 2*UidBytes], p[5 + 2*UidBytes])
         /\ r.kind = "SINGLE" => r.uid = FromWire(Nibbles(p))
  BY <1>3, ParseFacts
<1> QED BY <1>4, <1>5, <1>6, <1>7, <1>8 DEF p

\* What is read as a device is an identifier.
LEMMA SingleUid ==
  ASSUME NEW p \in Seq(Byte), Len(p) = 5 + 2*UidBytes,
         rdmParseDiscoveryResponse(p).kind = "SINGLE"
  PROVE  rdmParseDiscoveryResponse(p).uid \in 0..Highest
<1>1. rdmParseDiscoveryResponse(p).uid = FromWire(Nibbles(p))
  BY ParseFacts
<1>2. Nibbles(p) \in [1..UidBytes -> Byte]
  BY NibblesBytes
<1> QED BY <1>1, <1>2, ToFromWire

\* Bytes that begin like an answer and are read as a device are its answer.
THEOREM SingleIsAnswer ==
  ASSUME NEW p \in Seq(Byte), Len(p) = 5 + 2*UidBytes, p[1] = 254, p[2] = 254,
         rdmParseDiscoveryResponse(p).kind = "SINGLE"
  PROVE  LET u == rdmParseDiscoveryResponse(p).uid
         IN u \in 0..Highest /\ p = DiscoveryResponse(u)
<1> DEFINE u == rdmParseDiscoveryResponse(p).uid
           w == Nibbles(p)
<1>1. /\ u = FromWire(w) /\ Leading(p) = 2
      /\ \A n \in 1..UidBytes : p[2 + 2*n] >= 240 /\ p[3 + 2*n] >= 240
      /\ Check(w) = Big(p[4 + 2*UidBytes], p[5 + 2*UidBytes])
  BY ParseFacts DEF Check
<1>2. w \in [1..UidBytes -> Byte]
  BY NibblesBytes
<1>3. u \in 0..Highest /\ ToWire(u) = w
  <2>1. FromWire(w) \in 0..Highest /\ ToWire(FromWire(w)) = w
    <3> HIDE DEF w
    <3> QED BY <1>2, ToFromWire
  <2> QED BY <1>1, <2>1
<1>4. p[3] = Separator
  <2>1. Leading(p) < Len(p) /\ Leading(p) + 1 = 3
    BY <1>1, UidBytesNat
  <2> QED BY <2>1, LeadingFacts
<1>5. ASSUME NEW n \in 1..UidBytes
      PROVE  p[2 + 2*n] = 240 + (w[n] \div 16) /\ p[3 + 2*n] = 240 + (w[n] % 16)
  <2>1. p[2 + 2*n] \in Byte /\ p[3 + 2*n] \in Byte
    BY NibblePlaces
  <2>2. w[n] = (p[2 + 2*n] % 16) * 16 + (p[3 + 2*n] % 16)
    BY DEF Nibbles
  <2>3. PICK x \in Byte, y \in Byte : x = p[2 + 2*n] /\ y = p[3 + 2*n]
    BY <2>1
  <2>4. x >= 240 /\ y >= 240 /\ w[n] = (x % 16) * 16 + (y % 16)
    BY <1>1, <2>2, <2>3
  <2> HIDE DEF w
  <2> QED BY <2>3, <2>4, NibblesOfByte
<1>6. /\ p[4 + 2*UidBytes] = Check(w) \div 256
      /\ p[5 + 2*UidBytes] = Check(w) % 256
  <2>1. 4 + 2*UidBytes \in 1..Len(p) /\ 5 + 2*UidBytes \in 1..Len(p)
    BY UidBytesNat
  <2>2. p[4 + 2*UidBytes] \in Byte /\ p[5 + 2*UidBytes] \in Byte
    BY <2>1
  <2>3. /\ Big(p[4 + 2*UidBytes], p[5 + 2*UidBytes]) \div 256 = p[4 + 2*UidBytes]
        /\ Big(p[4 + 2*UidBytes], p[5 + 2*UidBytes]) % 256 = p[5 + 2*UidBytes]
    <3>1. PICK h \in Byte, l \in Byte : h = p[4 + 2*UidBytes] /\ l = p[5 + 2*UidBytes]
      BY <2>2
    <3>2. Big(h, l) \div 256 = h /\ Big(h, l) % 256 = l
      BY BytesBig
    <3> QED BY <3>1, <3>2
  <2> HIDE DEF w
  <2> QED BY <1>1, <2>3
<1>7. IsAnswer(p, w)
  <2> HIDE DEF w
  <2> QED BY <1>4, <1>5, <1>6 DEF IsAnswer
<1>8. IsAnswer(DiscoveryResponse(u), w)
  <2>1. u \in Nat
    BY <1>3
  <2>2. IsAnswer(DiscoveryResponse(u), ToWire(u))
    <3> HIDE DEF u
    <3> QED BY <2>1, AnswerBytes
  <2> QED BY <1>3, <2>2
<1>9. p = DiscoveryResponse(u)
  <2> HIDE DEF u, w
  <2> QED BY <1>7, <1>8, AnswerUnique
<1> QED BY <1>3, <1>9

\* Two sums that differ by less than a byte and agree modulo a word are equal.
LEMMA CloseSums ==
  ASSUME NEW a \in Nat, NEW b \in Nat, a - b <= 255, b - a <= 255, a % Word = b % Word
  PROVE  a = b
BY DEF Word

\* One damaged byte never makes an answer that of another device.
THEOREM OffByOneIsRead ==
  ASSUME NEW u \in 0..Highest, NEW p \in Seq(Byte),
         OneByteOff(p, DiscoveryResponse(u)),
         rdmParseDiscoveryResponse(p).kind = "SINGLE"
  PROVE  rdmParseDiscoveryResponse(p).uid = u
<1> DEFINE q == DiscoveryResponse(u)
           w == Nibbles(p)
           v == ToWire(u)
<1>1. UidBytes \in Nat \ {0} /\ u \in Nat
  BY UidBytesNat
<1>2. IsAnswer(q, v) /\ v \in [1..UidBytes -> Byte]
  BY <1>1, AnswerBytes, ToWireBytes
<1>3. q \in Seq(Byte) /\ Len(q) = 5 + 2*UidBytes /\ Len(p) = 5 + 2*UidBytes
  <2>1. Len(p) = Len(q)
    BY DEF OneByteOff
  <2> HIDE DEF q
  <2> QED BY <1>2, <2>1 DEF IsAnswer
<1>4. PICK k \in 1..5+2*UidBytes : \A m \in 1..5+2*UidBytes \ {k} : p[m] = q[m]
  BY <1>3 DEF OneByteOff
<1>5. Nibbles(q) = v
  <2> HIDE DEF q, v
  <2> QED BY <1>2, NibblesOfAnswer
<1>6. /\ w \in [1..UidBytes -> Byte] /\ w \in Seq(Nat) /\ Len(w) = UidBytes
      /\ v \in Seq(Nat) /\ Len(v) = UidBytes
  <2>1. w \in [1..UidBytes -> Byte] /\ w \in Seq(Nat) /\ Len(w) = UidBytes
    BY <1>3, NibblesBytes
  <2>2. Nibbles(q) \in Seq(Nat) /\ Len(Nibbles(q)) = UidBytes
    <3> HIDE DEF q
    <3> QED BY <1>3, NibblesBytes
  <2> QED BY <1>5, <2>1, <2>2
<1>7. ASSUME NEW n \in 1..UidBytes, k # 2 + 2*n, k # 3 + 2*n
      PROVE  w[n] = v[n]
  <2>1. p[2 + 2*n] = q[2 + 2*n] /\ p[3 + 2*n] = q[3 + 2*n]
    <3>1. 2 + 2*n \in 1..5+2*UidBytes /\ 3 + 2*n \in 1..5+2*UidBytes
      BY NibblePlaces
    <3> HIDE DEF q
    <3> QED BY <1>4, <1>7, <3>1
  <2>2. Nibbles(p)[n] = Nibbles(q)[n]
    <3> HIDE DEF q
    <3> QED BY <2>1 DEF Nibbles
  <2> QED BY <1>5, <2>2
<1>8. rdmParseDiscoveryResponse(p).uid = FromWire(w)
      /\ Check(w) = Big(p[4 + 2*UidBytes], p[5 + 2*UidBytes])
  BY <1>3, ParseFacts DEF Check
<1>a. FromWire(v) = u
  BY FromToWire
<1> HIDE DEF q, w, v
<1>9. w = v
  <2>1. CASE \A n \in 1..UidBytes : k # 2 + 2*n /\ k # 3 + 2*n
    <3>1. \A n \in 1..UidBytes : w[n] = v[n]
      BY <1>7, <2>1
    <3> QED BY <1>2, <1>6, <3>1
  <2>2. ASSUME NEW j \in 1..UidBytes, k = 2 + 2*j \/ k = 3 + 2*j
        PROVE  w = v
    <3>1. \A n \in 1..UidBytes \ {j} : k # 2 + 2*n /\ k # 3 + 2*n
      BY <2>2
    <3>2. \A n \in 1..UidBytes \ {j} : w[n] = v[n]
      BY <1>7, <3>1
    <3>3. k # 4 + 2*UidBytes /\ k # 5 + 2*UidBytes
      BY <1>1, <2>2
    <3>4. /\ p[4 + 2*UidBytes] = q[4 + 2*UidBytes]
          /\ p[5 + 2*UidBytes] = q[5 + 2*UidBytes]
      <4>1. 4 + 2*UidBytes \in 1..5+2*UidBytes /\ 5 + 2*UidBytes \in 1..5+2*UidBytes
        BY <1>1
      <4> QED BY <1>4, <3>3, <4>1
    <3>5. Check(w) = Check(v)
      <4>1. Check(v) \in 0..Word-1
        BY <1>2, CheckWord
      <4>2. Big(Check(v) \div 256, Check(v) % 256) = Check(v)
        BY <4>1, BigBytes
      <4> QED BY <1>2, <1>8, <3>4, <4>2 DEF IsAnswer
    <3>6. Total(w) \in Nat /\ Total(v) \in Nat /\ Total(w) - Total(v) = w[j] - v[j]
      <4>1. w \in Seq(Nat) /\ v \in Seq(Nat)
        BY <1>6
      <4>2. /\ Len(w) = Len(v) /\ j \in 1..Len(w)
            /\ \A n \in 1..Len(w) \ {j} : w[n] = v[n]
        BY <1>6, <3>2
      <4> QED BY ONLY <4>1, <4>2, TotalChange
    <3>7. PICK x \in Byte, y \in Byte : x = w[j] /\ y = v[j]
      BY <1>2, <1>6
    <3>8. x - y <= 255 /\ y - x <= 255 /\ x \in Nat /\ y \in Nat
      BY DEF Byte
    <3>9. PICK a \in Nat, b \in Nat : a = Total(w) + 255 * UidBytes /\ b = Total(v) + 255 * UidBytes
      BY <1>1, <3>6
    <3>10. a - b = x - y
      BY <1>1, <3>6, <3>7, <3>9
    <3>11. a % Word = b % Word
      BY <3>5, <3>9 DEF Check
    <3>12. a = b
      <4>1. a - b <= 255 /\ b - a <= 255
        BY <3>8, <3>10
      <4> QED BY <3>11, <4>1, CloseSums
    <3>13. x = y
      BY <3>8, <3>10, <3>12
    <3>14. \A n \in 1..UidBytes : w[n] = v[n]
      BY <3>2, <3>7, <3>13
    <3> QED BY <1>2, <1>6, <3>14
  <2> QED BY <2>1, <2>2
<1> QED BY <1>8, <1>9, <1>a

\* What is left of two answers, one of which drowns the other from some byte on.
LEMMA SpliceFacts ==
  ASSUME NEW u \in Nat, NEW v \in Nat, NEW n \in 0..5+2*UidBytes
  PROVE  LET p == DiscoveryResponse(u)
             q == DiscoveryResponse(v)
             r == Splice(p, q, n)
         IN /\ r \in Seq(Byte) /\ Len(r) = 5 + 2*UidBytes
            /\ r[1] = 254 /\ r[2] = 254
            /\ u = v => r = q
<1> DEFINE p == DiscoveryResponse(u)
           q == DiscoveryResponse(v)
           r == Splice(p, q, n)
           N == 5 + 2*UidBytes
           a == SubSeq(p, 1, n)
           b == SubSeq(q, n + 1, N)
<1>1. N \in Nat /\ N >= 5 /\ n \in Nat /\ n <= N
  BY UidBytesNat
<1>2. /\ p \in Seq(Byte) /\ Len(p) = N /\ p[1] = 254 /\ p[2] = 254
      /\ q \in Seq(Byte) /\ Len(q) = N /\ q[1] = 254 /\ q[2] = 254
  BY AnswerBytes DEF IsAnswer
<1>0. u = v => p = q
  OBVIOUS
<1> HIDE DEF p, q, N
<1>3. /\ a \in Seq(Byte) /\ Len(a) = n
      /\ \A i \in 1..n : a[i] = p[i]
  <2>1. \A i \in 1..n : p[i] \in Byte
    BY <1>1, <1>2
  <2>2. /\ a \in Seq(Byte)
        /\ Len(a) = IF 1 <= n THEN n - 1 + 1 ELSE 0
        /\ \A i \in 1..(n - 1 + 1) : a[i] = p[1 + i - 1]
    BY <1>1, <1>2, <2>1, SubSeqProperties
  <2> QED BY <1>1, <2>2
<1>4. /\ b \in Seq(Byte) /\ Len(b) = N - n
      /\ \A i \in 1..N-n : b[i] = q[n + i]
  <2>1. \A i \in n+1..N : q[i] \in Byte
    BY <1>1, <1>2
  <2>2. /\ b \in Seq(Byte)
        /\ Len(b) = IF n + 1 <= N THEN N - (n + 1) + 1 ELSE 0
        /\ \A i \in 1..(N - (n + 1) + 1) : b[i] = q[(n + 1) + i - 1]
    BY <1>1, <1>2, <2>1, SubSeqProperties
  <2>3. N - (n + 1) + 1 = N - n /\ \A i \in 1..N-n : (n + 1) + i - 1 = n + i
    BY <1>1
  <2> QED BY <1>1, <2>2, <2>3
<1>5. r = a \o b
  BY <1>2 DEF Splice
<1> HIDE DEF a, b, r
<1>6. /\ r \in Seq(Byte) /\ Len(r) = n + (N - n)
      /\ \A i \in 1..n + (N - n) : r[i] = IF i <= n THEN a[i] ELSE b[i - n]
  <2>1. a \in Seq(Byte) /\ b \in Seq(Byte)
    BY <1>3, <1>4
  <2>2. /\ r \in Seq(Byte) /\ Len(r) = Len(a) + Len(b)
        /\ \A i \in 1..Len(a) + Len(b) : r[i] = IF i <= Len(a) THEN a[i] ELSE b[i - Len(a)]
    BY ONLY <1>5, <2>1, ConcatProperties
  <2> QED BY <1>3, <1>4, <2>2
<1>7. n + (N - n) = N
  BY <1>1
<1>8. ASSUME NEW i \in 1..N
      PROVE  r[i] = IF i <= n THEN p[i] ELSE q[i]
  <2>1. CASE i <= n
    BY <1>1, <1>3, <1>6, <1>7, <2>1
  <2>2. CASE ~(i <= n)
    <3>1. i - n \in 1..N-n /\ n + (i - n) = i
      BY <1>1, <2>2
    <3> QED BY <1>4, <1>6, <1>7, <2>2, <3>1
  <2> QED BY <2>1, <2>2
<1>9. r[1] = 254 /\ r[2] = 254
  BY <1>1, <1>2, <1>8
<1>10. u = v => r = q
  BY <1>0, <1>2, <1>6, <1>7, <1>8
<1> QED BY <1>6, <1>7, <1>9, <1>10 DEF p, q, r, N

-----------------------------------------------------------------------------
(***************************************************************************)
(* Requests and answers.                                                   *)
(***************************************************************************)
\* What is at most 255 is a byte.
LEMMA ByteBound == \A d \in Nat : d <= 255 => d \in Byte
BY DEF Byte

\* What a packet is without its checksum, byte by byte.
IsBody(b, dst, src, pid, data) ==
  /\ b \in Seq(Byte) /\ Len(b) = Header + Len(data)
  /\ b[1] = SC /\ b[2] = SubSC /\ b[3] = Header + Len(data)
  /\ \A n \in 1..UidBytes : /\ b[3 + n] = ToWire(dst)[n]
                            /\ b[3 + UidBytes + n] = ToWire(src)[n]
  /\ b[10 + 2*UidBytes] = pid \div 256 /\ b[11 + 2*UidBytes] = pid % 256
  /\ b[12 + 2*UidBytes] = Len(data)
  /\ \A n \in 1..Len(data) : b[12 + 2*UidBytes + n] = data[n]

\* rdmBuild puts the fields in their places and the checksum behind them.
LEMMA BuildBytes ==
  ASSUME NEW dst \in Nat, NEW src \in Nat, NEW cc \in Byte, NEW pid \in 0..Word-1,
         NEW data \in Seq(Byte), Len(data) <= MaxData
  PROVE  \E b : /\ IsBody(b, dst, src, pid, data)
                /\ rdmBuild(dst, src, cc, pid, data) = b \o Bytes(rdmChecksum(b, Len(b)))
<1> DEFINE U == UidBytes
           D == Len(data)
           a == <<SC, SubSC, Header + Len(data)>>
           f == <<0, 0, 0, 0, 0, cc>>
           l == <<Len(data)>>
           x == a \o ToWire(dst) \o ToWire(src)
           y == x \o f \o Bytes(pid)
           z == y \o l \o data
<1>1. U \in Nat \ {0} /\ U <= 120 /\ D \in Nat /\ Header = 12 + 2*U /\ D <= 255 - Header
  BY UidBytesNat DEF Header, MaxData
<1>2. rdmBuild(dst, src, cc, pid, data) = z \o Bytes(rdmChecksum(z, Len(z)))
  <2>1. ~(Len(data) > MaxData)
    BY <1>1 DEF MaxData
  <2> QED BY <2>1 DEF rdmBuild
<1>3. /\ a \in Seq(Byte) /\ Len(a) = 3
      /\ a[1] = SC /\ a[2] = SubSC /\ a[3] = Header + D
  <2>1. Header + Len(data) \in Byte
    <3>1. PICK d \in Nat : d = Header + Len(data) /\ d <= 255
      BY <1>1
    <3>2. d \in Byte
      BY <3>1, ByteBound
    <3> QED BY <3>1, <3>2
  <2>2. SC \in Byte /\ SubSC \in Byte
    BY DEF SC, SubSC, Byte
  <2> QED BY <2>1, <2>2
<1>4. /\ ToWire(dst) \in Seq(Byte) /\ Len(ToWire(dst)) = U
      /\ ToWire(src) \in Seq(Byte) /\ Len(ToWire(src)) = U
  BY ToWireBytes
<1>5. f \in Seq(Byte) /\ Len(f) = 6
  BY DEF Byte
<1>6. /\ Bytes(pid) \in Seq(Byte) /\ Len(Bytes(pid)) = 2
      /\ Bytes(pid)[1] = pid \div 256 /\ Bytes(pid)[2] = pid % 256
  BY BigBytes
<1>7. l \in Seq(Byte) /\ Len(l) = 1 /\ l[1] = D
  <2>1. D \in Byte
    <3>1. PICK d \in Nat : d = D /\ d <= 255
      BY <1>1
    <3>2. d \in Byte
      BY <3>1, ByteBound
    <3> QED BY <3>1, <3>2
  <2> QED BY <2>1
<1>8. Joined(x, a, ToWire(dst), ToWire(src))
  BY DEF Joined
<1>9. Joined(y, x, f, Bytes(pid))
  BY DEF Joined
<1>10. Joined(z, y, l, data)
  BY DEF Joined
<1> HIDE DEF a, f, l, x, y, z, D, U
<1>11. /\ x \in Seq(Byte) /\ Len(x) = 3 + 2*U
       /\ \A n \in 1..3 : x[n] = a[n]
       /\ \A n \in 1..U : x[3 + n] = ToWire(dst)[n]
       /\ \A n \in 1..U : x[3 + U + n] = ToWire(src)[n]
  <2>1. /\ x \in Seq(Byte) /\ Len(x) = Len(a) + Len(ToWire(dst)) + Len(ToWire(src))
        /\ \A n \in 1..Len(a) : x[n] = a[n]
        /\ \A n \in 1..Len(ToWire(dst)) : x[Len(a) + n] = ToWire(dst)[n]
        /\ \A n \in 1..Len(ToWire(src)) : x[Len(a) + Len(ToWire(dst)) + n] = ToWire(src)[n]
    <3>1. a \in Seq(Byte) /\ ToWire(dst) \in Seq(Byte) /\ ToWire(src) \in Seq(Byte)
      BY <1>3, <1>4
    <3>2. Laid(x, a, ToWire(dst), ToWire(src))
      BY ONLY <1>8, <3>1, ThreeJoined
    <3> QED BY ONLY <3>2 DEF Laid
  <2> QED BY <1>1, <1>3, <1>4, <2>1
<1>12. /\ y \in Seq(Byte) /\ Len(y) = 11 + 2*U
       /\ \A n \in 1..3+2*U : y[n] = x[n]
       /\ y[10 + 2*U] = pid \div 256 /\ y[11 + 2*U] = pid % 256
  <2>1. /\ y \in Seq(Byte) /\ Len(y) = Len(x) + Len(f) + Len(Bytes(pid))
        /\ \A n \in 1..Len(x) : y[n] = x[n]
        /\ \A n \in 1..Len(Bytes(pid)) : y[Len(x) + Len(f) + n] = Bytes(pid)[n]
    <3>1. x \in Seq(Byte) /\ f \in Seq(Byte) /\ Bytes(pid) \in Seq(Byte)
      BY <1>5, <1>6, <1>11
    <3>2. Laid(y, x, f, Bytes(pid))
      BY ONLY <1>9, <3>1, ThreeJoined
    <3> QED BY ONLY <3>2 DEF Laid
  <2>2. Len(x) + Len(f) + 1 = 10 + 2*U /\ Len(x) + Len(f) + 2 = 11 + 2*U
    BY <1>1, <1>5, <1>11
  <2>3. 1 \in 1..Len(Bytes(pid)) /\ 2 \in 1..Len(Bytes(pid))
    BY <1>6
  <2>4. Len(y) = 11 + 2*U
    BY <1>1, <1>5, <1>6, <1>11, <2>1
  <2>5. y[10 + 2*U] = pid \div 256 /\ y[11 + 2*U] = pid % 256
    BY <1>6, <2>1, <2>2, <2>3
  <2>6. \A n \in 1..3+2*U : y[n] = x[n]
    BY <1>11, <2>1
  <2> QED BY <2>1, <2>4, <2>5, <2>6
<1>13. /\ z \in Seq(Byte) /\ Len(z) = 12 + 2*U + D
       /\ \A n \in 1..11+2*U : z[n] = y[n]
       /\ z[12 + 2*U] = D
       /\ \A n \in 1..D : z[12 + 2*U + n] = data[n]
  <2>1. /\ z \in Seq(Byte) /\ Len(z) = Len(y) + Len(l) + Len(data)
        /\ \A n \in 1..Len(y) : z[n] = y[n]
        /\ \A n \in 1..Len(l) : z[Len(y) + n] = l[n]
        /\ \A n \in 1..Len(data) : z[Len(y) + Len(l) + n] = data[n]
    <3>1. y \in Seq(Byte) /\ l \in Seq(Byte) /\ data \in Seq(Byte)
      BY <1>7, <1>12
    <3>2. Laid(z, y, l, data)
      BY ONLY <1>10, <3>1, ThreeJoined
    <3> QED BY ONLY <3>2 DEF Laid
  <2>2. Len(data) = D
    BY DEF D
  <2>3. /\ Len(y) + 1 = 12 + 2*U /\ Len(y) + Len(l) = 12 + 2*U
        /\ 1 \in 1..Len(l)
    BY <1>1, <1>7, <1>12
  <2>4. z[12 + 2*U] = D
    BY <1>7, <2>1, <2>3
  <2>5. \A n \in 1..D : z[12 + 2*U + n] = data[n]
    BY <2>1, <2>2, <2>3
  <2> QED BY <1>12, <2>1, <2>2, <2>3, <2>4, <2>5
<1>14. ASSUME NEW n \in 1..U
       PROVE  z[3 + n] = ToWire(dst)[n] /\ z[3 + U + n] = ToWire(src)[n]
  <2>1. /\ 3 + n \in 1..3+2*U /\ 3 + U + n \in 1..3+2*U
        /\ 3 + n \in 1..11+2*U /\ 3 + U + n \in 1..11+2*U
    BY <1>1
  <2>2. x[3 + n] = ToWire(dst)[n] /\ x[3 + U + n] = ToWire(src)[n]
    BY <1>11
  <2>3. y[3 + n] = x[3 + n] /\ y[3 + U + n] = x[3 + U + n]
    BY <1>12, <2>1
  <2>4. z[3 + n] = y[3 + n] /\ z[3 + U + n] = y[3 + U + n]
    BY <1>13, <2>1
  <2> QED BY <2>2, <2>3, <2>4
<1>15. z[1] = SC /\ z[2] = SubSC /\ z[3] = Header + D
  <2>1. \A n \in 1..3 : n \in 1..3+2*U /\ n \in 1..11+2*U
    BY <1>1
  <2>2. 1 \in 1..3 /\ 2 \in 1..3 /\ 3 \in 1..3
    OBVIOUS
  <2>3. \A n \in 1..3 : z[n] = y[n] /\ y[n] = x[n] /\ x[n] = a[n]
    <3>1. \A n \in 1..3 : z[n] = y[n]
      BY <1>13, <2>1
    <3>2. \A n \in 1..3 : y[n] = x[n]
      BY <1>12, <2>1
    <3> QED BY <1>11, <3>1, <3>2
  <2> QED BY <1>3, <2>2, <2>3
<1>16. z[10 + 2*U] = pid \div 256 /\ z[11 + 2*U] = pid % 256
  <2>1. 10 + 2*U \in 1..11+2*U /\ 11 + 2*U \in 1..11+2*U
    BY <1>1
  <2> QED BY <1>12, <1>13, <2>1
<1>17. IsBody(z, dst, src, pid, data)
  BY <1>1, <1>13, <1>14, <1>15, <1>16 DEF IsBody, U, D
<1> QED BY <1>2, <1>17

\* The checksum of a packet is a word.
LEMMA ChecksumWord ==
  ASSUME NEW b \in Seq(Byte)
  PROVE  SubSeq(b, 1, Len(b)) = b /\ rdmChecksum(b, Len(b)) \in 0..Word-1
<1>1. SubSeq(b, 1, Len(b)) = b
  OBVIOUS
<1>2. b \in Seq(Nat)
  <2>1. b \in [1..Len(b) -> Byte] /\ Len(b) \in Nat
    OBVIOUS
  <2>2. \A n \in 1..Len(b) : b[n] \in Nat
    BY <2>1, ByteNat
  <2>3. b \in [1..Len(b) -> Nat]
    BY <2>1, <2>2
  <2> QED BY <2>1, <2>3
<1>3. PICK t \in Nat : t = Total(b)
  BY <1>2, TotalNat
<1>4. t % Word \in Nat /\ t % Word <= 65535
  BY DEF Word
<1>5. t % Word \in 0..Word-1
  BY <1>4, WordNat
<1>6. rdmChecksum(b, Len(b)) = t % Word
  BY <1>1, <1>3 DEF rdmChecksum
<1> QED BY <1>1, <1>5, <1>6

\* A packet: its body and its checksum.
LEMMA PacketBytes ==
  ASSUME NEW b \in Seq(Byte), NEW p, p = b \o Bytes(rdmChecksum(b, Len(b)))
  PROVE  /\ p \in Seq(Byte) /\ Len(p) = Len(b) + 2
         /\ \A n \in 1..Len(b) : p[n] = b[n]
         /\ Big(p[Len(b) + 1], p[Len(b) + 2]) = rdmChecksum(b, Len(b))
<1> DEFINE c == Bytes(rdmChecksum(b, Len(b)))
<1>1. c \in Seq(Byte) /\ Len(c) = 2 /\ Big(c[1], c[2]) = rdmChecksum(b, Len(b))
  BY ChecksumWord, BigBytes
<1>2. p = b \o c
  OBVIOUS
<1> HIDE DEF c
<1>3. /\ p \in Seq(Byte) /\ Len(p) = Len(b) + Len(c)
      /\ \A n \in 1..Len(b) + Len(c) : p[n] = IF n <= Len(b) THEN b[n] ELSE c[n - Len(b)]
  <2>1. c \in Seq(Byte) /\ b \in Seq(Byte)
    BY <1>1
  <2> QED BY ONLY <1>2, <2>1, ConcatProperties
<1>4. PICK k \in Nat : k = Len(b)
  OBVIOUS
<1>5. p[k + 1] = c[1] /\ p[k + 2] = c[2]
  BY <1>1, <1>3, <1>4
<1> QED BY <1>1, <1>3, <1>4, <1>5

\* A packet that is built is bytes, and not nothing.
LEMMA BuildTyped ==
  ASSUME NEW dst \in Nat, NEW src \in Nat, NEW cc \in Byte, NEW pid \in 0..Word-1,
         NEW data \in Seq(Byte), Len(data) <= MaxData
  PROVE  /\ rdmBuild(dst, src, cc, pid, data) \in Seq(Byte)
         /\ rdmBuild(dst, src, cc, pid, data) # <<>>
<1>1. PICK b : /\ IsBody(b, dst, src, pid, data)
               /\ rdmBuild(dst, src, cc, pid, data) = b \o Bytes(rdmChecksum(b, Len(b)))
  BY BuildBytes
<1>2. b \in Seq(Byte)
  BY <1>1 DEF IsBody
<1>3. PICK p : p = rdmBuild(dst, src, cc, pid, data)
  OBVIOUS
<1>4. p \in Seq(Byte) /\ Len(p) = Len(b) + 2
  BY <1>1, <1>2, <1>3, PacketBytes
<1>5. p # <<>>
  BY <1>2, <1>4
<1> QED BY <1>3, <1>4, <1>5

\* What is built is read: who sent it, what it is about and what it carries.
THEOREM BuiltIsRead ==
  ASSUME NEW dst \in Nat, NEW src \in 0..Highest, NEW cc \in Byte, NEW pid \in 0..Word-1,
         NEW data \in Seq(Byte), Len(data) <= MaxData
  PROVE  rdmReadResp(rdmBuild(dst, src, cc, pid, data))
           = [ok |-> TRUE, source |-> src, pid |-> pid, data |-> data]
<1> DEFINE p == rdmBuild(dst, src, cc, pid, data)
           D == Len(data)
           L == Header + D
<1>1. PICK b : IsBody(b, dst, src, pid, data) /\ p = b \o Bytes(rdmChecksum(b, Len(b)))
  <2>1. src \in Nat
    OBVIOUS
  <2> QED BY <2>1, BuildBytes
<1>2. b \in Seq(Byte) /\ Len(b) = L
  BY <1>1 DEF IsBody
<1>3. /\ p \in Seq(Byte) /\ Len(p) = L + 2
      /\ \A n \in 1..L : p[n] = b[n]
      /\ Big(p[L + 1], p[L + 2]) = rdmChecksum(b, L)
  BY <1>1, <1>2, PacketBytes
<1>4. /\ UidBytes \in Nat \ {0} /\ Header = 12 + 2*UidBytes
      /\ D \in Nat /\ L = 12 + 2*UidBytes + D /\ L \in Nat /\ L >= 14
      /\ D <= MaxData /\ MaxData \in Int
  BY UidBytesNat DEF Header, MaxData
<1> HIDE DEF p, D, L
<1>5. p[1] = SC /\ p[2] = SubSC /\ p[3] = L
  <2>1. 1 \in 1..L /\ 2 \in 1..L /\ 3 \in 1..L
    BY <1>4
  <2>2. b[1] = SC /\ b[2] = SubSC /\ b[3] = L
    BY <1>1 DEF IsBody, L, D
  <2> QED BY <1>3, <2>1, <2>2
<1>6. 0 \in Starts(p) /\ \A m \in Starts(p) : m \in Nat
  BY <1>3, <1>4, <1>5 DEF Starts, At
<1>7. (CHOOSE n \in Starts(p) : \A m \in Starts(p) : n <= m) = 0
  <2> DEFINE P(n) == n \in Starts(p) /\ \A m \in Starts(p) : n <= m
  <2>1. P(0)
    BY <1>6
  <2>2. \A n : P(n) => n = 0
    BY <1>6
  <2> QED BY <2>1, <2>2
<1>8. SubSeq(p, 0 + 1, Len(p)) = p
  BY <1>3
<1>9. SubSeq(p, 1, L) = b
  <2>1. \A n \in 1..L : p[n] \in Byte
    BY <1>3, <1>4
  <2>2. /\ SubSeq(p, 1, L) \in Seq(Byte)
        /\ Len(SubSeq(p, 1, L)) = IF 1 <= L THEN L - 1 + 1 ELSE 0
        /\ \A n \in 1..(L - 1 + 1) : SubSeq(p, 1, L)[n] = p[1 + n - 1]
    BY <1>3, <1>4, <2>1, SubSeqProperties
  <2>3. /\ Len(SubSeq(p, 1, L)) = L
        /\ \A n \in 1..L : SubSeq(p, 1, L)[n] = p[n]
    BY <1>4, <2>2
  <2> QED BY <1>2, <1>3, <2>2, <2>3
<1>10. rdmChecksum(p, L) = Big(At(p, L), At(p, L + 1))
  <2>1. SubSeq(b, 1, L) = b
    BY <1>2
  <2>2. rdmChecksum(p, L) = rdmChecksum(b, L)
    BY <1>9, <2>1 DEF rdmChecksum
  <2>3. L + 1 + 1 = L + 2
    BY <1>4
  <2> QED BY <1>3, <2>2, <2>3 DEF At
<1>11. ASSUME NEW n \in 1..UidBytes
       PROVE  p[3 + UidBytes + n] = ToWire(src)[n] /\ 3 + UidBytes + n \in 1..L
  <2>1. 3 + UidBytes + n \in 1..L
    BY <1>4
  <2>2. b[3 + UidBytes + n] = ToWire(src)[n]
    BY <1>1 DEF IsBody
  <2> QED BY <1>3, <2>1, <2>2
<1>12. SubSeq(p, 4 + UidBytes, 3 + 2 * UidBytes) = ToWire(src)
  <2> DEFINE i == 4 + UidBytes
             j == 3 + 2*UidBytes
             w == SubSeq(p, i, j)
  <2>1. ToWire(src) \in Seq(Byte) /\ Len(ToWire(src)) = UidBytes
    BY ToWireBytes
  <2>2. /\ i \in Nat /\ j \in Nat /\ i <= j /\ j - i + 1 = UidBytes
        /\ \A k \in i..j : k \in 1..Len(p)
        /\ \A n \in 1..UidBytes : i + n - 1 = 3 + UidBytes + n
    BY <1>3, <1>4
  <2>3. \A k \in i..j : p[k] \in Byte
    BY <1>3, <2>2
  <2> HIDE DEF i, j
  <2>4. /\ w \in Seq(Byte)
        /\ Len(w) = IF i <= j THEN j - i + 1 ELSE 0
        /\ \A n \in 1..(j - i + 1) : w[n] = p[i + n - 1]
    BY <1>3, <2>2, <2>3, SubSeqProperties
  <2>5. Len(w) = UidBytes /\ \A n \in 1..UidBytes : w[n] = p[3 + UidBytes + n]
    BY <2>2, <2>4
  <2> HIDE DEF w
  <2>6. \A n \in 1..UidBytes : w[n] = ToWire(src)[n]
    BY <1>11, <2>5
  <2>7. w = ToWire(src)
    BY <1>4, <2>1, <2>4, <2>5, <2>6
  <2> QED BY <2>7 DEF w, i, j
<1>13. At(p, Header - 1) = D
  <2>1. Header - 1 + 1 = 12 + 2*UidBytes /\ 12 + 2*UidBytes \in 1..L
    BY <1>4
  <2>2. b[12 + 2*UidBytes] = D
    BY <1>1 DEF IsBody, D
  <2> QED BY <1>3, <2>1, <2>2 DEF At
<1>14. Big(At(p, Header - 3), At(p, Header - 2)) = pid
  <2>1. /\ Header - 3 + 1 = 10 + 2*UidBytes /\ Header - 2 + 1 = 11 + 2*UidBytes
        /\ 10 + 2*UidBytes \in 1..L /\ 11 + 2*UidBytes \in 1..L
    BY <1>4
  <2>2. b[10 + 2*UidBytes] = pid \div 256 /\ b[11 + 2*UidBytes] = pid % 256
    BY <1>1 DEF IsBody
  <2>3. Big(pid \div 256, pid % 256) = pid
    BY BigBytes
  <2> QED BY <1>3, <2>1, <2>2, <2>3 DEF At
<1>15. SubSeq(p, Header + 1, Header + D) = data
  <2> DEFINE i == Header + 1
             j == Header + D
             w == SubSeq(p, i, j)
  <2>1. /\ i \in Nat /\ j \in Nat /\ j - i + 1 = D /\ (i <= j <=> D > 0)
        /\ \A k \in i..j : k \in 1..Len(p)
        /\ \A n \in 1..D : i + n - 1 = 12 + 2*UidBytes + n /\ 12 + 2*UidBytes + n \in 1..L
    BY <1>3, <1>4
  <2>2. \A k \in i..j : p[k] \in Byte
    BY <1>3, <2>1
  <2> HIDE DEF i, j
  <2>3. /\ w \in Seq(Byte)
        /\ Len(w) = IF i <= j THEN j - i + 1 ELSE 0
        /\ \A n \in 1..(j - i + 1) : w[n] = p[i + n - 1]
    BY <1>3, <2>1, <2>2, SubSeqProperties
  <2>4. Len(w) = D
    BY <1>4, <2>1, <2>3
  <2>5. \A n \in 1..D : w[n] = p[12 + 2*UidBytes + n]
    BY <2>1, <2>3
  <2> HIDE DEF w
  <2>6. \A n \in 1..D : b[12 + 2*UidBytes + n] = data[n]
    BY <1>1 DEF IsBody, D
  <2>7. \A n \in 1..D : w[n] = data[n]
    BY <1>3, <2>1, <2>5, <2>6
  <2>8. w = data
    BY <2>3, <2>4, <2>7 DEF D
  <2> QED BY <2>8 DEF w, i, j
<1>16. FromWire(ToWire(src)) = src
  BY FromToWire
<1>17. ~(Len(p) < Header + 2 \/ Starts(p) = {})
  <2>1. ~(Len(p) < Header + 2)
    BY <1>3, <1>4
  <2>2. Starts(p) # {}
    BY <1>6
  <2> QED BY <2>1, <2>2
<1>18. Len(p) > 2 /\ At(p, 2) = L
  BY <1>3, <1>4, <1>5 DEF At
<1>19. ~(\/ L < Header \/ L + 1 >= Len(p)
         \/ rdmChecksum(p, L) # Big(At(p, L), At(p, L + 1))
         \/ D > MaxData \/ Header + D > L)
  BY <1>3, <1>4, <1>10
<1>20. rdmReadResp(p)
         = [ok |-> TRUE,
            source |-> FromWire(SubSeq(p, 4 + UidBytes, 3 + 2 * UidBytes)),
            pid |-> Big(At(p, Header - 3), At(p, Header - 2)),
            data |-> SubSeq(p, Header + 1, Header + D)]
  <2> DEFINE start == CHOOSE n \in Starts(p) : \A m \in Starts(p) : n <= m
             q == SubSeq(p, start + 1, Len(p))
             len == IF Len(q) > 2 THEN At(q, 2) ELSE 0
             pdl == At(q, Header - 1)
             bad == \/ len < Header \/ len + 1 >= Len(q)
                    \/ rdmChecksum(q, len) # Big(At(q, len), At(q, len + 1))
                    \/ pdl > MaxData \/ Header + pdl > len
             res == [ok |-> TRUE,
                     source |-> FromWire(SubSeq(q, 4 + UidBytes, 3 + 2 * UidBytes)),
                     pid |-> Big(At(q, Header - 3), At(q, Header - 2)),
                     data |-> SubSeq(q, Header + 1, Header + pdl)]
  <2>1. rdmReadResp(p) = IF Len(p) < Header + 2 \/ Starts(p) = {} THEN NotRead
                         ELSE IF bad THEN NotRead ELSE res
    BY DEF rdmReadResp
  <2>2. q = p
    BY <1>7, <1>8
  <2> HIDE DEF start, q
  <2>3. len = L /\ pdl = D
    BY <1>13, <1>18, <2>2
  <2> HIDE DEF len, pdl
  <2>4. ~bad
    BY <1>19, <2>2, <2>3
  <2> HIDE DEF bad
  <2>5. rdmReadResp(p) = res
    BY <1>17, <2>1, <2>4
  <2> QED BY <2>2, <2>3, <2>5
<1>21. rdmReadResp(p) = [ok |-> TRUE, source |-> src, pid |-> pid, data |-> data]
  BY <1>12, <1>14, <1>15, <1>16, <1>20
<1> QED BY <1>21 DEF p

\* Bytes too short for a packet are not read.
LEMMA ShortIsNotRead ==
  ASSUME NEW p \in Seq(Byte), Len(p) <= 4
  PROVE  rdmReadResp(p).ok = FALSE
<1>1. Len(p) < Header + 2
  BY UidBytesNat DEF Header
<1> QED BY <1>1 DEF rdmReadResp, NotRead

-----------------------------------------------------------------------------
(***************************************************************************)
(* The line: what is read there.                                           *)
(***************************************************************************)
\* The identifiers of a sweep are those that fit on the wire.
LEMMA UidFacts == Uid = 0..Highest /\ UidMax \in Nat /\ Controller \in Uid
                  /\ Uid \subseteq Nat /\ MaxFaults \in Nat
BY LineAssumption, SweepAssumption DEF Highest, Uid

\* Whatever is read as a device is an identifier.
LEMMA SingleIsUid ==
  ASSUME NEW p \in Seq(Byte), rdmParseDiscoveryResponse(p).kind = "SINGLE"
  PROVE  rdmParseDiscoveryResponse(p).uid \in Uid
<1> DEFINE sep == Leading(p)
           high(n) == At(p, sep + 2 * n - 1)
           low(n) == At(p, sep + 2 * n)
           w == [n \in 1..UidBytes |-> (high(n) % 16) * 16 + (low(n) % 16)]
           ck == sep + 2 * UidBytes + 1
           Bad == \/ sep < 2 \/ ck + 1 >= Len(p)
                  \/ \E n \in 1..UidBytes : high(n) < 240 \/ low(n) < 240
                  \/ (Total(w) + 255 * UidBytes) % Word # Big(At(p, ck), At(p, ck + 1))
           r == rdmParseDiscoveryResponse(p)
<1>1. r = IF Len(p) < 4 THEN Result("EMPTY", 0)
          ELSE IF Bad THEN Result("COLLISION", 0) ELSE Result("SINGLE", FromWire(w))
  BY DEF rdmParseDiscoveryResponse
<1>2. ~Bad /\ r.uid = FromWire(w)
  <2> HIDE DEF Bad, w
  <2> QED BY <1>1 DEF Result
<1>3. /\ UidBytes \in Nat /\ sep \in Nat /\ Len(p) \in Nat
      /\ sep >= 2 /\ sep + 2*UidBytes + 2 < Len(p)
  <2>1. ~(sep < 2 \/ ck + 1 >= Len(p))
    BY <1>2
  <2>2. UidBytes \in Nat /\ sep \in Nat /\ Len(p) \in Nat
    BY UidBytesNat, LeadingFacts
  <2> QED BY <2>1, <2>2
<1>4. ASSUME NEW n \in 1..UidBytes
      PROVE  (high(n) % 16) * 16 + (low(n) % 16) \in Byte
  <2>1. sep + 2*n - 1 + 1 \in 1..Len(p) /\ sep + 2*n + 1 \in 1..Len(p)
    BY <1>3
  <2>2. high(n) \in Byte /\ low(n) \in Byte
    BY <2>1 DEF At
  <2>3. \A x, y \in Byte : (x % 16) * 16 + (y % 16) \in Byte
    BY DEF Byte
  <2> HIDE DEF high, low
  <2> QED BY <2>2, <2>3
<1>5. w \in [1..UidBytes -> Byte]
  BY <1>4
<1> HIDE DEF w, r
<1>6. FromWire(w) \in Uid
  BY <1>5, ToFromWire, UidFacts
<1> QED BY <1>2, <1>6 DEF r

\* Silence is read as silence.
LEMMA SilenceIsRead == rdmParseDiscoveryResponse(<<>>).kind = "EMPTY"
<1>1. Len(<<>>) < 4
  OBVIOUS
<1> QED BY <1>1 DEF rdmParseDiscoveryResponse, Result

\* The requests and the answers of a sweep are bytes, and are read.
LEMMA MuteFacts ==
  ASSUME NEW u \in Uid
  PROVE  /\ Mute(u) \in Seq(Byte) /\ Mute(u) # <<>>
         /\ Reply(u, Mute(u)) \in Seq(Byte)
         /\ u \in devices => /\ rdmReadResp(Reply(u, Mute(u))).ok
                             /\ rdmReadResp(Reply(u, Mute(u))).source = u
         /\ u \notin devices => Reply(u, Mute(u)) = <<>>
<1>1. /\ u \in Nat /\ u \in 0..Highest /\ Controller \in Nat
      /\ 16 \in Byte /\ 17 \in Byte /\ 2 \in 0..Word-1
  <2>1. u \in Nat /\ u \in 0..Highest /\ Controller \in Nat
    BY UidFacts
  <2>2. 16 \in Byte /\ 17 \in Byte
    BY ByteBound
  <2>3. 2 \in 0..Word-1
    BY WordNat
  <2> QED BY <2>1, <2>2, <2>3
<1>2. /\ <<>> \in Seq(Byte) /\ Len(<<>>) <= MaxData
      /\ <<0, 0>> \in Seq(Byte) /\ Len(<<0, 0>>) <= MaxData
  BY UidBytesNat DEF MaxData, Header, Byte
<1>3. Mute(u) \in Seq(Byte) /\ Mute(u) # <<>>
  BY <1>1, <1>2, BuildTyped DEF Mute
<1> DEFINE a == rdmBuild(Controller, u, 17, 2, <<0, 0>>)
<1>4. a \in Seq(Byte)
  BY <1>1, <1>2, BuildTyped
<1>5. rdmReadResp(a) = [ok |-> TRUE, source |-> u, pid |-> 2, data |-> <<0, 0>>]
  BY <1>1, <1>2, BuiltIsRead
<1>6. Reply(u, Mute(u)) = IF u \in devices THEN a ELSE <<>>
  BY <1>3 DEF Reply
<1> HIDE DEF a
<1> QED BY <1>2, <1>3, <1>4, <1>5, <1>6

-----------------------------------------------------------------------------
(***************************************************************************)
(* The line: the inductive invariant.                                      *)
(***************************************************************************)
\* A sweep starts with the invariant.
LEMMA LineInitInv == LineInit => LineIInv
<1> SUFFICES ASSUME LineInit PROVE LineIInv
  OBVIOUS
<1>1. Init /\ phase = "idle" /\ single = 0 /\ wire = <<>> /\ faults = 0 /\ missed = {}
  BY DEF LineInit, Init
<1>2. IInv
  BY <1>1, InitInv
<1>3. LineTypeOK
  BY <1>1, UidFacts DEF LineTypeOK, Uid
<1>4. AskedFor /\ OnlyNoise /\ OneFault /\ OneFaultNoPhantom /\ Quiet
  BY <1>1 DEF AskedFor, OnlyNoise, OneFault, OneFaultNoPhantom, Quiet
<1> QED BY <1>2, <1>3, <1>4 DEF LineIInv

\* What a step leaves alone that does not change the search.
LEMMA SearchUnchanged ==
  ASSUME UNCHANGED vars
  PROVE  /\ devices' = devices /\ missed' = missed /\ found' = found
         /\ Top' = Top /\ Here' = Here /\ (More' <=> More)
         /\ \A u : Fresh(u)' <=> Fresh(u)
         /\ IInv => IInv'
<1>1. IInv => IInv'
  BY NextInv
<1> QED BY <1>1 DEF vars, Top, Here, More, Fresh

\* The devices asked for are identifiers.
LEMMA HereFacts ==
  ASSUME TypeOK
  PROVE  Here \subseteq devices /\ devices \subseteq Uid
BY SweepAssumption DEF TypeOK, Here, Uid

\* An answer is off by a byte from itself, and from one with a byte replaced.
LEMMA OffItself ==
  ASSUME NEW p \in Seq(Byte), p # <<>>
  PROVE  OneByteOff(p, p)
BY DEF OneByteOff

\* Bytes are off by one from what they were before one was replaced.
LEMMA OffReplaced ==
  ASSUME NEW p \in Seq(Byte), NEW n \in 1..Len(p), NEW b \in Byte
  PROVE  /\ [p EXCEPT ![n] = b] \in Seq(Byte)
         /\ Len([p EXCEPT ![n] = b]) = Len(p)
         /\ OneByteOff([p EXCEPT ![n] = b], p)
BY DEF OneByteOff

\* An answer is bytes, and not nothing.
LEMMA AnswerTyped ==
  ASSUME NEW u \in Uid
  PROVE  /\ DiscoveryResponse(u) \in Seq(Byte) /\ DiscoveryResponse(u) # <<>>
         /\ Len(DiscoveryResponse(u)) = 5 + 2*UidBytes
<1>1. u \in Nat
  BY UidFacts
<1>2. IsAnswer(DiscoveryResponse(u), ToWire(u))
  BY <1>1, AnswerBytes
<1>3. DiscoveryResponse(u) \in Seq(Byte) /\ Len(DiscoveryResponse(u)) = 5 + 2*UidBytes
  BY <1>2 DEF IsAnswer
<1>4. DiscoveryResponse(u) # <<>>
  BY <1>3, UidBytesNat
<1> QED BY <1>3, <1>4

\* A request keeps the invariant.
LEMMA ProbeKeeps ==
  ASSUME LineIInv, Probe
  PROVE  LineIInv'
<1>1. /\ phase = "idle" /\ More /\ phase' = "probing"
      /\ UNCHANGED vars /\ single' = single
      /\ TypeOK /\ IInv /\ LineTypeOK /\ Quiet
  BY DEF Probe, LineIInv, IInv
<1>2. /\ IInv' /\ More' /\ Here' = Here /\ missed' = missed
      /\ Here \subseteq Uid /\ devices' = devices
  BY <1>1, SearchUnchanged, HereFacts
<1>3. faults \in Nat /\ MaxFaults \in Nat /\ faults <= MaxFaults
  BY <1>1, UidFacts DEF LineTypeOK
<1>4. Fault => faults' \in 0..MaxFaults /\ faults' >= 1
  BY <1>3 DEF Fault
<1>5. faults' \in 0..MaxFaults
  BY <1>3, <1>4 DEF Probe
\* What is heard, if there is anybody to hear.
<1>6. ASSUME NEW d \in Here, NEW e \in Here, NEW n \in 0..5+2*UidBytes,
             wire' = Splice(DiscoveryResponse(d), DiscoveryResponse(e), n)
      PROVE  wire' \in Seq(Byte) /\ (d = e => wire' = DiscoveryResponse(e))
  <2>1. d \in Nat /\ e \in Nat
    BY <1>2, UidFacts
  <2> QED BY <1>6, <2>1, SpliceFacts
<1>7. \/ Here = {} /\ wire' = <<>> /\ faults' = faults
      \/ \E d, e \in Here, n \in 0..5+2*UidBytes :
           /\ wire' = Splice(DiscoveryResponse(d), DiscoveryResponse(e), n)
           /\ IF Here # {e} /\ wire' \in Answers THEN Fault ELSE faults' = faults
  BY DEF Probe
<1>8. LineTypeOK'
  <2>1. <<>> \in Seq(Byte)
    OBVIOUS
  <2>2. wire' \in Seq(Byte)
    <3>1. CASE wire' = <<>>
      BY <2>1, <3>1
    <3>2. CASE wire' # <<>>
      BY <1>6, <1>7, <3>2
    <3> QED BY <3>1, <3>2
  <2> QED BY <1>1, <1>5, <2>2 DEF LineTypeOK
<1>9. OneFault'
  <2> SUFFICES ASSUME NEW d \in Here, Here = {d}
               PROVE  OneByteOff(wire', DiscoveryResponse(d))
    BY <1>2 DEF OneFault
  <2>1. wire' = DiscoveryResponse(d)
    BY <1>6, <1>7
  <2> QED BY <1>2, <2>1, AnswerTyped, OffItself
<1>10. Quiet'
  <2> SUFFICES ASSUME faults' = 0
               PROVE  /\ missed = {}
                      /\ \/ Here = {} /\ wire' = <<>>
                         \/ \E d \in Here : Here = {d} /\ wire' = DiscoveryResponse(d)
                         \/ \E d, e \in Here, n \in 0..5+2*UidBytes :
                              /\ d # e /\ wire' \notin Answers
                              /\ wire' = Splice(DiscoveryResponse(d), DiscoveryResponse(e), n)
    BY <1>1, <1>2 DEF Quiet
  <2>1. ~Fault /\ faults = 0
    BY <1>3, <1>4, <1>7
  <2>2. missed = {}
    BY <1>1, <2>1 DEF Quiet
  <2>3. CASE Here = {} /\ wire' = <<>>
    BY <2>2, <2>3
  <2>4. ASSUME NEW d \in Here, NEW e \in Here, NEW n \in 0..5+2*UidBytes,
               wire' = Splice(DiscoveryResponse(d), DiscoveryResponse(e), n),
               Here = {e} \/ wire' \notin Answers
        PROVE  \/ \E c \in Here : Here = {c} /\ wire' = DiscoveryResponse(c)
               \/ d # e /\ wire' \notin Answers
    <3>1. CASE d = e
      <4>1. wire' = DiscoveryResponse(e)
        BY <1>6, <2>4, <3>1
      <4>2. wire' \in Answers
        BY <1>2, <4>1 DEF Answers
      <4> QED BY <2>4, <4>1, <4>2
    <3>2. CASE d # e
      BY <2>4, <3>2
    <3> QED BY <3>1, <3>2
  <2> QED BY <1>7, <2>1, <2>2, <2>3, <2>4
<1>11. AskedFor' /\ OnlyNoise' /\ OneFaultNoPhantom'
  BY <1>1, <1>2 DEF AskedFor, OnlyNoise, OneFaultNoPhantom
<1> QED BY <1>2, <1>8, <1>9, <1>10, <1>11 DEF LineIInv

\* A fault keeps the invariant.
LEMMA DamageKeeps ==
  ASSUME LineIInv, Damage
  PROVE  LineIInv'
<1>1. /\ phase \in {"probing", "muting"} /\ phase' = phase /\ single' = single
      /\ Fault /\ UNCHANGED vars
      /\ TypeOK /\ IInv /\ LineTypeOK /\ AskedFor /\ OnlyNoise /\ OneFaultNoPhantom /\ Quiet
  BY DEF Damage, LineIInv, IInv
<1>2. /\ IInv' /\ (More' <=> More) /\ Here' = Here /\ devices' = devices
      /\ \A u : Fresh(u)' <=> Fresh(u)
      /\ Here \subseteq Uid
  BY <1>1, SearchUnchanged, HereFacts
<1>3. faults \in Nat /\ faults' = faults + 1 /\ faults' \in 0..MaxFaults
  BY <1>1, UidFacts DEF LineTypeOK, Fault
<1>4. \/ wire' = <<>>
      \/ wire = <<>> /\ wire' = <<0, 0, 0, 0>>
      \/ \E n \in 1..Len(wire), b \in Byte : wire' = [wire EXCEPT ![n] = b]
  <2>1. ASSUME NEW n \in 1..Len(wire)
        PROVE  (wire[n] + 1) % 256 \in Byte
    <3>1. wire[n] \in Byte
      BY <1>1 DEF LineTypeOK
    <3>2. \A x \in Byte : (x + 1) % 256 \in Byte
      BY DEF Byte
    <3> QED BY <3>1, <3>2
  <2>2. Separator \in Byte
    BY DEF Separator, Byte
  <2> QED BY <2>1, <2>2 DEF Damage
<1>5. wire \in Seq(Byte) /\ <<>> \in Seq(Byte) /\ <<0, 0, 0, 0>> \in Seq(Byte)
  BY <1>1 DEF LineTypeOK, Byte
<1>6. /\ wire' \in Seq(Byte)
      /\ Len(wire) <= 4 => Len(wire') <= 4
      /\ wire # <<>> => wire' = <<>> \/ OneByteOff(wire', wire)
  <2>1. CASE wire' = <<>>
    BY <1>5, <2>1
  <2>2. CASE wire = <<>> /\ wire' = <<0, 0, 0, 0>>
    BY <1>5, <2>2
  <2>3. ASSUME NEW n \in 1..Len(wire), NEW b \in Byte, wire' = [wire EXCEPT ![n] = b]
        PROVE  wire' \in Seq(Byte) /\ Len(wire') = Len(wire) /\ OneByteOff(wire', wire)
    BY <1>5, <2>3, OffReplaced
  <2> QED BY <1>4, <2>1, <2>2, <2>3
<1>7. LineTypeOK'
  BY <1>1, <1>3, <1>6 DEF LineTypeOK
<1>8. AskedFor'
  BY <1>1, <1>2 DEF AskedFor
<1>9. OnlyNoise'
  BY <1>1, <1>2, <1>6 DEF OnlyNoise
<1>10. OneFault'
  <2> SUFFICES ASSUME phase = "probing", faults' <= 1, NEW d \in Here, Here = {d}
               PROVE  wire' = <<>> \/ OneByteOff(wire', DiscoveryResponse(d))
    BY <1>1, <1>2 DEF OneFault
  <2>1. faults = 0
    BY <1>3
  <2>2. \A e, f \in Here : e = f
    OBVIOUS
  <2>3. wire = DiscoveryResponse(d)
    BY <1>1, <2>1, <2>2 DEF Quiet
  <2>4. wire # <<>>
    BY <1>2, <2>3, AnswerTyped
  <2> QED BY <1>6, <2>3, <2>4
<1>11. OneFaultNoPhantom'
  <2>1. faults' <= 1 => faults <= 1
    BY <1>3
  <2> QED BY <1>1, <1>2, <2>1 DEF OneFaultNoPhantom
<1>12. Quiet'
  <2>1. faults' # 0
    BY <1>3
  <2> QED BY <2>1 DEF Quiet
<1> QED BY <1>2, <1>7, <1>8, <1>9, <1>10, <1>11, <1>12 DEF LineIInv

\* If one device is asked for, there is one.
LEMMA OneHere ==
  ASSUME TypeOK, Cardinality(Here) = 1
  PROVE  \E d \in Here : Here = {d}
<1>1. IsFiniteSet(0..UidMax)
  BY UidFacts, FS_Interval
<1>2. Here \subseteq 0..UidMax
  BY HereFacts DEF Uid
<1>3. IsFiniteSet(Here)
  BY <1>1, <1>2, FS_Subset
<1>4. PICK d : Here = {d}
  BY <1>3, FS_Singleton
<1> QED BY <1>4

\* Reading the answer to a request keeps the invariant, and is a step of the
\* search or none.
LEMMA ProbeDoneKeeps ==
  ASSUME LineIInv, ProbeDone
  PROVE  LineIInv' /\ [Next]_vars
<1> DEFINE r == rdmParseDiscoveryResponse(wire)
<1>1. /\ phase = "probing" /\ faults' = faults
      /\ \/ /\ r.kind = "SINGLE" /\ Fresh(r.uid)
            /\ phase' = "muting" /\ single' = r.uid
            /\ wire' = Reply(r.uid, Mute(r.uid))
            /\ UNCHANGED vars
         \/ /\ ~(r.kind = "SINGLE" /\ Fresh(r.uid))
            /\ phase' = "idle" /\ wire' = <<>> /\ single' = single
            /\ IF r.kind = "COLLISION" /\ CanSplit THEN Split ELSE GiveUp
  BY DEF ProbeDone
<1>2. /\ TypeOK /\ IInv /\ LineTypeOK /\ AskedFor /\ OneFault /\ Quiet
      /\ More /\ RoomToSplit /\ wire \in Seq(Byte)
  BY <1>1 DEF LineIInv, IInv, LineTypeOK, AskedFor
<1>3. Here \subseteq Uid /\ Here \subseteq devices
  BY <1>2, HereFacts
\* What is heard on a line without faults.
<1>4. ASSUME faults = 0
      PROVE  \/ Here = {} /\ r.kind = "EMPTY"
             \/ \E d \in Here : Here = {d} /\ r.kind = "SINGLE" /\ r.uid = d
             \/ (\E d, e \in Here : d # e) /\ r.kind = "COLLISION"
  <2>1. \/ Here = {} /\ wire = <<>>
        \/ \E d \in Here : Here = {d} /\ wire = DiscoveryResponse(d)
        \/ \E d, e \in Here, n \in 0..5+2*UidBytes :
             /\ d # e /\ wire \notin Answers
             /\ wire = Splice(DiscoveryResponse(d), DiscoveryResponse(e), n)
    BY <1>1, <1>2, <1>4 DEF Quiet
  <2>2. CASE Here = {} /\ wire = <<>>
    BY <2>2, SilenceIsRead
  <2>3. ASSUME NEW d \in Here, Here = {d}, wire = DiscoveryResponse(d)
        PROVE  r.kind = "SINGLE" /\ r.uid = d
    <3>1. d \in 0..Highest
      BY <1>3, UidFacts
    <3> QED BY <2>3, <3>1, AnswerIsRead
  <2>4. ASSUME NEW d \in Here, NEW e \in Here, NEW n \in 0..5+2*UidBytes,
               wire \notin Answers,
               wire = Splice(DiscoveryResponse(d), DiscoveryResponse(e), n)
        PROVE  r.kind = "COLLISION"
    <3>1. d \in Nat /\ e \in Nat
      BY <1>3, UidFacts
    <3>2. Len(wire) = 5 + 2*UidBytes /\ wire[1] = 254 /\ wire[2] = 254
      <4>1. LET p == Splice(DiscoveryResponse(d), DiscoveryResponse(e), n)
            IN Len(p) = 5 + 2*UidBytes /\ p[1] = 254 /\ p[2] = 254
        BY <3>1, SpliceFacts
      <4> QED BY <2>4, <4>1
    <3>3. r.kind = "SINGLE" => r.uid \in 0..Highest /\ wire = DiscoveryResponse(r.uid)
      BY <1>2, <3>2, SingleIsAnswer
    <3>4. r.kind # "SINGLE"
      BY <2>4, <3>3, UidFacts DEF Answers
    <3>5. r.kind \in {"COLLISION", "SINGLE"}
      BY <1>2, <3>2, ParseFacts
    <3> QED BY <3>4, <3>5
  <2> HIDE DEF r
  <2> QED BY <2>1, <2>2, <2>3, <2>4
<1>5. CASE r.kind = "SINGLE" /\ Fresh(r.uid)
  <2>1. /\ phase' = "muting" /\ single' = r.uid /\ wire' = Reply(r.uid, Mute(r.uid))
        /\ UNCHANGED vars
    BY <1>1, <1>5
  <2>2. /\ IInv' /\ More' /\ Here' = Here /\ devices' = devices /\ missed' = missed
        /\ \A u : Fresh(u)' <=> Fresh(u)
    BY <1>2, <2>1, SearchUnchanged
  <2>3. r.uid \in Uid
    BY <1>2, <1>5, SingleIsUid
  <2>4. OneFaultNoPhantom'
    <3> SUFFICES ASSUME faults <= 1, Cardinality(Here) = 1 PROVE r.uid \in devices
      BY <1>1, <2>1, <2>2 DEF OneFaultNoPhantom
    <3>1. PICK d \in Here : Here = {d}
      BY <1>2, OneHere
    <3>2. wire = <<>> \/ OneByteOff(wire, DiscoveryResponse(d))
      BY <1>1, <1>2, <3>1 DEF OneFault
    <3>3. wire # <<>>
      BY <1>5, SilenceIsRead
    <3>4. d \in 0..Highest
      BY <1>3, UidFacts
    <3>5. r.uid = d
      BY <1>2, <1>5, <3>2, <3>3, <3>4, OffByOneIsRead
    <3> QED BY <1>3, <3>5
  <2>5. Quiet'
    <3>1. faults = 0 => missed = {} /\ Here = {r.uid}
      <4> HIDE DEF r
      <4> QED BY <1>2, <1>4, <1>5 DEF Quiet
    <3>2. wire' = Reply(single, Mute(single))'
      BY <2>1, <2>2 DEF Reply, Mute
    <3>3. phase' # "probing" /\ Here' = Here /\ missed' = missed /\ single' = r.uid
      BY <2>1, <2>2
    <3> HIDE DEF r
    <3> QED BY <1>1, <3>1, <3>2, <3>3 DEF Quiet
  <2>6. LineTypeOK'
    <3>1. Reply(r.uid, Mute(r.uid)) \in Seq(Byte)
      BY <2>3, MuteFacts
    <3> QED BY <1>1, <1>2, <2>1, <2>3, <3>1 DEF LineTypeOK
  <2>7. AskedFor'
    BY <1>5, <2>1, <2>2 DEF AskedFor
  <2>8. OnlyNoise'
    <3>1. r.uid \notin devices => Reply(r.uid, Mute(r.uid)) = <<>>
      BY <2>3, MuteFacts
    <3> QED BY <2>1, <2>2, <3>1 DEF OnlyNoise
  <2>9. OneFault'
    BY <2>1 DEF OneFault
  <2> QED BY <2>1, <2>2, <2>4, <2>5, <2>6, <2>7, <2>8, <2>9 DEF LineIInv
<1>6. CASE ~(r.kind = "SINGLE" /\ Fresh(r.uid))
  <2>1. /\ phase' = "idle" /\ wire' = <<>> /\ single' = single
        /\ IF r.kind = "COLLISION" /\ CanSplit THEN Split ELSE GiveUp
    BY <1>1, <1>6
  <2>2. Next
    BY <2>1 DEF Next
  <2>3. IInv'
    BY <1>2, <2>2, NextInv
  <2>4. LineTypeOK'
    BY <1>1, <1>2, <2>1 DEF LineTypeOK
  <2>5. ASSUME faults = 0
        PROVE  missed' = {}
    <3>1. missed = {}
      BY <1>2, <2>5 DEF Quiet
    <3>2. CASE r.kind = "COLLISION" /\ CanSplit
      BY <2>1, <3>1, <3>2 DEF Split
    <3>3. CASE ~(r.kind = "COLLISION" /\ CanSplit)
      <4>1. missed' = missed \cup (Here \ Listed(found))
        BY <2>1, <3>3 DEF GiveUp
      <4>2. Here \subseteq Listed(found)
        <5>1. CASE Here = {}
          BY <5>1
        <5>2. ASSUME NEW d \in Here, Here = {d}, r.kind = "SINGLE", r.uid = d
              PROVE  Here \subseteq Listed(found)
          <6>1. In(d, Top)
            BY DEF Here
          <6> QED BY <1>6, <5>2, <6>1 DEF Fresh
        <5>3. ASSUME NEW d \in Here, NEW e \in Here, d # e, r.kind = "COLLISION"
              PROVE  FALSE
          <6>1. In(d, Top) /\ In(e, Top)
            BY DEF Here
          <6>2. d \in Nat /\ e \in Nat
            BY <1>3, UidFacts
          <6>3. Top[1] \in Nat /\ Top[2] \in Nat
            BY <1>2, AtTop, SweepAssumption DEF Branch, Uid
          <6>4. Top[1] < Top[2]
            BY <5>3, <6>1, <6>2, <6>3 DEF In
          <6>5. CanSplit
            BY <1>2, <6>4 DEF RoomToSplit, More
          <6> QED BY <3>3, <5>3, <6>5
        <5> HIDE DEF r
        <5> QED BY <1>4, <2>5, <5>1, <5>2, <5>3
      <4> QED BY <3>1, <4>1, <4>2
    <3> QED BY <3>2, <3>3
  <2>6. Quiet'
    BY <1>1, <2>1, <2>5 DEF Quiet
  <2>7. AskedFor' /\ OnlyNoise' /\ OneFault' /\ OneFaultNoPhantom'
    BY <2>1 DEF AskedFor, OnlyNoise, OneFault, OneFaultNoPhantom
  <2> QED BY <2>2, <2>3, <2>4, <2>6, <2>7 DEF LineIInv
<1> QED BY <1>5, <1>6

\* Reading the answer of a muted device keeps the invariant, and is a step of
\* the search or none.
LEMMA MuteDoneKeeps ==
  ASSUME LineIInv, MuteDone
  PROVE  LineIInv' /\ [Next]_vars
<1> DEFINE r == rdmReadResp(wire)
<1>1. /\ phase = "muting" /\ phase' = "idle" /\ wire' = <<>>
      /\ single' = single /\ faults' = faults
      /\ IF Believed(r) THEN Record(single) ELSE GiveUp
  BY DEF MuteDone
<1>2. /\ TypeOK /\ IInv /\ LineTypeOK /\ OnlyNoise /\ Quiet
      /\ wire \in Seq(Byte) /\ single \in Uid
  BY DEF LineIInv, IInv, LineTypeOK
<1>3. Believed(r) => single \in devices
  <2>1. single \notin devices => ~r.ok
    BY <1>1, <1>2, ShortIsNotRead DEF OnlyNoise
  <2> QED BY <2>1 DEF Believed
<1>4. Next
  BY <1>1, <1>3 DEF Next
<1>5. IInv'
  BY <1>2, <1>4, NextInv
<1>6. LineTypeOK'
  BY <1>1, <1>2 DEF LineTypeOK
<1>7. ASSUME faults = 0
      PROVE  missed' = {}
  <2>1. missed = {} /\ Here = {single} /\ wire = Reply(single, Mute(single))
    BY <1>1, <1>2, <1>7 DEF Quiet
  <2>2. single \in devices
    BY <1>2, <2>1, HereFacts
  <2>3. Believed(r)
    <3>1. r.ok /\ r.source = single
      BY <1>2, <2>1, <2>2, MuteFacts
    <3> QED BY <3>1 DEF Believed
  <2>4. missed' = missed \cup (Here \ (Listed(found) \cup {single}))
    BY <1>1, <2>3 DEF Record
  <2> QED BY <2>1, <2>4
<1>8. Quiet'
  BY <1>1, <1>7 DEF Quiet
<1>9. AskedFor' /\ OnlyNoise' /\ OneFault' /\ OneFaultNoPhantom'
  BY <1>1 DEF AskedFor, OnlyNoise, OneFault, OneFaultNoPhantom
<1> QED BY <1>4, <1>5, <1>6, <1>8, <1>9 DEF LineIInv

\* Every step of the line keeps the invariant, and is a step of the search or
\* none.
LEMMA LineNextInv == LineIInv /\ [LineNext]_<<vars, lineVars>> => LineIInv' /\ [Next]_vars
<1> SUFFICES ASSUME LineIInv, [LineNext]_<<vars, lineVars>>
             PROVE  LineIInv' /\ [Next]_vars
  OBVIOUS
<1>1. CASE Probe
  BY <1>1, ProbeKeeps DEF Probe
<1>2. CASE ProbeDone
  BY <1>2, ProbeDoneKeeps
<1>3. CASE MuteDone
  BY <1>3, MuteDoneKeeps
<1>4. CASE Damage
  BY <1>4, DamageKeeps DEF Damage
<1>5. CASE UNCHANGED <<vars, lineVars>>
  <2>1. /\ IInv' /\ (More' <=> More) /\ Here' = Here /\ devices' = devices
        /\ missed' = missed /\ \A u : Fresh(u)' <=> Fresh(u)
    BY <1>5, SearchUnchanged DEF LineIInv
  <2>2. phase' = phase /\ single' = single /\ wire' = wire /\ faults' = faults
    BY <1>5 DEF lineVars
  <2>3. LineTypeOK' /\ AskedFor' /\ OnlyNoise' /\ OneFaultNoPhantom'
    BY <2>1, <2>2 DEF LineIInv, LineTypeOK, AskedFor, OnlyNoise, OneFaultNoPhantom
  <2>4. OneFault'
    BY <2>1, <2>2 DEF LineIInv, OneFault
  <2>5. Quiet'
    BY <2>1, <2>2 DEF LineIInv, Quiet, Reply
  <2> QED BY <1>5, <2>1, <2>3, <2>4, <2>5 DEF LineIInv
<1> QED BY <1>1, <1>2, <1>3, <1>4, <1>5 DEF LineNext, Sweeping

\* The line keeps its invariant, whatever is damaged on it.

-----------------------------------------------------------------------------
(***************************************************************************)
(* The line: the theorems.                                                 *)
(***************************************************************************)
THEOREM LineInvariantHolds == LineSpec => []LineIInv
BY LineInitInv, LineNextInv, PTL DEF LineSpec

\* One damaged byte in the answer of one device never makes another device be
\* muted (the checksum of rdmParseDiscoveryResponse).
THEOREM OneFaultMakesNoPhantom == LineSpec => []OneFaultNoPhantom
<1>1. LineIInv => OneFaultNoPhantom
  BY DEF LineIInv
<1> QED BY <1>1, LineInvariantHolds, PTL

\* A sweep that ends with an empty stack on a line without faults has found
\* exactly the devices of the line.
THEOREM QuietSweepFindsAll == LineSpec => []QuietSweepComplete
<1>1. ASSUME LineIInv
      PROVE  QuietSweepComplete
  <2> SUFFICES ASSUME stack = <<>>, faults = 0 PROVE Listed(found) = devices
    BY DEF QuietSweepComplete
  <2>1. missed = {} /\ NothingLost /\ FoundOnce
    BY <1>1 DEF LineIInv, IInv, Quiet
  <2>2. 1..Len(stack) = {}
    OBVIOUS
  <2>3. devices \subseteq Listed(found)
    BY <2>1, <2>2 DEF NothingLost
  <2>4. Listed(found) \subseteq devices
    BY <2>1 DEF FoundOnce
  <2> QED BY <2>3, <2>4
<1> QED BY <1>1, LineInvariantHolds, PTL

\* Whatever the bytes do to the search is a step of the search: a device is
\* recorded only if it is there, was asked for and was not found before.
THEOREM LineRefinesSweep == LineSpec => RefinesSweep
<1>1. LineInit => Init
  BY DEF LineInit
<1> QED BY <1>1, LineNextInv, LineInvariantHolds, PTL DEF LineSpec, Spec, RefinesSweep

=============================================================================
