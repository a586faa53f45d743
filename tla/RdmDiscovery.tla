---------------------------- MODULE RdmDiscovery ----------------------------
(***************************************************************************)
(* The sweep that finds the RDM devices on a line (rdmDiscRange in         *)
(* rdm_discovery.c): a search over ranges of identifiers with an explicit  *)
(* stack, a limited number of results and a limited number of requests.    *)
(*                                                                         *)
(* One iteration of the loop is one step.  The line may give any answer to *)
(* a request; what a wrong answer costs is recorded in "missed".  RdmLine  *)
(* puts the bytes of requests and answers under these steps.               *)
(***************************************************************************)
EXTENDS Integers, Sequences, FiniteSets

CONSTANTS
  UidMax,      \* The highest identifier (RDM_UID_MAX, 2^48 - 1 in the code).
  Devices,     \* The devices there may be.
  MaxDevices,  \* max_devices, clipped to out_capacity.
  Capacity,    \* RDM_DISC_STACK_CAPACITY (64 in the code).
  Half,        \* Half[n]: the number of identifiers, halved n - 1 times.
  Extra        \* RDM_DISC_ITERATION_EXTRA (128 in the code).

\* Halving the range of all identifiers uses up the stack no sooner than the
\* range (64 places for 48 bits in the code).
ASSUME SweepAssumption ==
  /\ UidMax \in Nat /\ Devices \subseteq 0..UidMax
  /\ MaxDevices \in Nat \ {0} /\ Extra \in Nat
  /\ Capacity \in Nat \ {0}
  /\ Half \in [1..Capacity -> Nat]
  /\ Half[1] = UidMax + 1
  /\ \A n \in 1..Capacity-1 : Half[n + 1] = Half[n] \div 2
  /\ Half[Capacity] <= 1

VARIABLES
  devices,     \* The devices on the line.
  stack,       \* The branches still to ask for.
  found,       \* out: the devices found, in order.
  iterations,  \* Requests made.
  missed       \* History: devices whose branch was given up on a wrong answer.

vars == <<devices, stack, found, iterations, missed>>

Uid == 0..UidMax
Branch == {b \in Uid \X Uid : b[1] <= b[2]}
In(u, b) == b[1] <= u /\ u <= b[2]
Listed(seq) == {seq[n] : n \in 1..Len(seq)}

Budget == 8 * MaxDevices + Extra
Top == stack[Len(stack)]
Rest == SubSeq(stack, 1, Len(stack) - 1)
Here == {d \in devices : In(d, Top)}

Init ==
  /\ devices \in SUBSET Devices
  /\ stack = <<(<<0, UidMax>>)>>
  /\ found = <<>>
  /\ iterations = 0
  /\ missed = {}

\* The condition of the loop.
More ==
  /\ stack # <<>>
  /\ Len(found) < MaxDevices
  /\ iterations < Budget

Probed == More /\ iterations' = iterations + 1 /\ UNCHANGED devices

\* Nobody answers, or nobody is heard, or an answer is not to be used: the
\* branch is given up.
GiveUp ==
  /\ Probed
  /\ stack' = Rest
  /\ missed' = missed \cup (Here \ Listed(found))
  /\ UNCHANGED found

\* One device answers that is in the branch and was not found before, and is
\* muted.
Fresh(u) == In(u, Top) /\ u \notin Listed(found)

Record(u) ==
  /\ Probed
  /\ Fresh(u)
  /\ stack' = Rest
  /\ found' = Append(found, u)
  /\ missed' = missed \cup (Here \ (Listed(found) \cup {u}))

Midpoint(b) == b[1] + ((b[2] - b[1]) \div 2)

\* Mutant: the halves share the midpoint.
HalvesSharing(b) == <<(<<b[1], Midpoint(b)>>), (<<Midpoint(b), b[2]>>)>>

\* Mutant: the midpoint is in neither half.
HalvesApart(b) ==
  LET m == Midpoint(b)
  IN <<(<<b[1], IF m > b[1] THEN m - 1 ELSE m>>), (<<m + 1, b[2]>>)>>

Halves(b) == <<(<<b[1], Midpoint(b)>>), (<<Midpoint(b) + 1, b[2]>>)>>

\* Several devices answer: both halves are asked for, the upper one first, if
\* there is anything to halve and room for both.
CanSplit == Top[1] < Top[2] /\ Len(Rest) + 2 <= Capacity

Split ==
  /\ Probed
  /\ CanSplit
  /\ stack' = Rest \o Halves(Top)
  /\ UNCHANGED <<found, missed>>

Next == GiveUp \/ Split \/ \E u \in devices : Record(u)

Spec == Init /\ [][Next]_vars

-----------------------------------------------------------------------------
(***************************************************************************)
(* Correctness.                                                            *)
(***************************************************************************)
\* The types of all variables; the arrays out, lowers and uppers suffice.
TypeOK ==
  /\ devices \in SUBSET Devices
  /\ stack \in Seq(Branch) /\ Len(stack) <= Capacity
  /\ found \in Seq(Uid) /\ Len(found) <= MaxDevices
  /\ iterations \in 0..Budget
  /\ missed \in SUBSET devices

\* The branches that wait are apart: no device is asked for twice.
RangesApart ==
  \A m, n \in 1..Len(stack) : m < n => stack[m][2] < stack[n][1]

\* Every device that was found is there, was found once, and is in no branch
\* that waits.
FoundOnce ==
  /\ Listed(found) \subseteq devices
  /\ \A m, n \in 1..Len(found) : found[m] = found[n] => m = n
  /\ \A u \in Listed(found), n \in 1..Len(stack) : ~In(u, stack[n])

\* No device gets lost, except by a wrong answer: it is found or in a branch
\* that waits, however the search goes on and wherever it is cut off.
NothingLost ==
  \A d \in devices :
    d \in Listed(found) \cup missed \/ \E n \in 1..Len(stack) : In(d, stack[n])

\* The n-th branch of the stack was halved n - 1 times or more.
Halved == \A n \in 1..Len(stack) : stack[n][2] - stack[n][1] < Half[n]

\* The stack is never too small: whatever the line answers, a branch that can
\* be halved is never dropped for want of room ("deeper ranges are silently
\* dropped", 10-rdm-discovery-spec.md, 10, does not happen).
RoomToSplit == stack # <<>> /\ Top[1] < Top[2] => CanSplit

\* The inductive invariant.
IInv ==
  /\ TypeOK
  /\ RangesApart
  /\ FoundOnce
  /\ NothingLost
  /\ Halved
  /\ RoomToSplit

=============================================================================
