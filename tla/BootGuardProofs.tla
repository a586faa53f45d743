-------------------------- MODULE BootGuardProofs --------------------------
(***************************************************************************)
(* Proofs about BootGuard, for any number of outputs, any board, any retry *)
(* limit and any number of power cuts, faults of flash and uploads.        *)
(***************************************************************************)
EXTENDS BootGuard, TLAPS

USE DEF Part, Other, vars

\* The crash counter stays within its word when it is raised (crash_guard.c).
LEMMA WordWraps ==
  ASSUME NEW n \in 0..CountMod-1
  PROVE  (n + 1) % CountMod \in 0..CountMod-1
BY BootAssumption

\* Every step keeps the two flags Boolean: a trial and an upload either run or do
\* not (s_pending of ota_recovery.c, the upload handler of ota_manager.c).
LEMMA FlagsKept ==
  ASSUME FlagsOK, [Next]_vars
  PROVE  FlagsOK'
<1> USE DEF FlagsOK
<1>1. CASE PowerOn
  BY <1>1, Zenon DEF PowerOn, Start, memory
<1>2. CASE BootloaderAborts
  BY <1>2, Zenon DEF BootloaderAborts, Start, memory
<1>3. CASE OtaRollback
  BY <1>3, Zenon DEF OtaRollback, Reset
<1>4. CASE OtaRollbackFails
  BY <1>4, Zenon DEF OtaRollbackFails
<1>5. CASE OtaTry
  BY <1>5, Zenon DEF OtaTry, SaveAttempts
<1>6. CASE OtaNormal
  BY <1>6, Zenon DEF OtaNormal, memory
<1>7. CASE OtaUnread
  BY <1>7, Zenon DEF OtaUnread, AttemptsUnread, memory
<1>8. CASE GuardBegin
  BY <1>8, Zenon DEF GuardBegin
<1>9. CASE OutputInit
  BY <1>9, Zenon DEF OutputInit
<1>10. CASE GuardEnd
  BY <1>10, Zenon DEF GuardEnd, memory
<1>11. CASE GuardSkipped
  BY <1>11, Zenon DEF GuardSkipped, memory
<1>12. CASE WindowSurvived
  BY <1>12, Zenon DEF WindowSurvived, memory
<1>13. CASE StartServices
  BY <1>13, Zenon DEF StartServices, memory
<1>14. CASE MarkHealthy
  BY <1>14, Zenon DEF MarkHealthy
<1>15. CASE MarkFails
  BY <1>15, Zenon DEF MarkFails, memory
<1>16. CASE ClearAttempts
  BY <1>16, Zenon DEF ClearAttempts, memory, SaveAttempts
<1>17. CASE Panic
  BY <1>17, Zenon DEF Panic, Die, Reset
<1>18. CASE PowerCut
  BY <1>18, Zenon DEF PowerCut, Die, Reset
<1>19. CASE UploadBegin
  BY <1>19, Zenon DEF UploadBegin
<1>20. CASE UploadFails
  BY <1>20, Zenon DEF UploadFails, TransferFails, SignatureRejected,
                            SelectionFails, OtaFail
<1>21. CASE UploadDone
  BY <1>21, Zenon DEF UploadDone, Reset
<1>22. CASE ConfigSave
  BY <1>22, Zenon DEF ConfigSave, memory
<1>23. CASE Restart
  BY <1>23, Zenon DEF Restart, Reset
<1>24. CASE UNCHANGED vars
  BY <1>24, Zenon
<1> QED
  BY <1>1, <1>2, <1>3, <1>4, <1>5, <1>6, <1>7, <1>8, <1>9, <1>10, <1>11, <1>12, <1>13,
     <1>14, <1>15, <1>16, <1>17, <1>18, <1>19, <1>20, <1>21, <1>22, <1>23, <1>24
  DEF Next, Booting, Use

\* Every step keeps the rest of the inductive invariant: what is in flash stays
\* consistent with what the boots, panics and uploads did.
LEMMA RestKept ==
  ASSUME IInv, [Next]_vars
  PROVE  /\ WordsOK' /\ SomeValid' /\ TrialSelected'
         /\ TriesCounted' /\ CounterClear' /\ CrashesCounted'
<1> USE BootAssumption, WordWraps
    DEF IInv, TypeOK, WordsOK, SomeValid, TrialSelected, TriesCounted, CounterClear,
        CrashesCounted
<1>1. CASE PowerOn
  BY <1>1, SMTT(30) DEF PowerOn, Start, Bootable, flash, memory, world
<1>2. CASE BootloaderAborts
  BY <1>2, SMTT(30) DEF BootloaderAborts, Start, flash, memory, world
<1>3. CASE OtaRollback
  BY <1>3, SMTT(30) DEF OtaRollback, Reset, world
<1>4. CASE OtaRollbackFails
  BY <1>4, SMTT(30) DEF OtaRollbackFails, Fault, flash, world
<1>5. CASE OtaTry
  BY <1>5, SMTT(30) DEF OtaTry, SaveAttempts, Fault, world
<1>6. CASE OtaNormal
  BY <1>6, SMTT(30) DEF OtaNormal, Fault, memory, world
<1>7. CASE OtaUnread
  BY <1>7, SMTT(30) DEF OtaUnread, AttemptsUnread, Fault, flash, memory, world
<1>8. CASE GuardBegin
  BY <1>8, SMTT(30) DEF GuardBegin, Fault, Suspects, flash, world
<1>9. CASE OutputInit
  BY <1>9, SMTT(30) DEF OutputInit, Initialized, flash, world
<1>10. CASE GuardEnd
  BY <1>10, SMTT(30) DEF GuardEnd, Fault, Successor, memory, world
<1>11. CASE GuardSkipped
  BY <1>11, SMTT(30) DEF GuardSkipped, Fault, flash, memory, world
<1>12. CASE WindowSurvived
  BY <1>12, SMTT(30) DEF WindowSurvived, Fault, Successor, memory, world
<1>13. CASE StartServices
  BY <1>13, SMTT(30) DEF StartServices, flash, memory, world
<1>14. CASE MarkHealthy
  BY <1>14, SMTT(30) DEF MarkHealthy, world
<1>15. CASE MarkFails
  BY <1>15, SMTT(30) DEF MarkFails, Fault, flash, memory, world
<1>16. CASE ClearAttempts
  BY <1>16, SMTT(30) DEF ClearAttempts, SaveAttempts, Fault, memory, world
<1>17. CASE Panic
  BY <1>17, SMTT(30) DEF Panic, Die, Reset, flash
<1>18. CASE PowerCut
  BY <1>18, SMTT(30) DEF PowerCut, Die, Reset, flash
<1>19. CASE UploadBegin
  BY <1>19, SMTT(30) DEF UploadBegin
<1>20. CASE UploadFails
  <2>1. OtaFail /\ boot' \in {boot, running}
    BY <1>20, Zenon DEF UploadFails, TransferFails, SignatureRejected, SelectionFails
  <2> QED
    BY <2>1, SMTT(30) DEF OtaFail, world
<1>21. CASE UploadDone
  BY <1>21, SMTT(30) DEF UploadDone, Reset
<1>22. CASE ConfigSave
  BY <1>22, SMTT(30) DEF ConfigSave, memory, world
<1>23. CASE Restart
  BY <1>23, SMTT(30) DEF Restart, Reset, flash, world
<1>24. CASE UNCHANGED vars
  BY <1>24
<1> QED
  BY <1>1, <1>2, <1>3, <1>4, <1>5, <1>6, <1>7, <1>8, <1>9, <1>10, <1>11, <1>12, <1>13,
     <1>14, <1>15, <1>16, <1>17, <1>18, <1>19, <1>20, <1>21, <1>22, <1>23, <1>24
  DEF Next, Booting, Use

-----------------------------------------------------------------------------
\* The two guards keep their invariant at every step of every boot, through any
\* order of panics, power cuts, failed accesses to flash and uploads.
THEOREM InvariantHolds == Spec => []IInv
<1>1. Init => IInv
  <2> SUFFICES ASSUME Init PROVE IInv
    OBVIOUS
  <2>1. FlagsOK
    BY Zenon DEF Init, FlagsOK
  <2>2. WordsOK
    BY BootAssumption DEF Init, WordsOK
  <2>3. SomeValid /\ TrialSelected /\ TriesCounted /\ CounterClear
    BY SMT DEF Init, SomeValid, TrialSelected, TriesCounted, CounterClear
  <2>4. CrashesCounted
    BY DEF Init, CrashesCounted
  <2> QED
    BY <2>1, <2>2, <2>3, <2>4 DEF IInv, TypeOK
<1>2. IInv /\ [Next]_vars => IInv'
  BY FlagsKept, RestKept DEF IInv, TypeOK
<1> QED
  BY <1>1, <1>2, PTL DEF Spec

\* Every variable keeps its type; the counters stay within their words.
THEOREM TypeCorrect == Spec => []TypeOK
<1>1. IInv => TypeOK
  BY DEF IInv
<1> QED
  BY <1>1, InvariantHolds, PTL

\* The crash counter in flash counts the boots in a row that did not survive the
\* window, and the outputs it counts off stay off (dmxInitGuardBegin and End).
THEOREM CrashesAreCounted == Spec => []CrashesCounted
<1>1. IInv => CrashesCounted
  BY DEF IInv
<1> QED
  BY <1>1, InvariantHolds, PTL

\* An image on trial always has a healthy one to fall back to, whatever uploads,
\* faults and cuts came before (otaRecoveryInit, ota_upload_handler).
THEOREM FallbackHolds == Spec => []FallbackExists
<1>1. IInv => FallbackExists
  <2> SUFFICES ASSUME IInv, NEW p \in Part, state[p] \in {"new", "pending"}
               PROVE  state[Other(p)] = "valid"
    BY DEF FallbackExists
  <2> QED
    BY DEF IInv, SomeValid
<1> QED
  BY <1>1, InvariantHolds, PTL

\* No image is started more than RetryMax times on trial, each failed access to
\* flash allowing one more (the counting in otaRecoveryInit).
THEOREM TriesAreBounded == Spec => []TriesBounded
<1>1. IInv => TriesBounded
  <2> SUFFICES ASSUME IInv, NEW p \in Part, state[p] = "pending"
               PROVE  tries[p] <= RetryMax + faults
    BY DEF TriesBounded
  <2>1. tries[p] \in Nat /\ boottry \in 0..RetryMax /\ faults \in 0..MaxFaults
    BY DEF IInv, TypeOK, WordsOK
  <2>2. tries[p] <= boottry + faults
    BY DEF IInv, TriesCounted
  <2> QED
    BY <2>1, <2>2, BootAssumption
<1> QED
  BY <1>1, InvariantHolds, PTL

\* The recovery guard gives an image up only after RetryMax starts of that image,
\* while flash works: nothing an earlier update left is counted against it.
THEOREM RollbackIsEarned == Spec => RollbackEarned
<1> DEFINE Earned ==
      pc = "ota" /\ pc' = "off" /\ state'[running] = "invalid" /\ faults = 0 =>
        tries[running] = RetryMax
<1>1. IInv /\ [Next]_vars => [Earned]_vars
  <2> SUFFICES ASSUME IInv, Next, pc = "ota", pc' = "off",
                      state'[running] = "invalid", faults = 0
               PROVE  tries[running] = RetryMax
    OBVIOUS
  <2>1. /\ running \in Part /\ state \in [Part -> {"empty", "torn", "new", "pending",
                                                  "valid", "invalid"}]
        /\ boottry \in 0..RetryMax /\ RetryMax \in Nat
    BY BootAssumption DEF IInv, TypeOK, WordsOK
  <2>2. state[running] \in {"valid", "pending"}
    BY DEF IInv, SomeValid
  \* No upload is written while otaRecoveryInit runs.
  <2>3. ~writing
    BY DEF IInv, SomeValid
  <2>4. state[running] = "pending" /\ boottry >= RetryMax
    <3>1. CASE OtaRollback
      BY <3>1 DEF OtaRollback
    <3>2. CASE Panic \/ PowerCut
      BY <3>2, <2>2 DEF Panic, PowerCut, Faulty, Die, flash
    <3> QED
      BY <3>1, <3>2, <2>3
      DEF Next, Booting, Use, PowerOn, BootloaderAborts, Start, OtaRollbackFails,
          OtaTry, SaveAttempts, OtaNormal, OtaUnread, GuardBegin, OutputInit,
          GuardEnd, GuardSkipped, WindowSurvived, StartServices, MarkHealthy, MarkFails,
          ClearAttempts, UploadBegin, UploadFails, TransferFails, SignatureRejected,
          SelectionFails, OtaFail, UploadDone, ConfigSave, Restart
  <2>5. tries[running] = boottry
    BY <2>1, <2>4 DEF IInv, TriesCounted
  <2> QED
    BY <2>1, <2>4, <2>5
<1>2. Spec => [][Earned]_vars
  BY <1>1, InvariantHolds, PTL DEF Spec
<1> QED
  BY <1>2 DEF RollbackEarned

=============================================================================
