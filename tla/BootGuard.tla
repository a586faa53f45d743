----------------------------- MODULE BootGuard -----------------------------
(***************************************************************************)
(* Booting, and the two counters in flash that guard it: the OTA retry     *)
(* counter (ota_recovery.c) and the output crash counter (crash_guard.c),  *)
(* in the order app_main runs them, with the upload that installs an image *)
(* (ota_manager.c) and the saving of the configuration (config_engine.c).  *)
(*                                                                         *)
(* Power may be cut and an access to flash may fail at any step.  The      *)
(* firmware panics where an output or the image itself is faulty; a panic  *)
(* and a cut both lose what is in memory and keep what is in flash.        *)
(***************************************************************************)
EXTENDS Integers

CONSTANTS
  Outputs,     \* Number of outputs (MAX_OUTPUTS, 4 in the code).
  Hardware,    \* The boards: which outputs have no pins, panic or fail later.
  CountMod,    \* The crash counter counts modulo CountMod (256 in the code).
  RetryMax,    \* Boots a new image is given (OTA_BOOT_RETRY_MAX, 3).
  MaxCuts,     \* Bound: power cuts.
  MaxFaults,   \* Bound: failed accesses to flash.
  MaxUploads   \* Bound: uploads begun.

Output == 0..Outputs-1
Part == {0, 1}
Other(p) == 1 - p

\* pinless: no pins; init: panics when it is initialized; window: panics
\* within the stability window after that.
Board == [pinless : SUBSET Output, init : SUBSET Output, window : SUBSET Output]

ASSUME BootAssumption ==
  /\ Outputs \in Nat \ {0}
  /\ Hardware \subseteq Board
  /\ CountMod \in Nat /\ CountMod > Outputs + 1
  /\ RetryMax \in Nat \ {0}
  /\ MaxCuts \in Nat /\ MaxFaults \in Nat /\ MaxUploads \in Nat

VARIABLES
  pc,        \* Where app_main is; "off" until the bootloader runs.
  stored,    \* Flash: the outputs enabled in the saved configuration.
  dmxcrash,  \* Flash: the crash counter.
  boottry,   \* Flash: boots of the pending image so far.
  state,     \* Flash: state[p] of the image in partition p.
  boot,      \* Flash: the partition selected for the next boot.
  running,   \* The partition the program runs from.
  en,        \* Memory: the outputs enabled in cfg.
  crashCount,\* Memory: the crash counter as read at this boot.
  pending,   \* Memory: s_pending, this boot is a trial of a new image.
  writing,   \* Memory: an upload is being written.
  hw,        \* The board.
  bad,       \* The partitions whose image panics before it is healthy.
  lost,      \* History: boots in a row that did not survive the window, modulo
             \* CountMod.
  tries,     \* History: starts of the image in each partition while pending.
  cuts, faults, uploads  \* Bounds.

flash == <<stored, dmxcrash, boottry, state, boot>>
memory == <<en, crashCount, pending, writing>>
world == <<hw, bad, cuts, uploads>>
vars == <<pc, stored, dmxcrash, boottry, state, boot, running, en, crashCount,
          pending, writing, hw, bad, lost, tries, cuts, faults, uploads>>

\* The outputs the crash guard disables when it reads n.
Suspects(n) == {o \in Output : o < n}
Successor(n) == (n + 1) % CountMod

Init ==
  /\ pc = "off"
  /\ stored = Output /\ dmxcrash = 0 /\ boottry = 0
  /\ state = [p \in Part |-> IF p = 0 THEN "valid" ELSE "empty"]
  /\ boot = 0 /\ running = 0
  /\ en = {} /\ crashCount = 0 /\ pending = FALSE /\ writing = FALSE
  /\ hw \in Hardware /\ bad = {}
  /\ lost = 0 /\ tries = [p \in Part |-> 0]
  /\ cuts = 0 /\ faults = 0 /\ uploads = 0

-----------------------------------------------------------------------------
(***************************************************************************)
(* The bootloader, as this firmware uses it.  A new image becomes pending  *)
(* when it is first booted, an image that is not whole is passed over, and *)
(* the bootloader may give up a pending image on its own.                  *)
(***************************************************************************)
Start(p) ==
  /\ pc = "off"
  /\ running' = p
  /\ pc' = "ota"
  /\ UNCHANGED <<stored, dmxcrash, boottry, memory, world, lost, tries, faults>>

Bootable(p) == state[p] \in {"new", "pending", "valid"}

PowerOn ==
  LET p == IF Bootable(boot) THEN boot ELSE Other(boot)
  IN /\ Start(p)
     /\ state' = [state EXCEPT ![p] = IF @ = "new" THEN "pending" ELSE @]
     /\ UNCHANGED boot

BootloaderAborts ==
  /\ state[boot] = "pending"
  /\ Start(Other(boot))
  /\ state' = [state EXCEPT ![boot] = "invalid"]
  /\ boot' = Other(boot)

\* Back to the bootloader: memory is lost.
Reset ==
  /\ pc' = "off"
  /\ en' = {} /\ crashCount' = 0 /\ pending' = FALSE /\ writing' = FALSE

Fault ==
  /\ faults < MaxFaults
  /\ faults' = faults + 1

-----------------------------------------------------------------------------
(***************************************************************************)
(* otaRecoveryInit.                                                        *)
(***************************************************************************)
\* load_attempts fails.
AttemptsUnread == Fault

\* save_attempts: the counter is durable once it is committed.
SaveAttempts(n) ==
  \/ boottry' = n /\ UNCHANGED faults
  \/ Fault /\ UNCHANGED boottry

\* The limit is reached: the image is given up.
OtaRollback ==
  /\ pc = "ota"
  /\ state[running] = "pending"
  /\ boottry >= RetryMax
  /\ state' = [state EXCEPT ![running] = "invalid"]
  /\ boot' = Other(running)
  /\ Reset
  /\ UNCHANGED <<stored, dmxcrash, boottry, running, world, lost, tries, faults>>

\* The image cannot be given up: the trial goes on, uncounted.
OtaRollbackFails ==
  /\ pc = "ota"
  /\ state[running] = "pending"
  /\ boottry >= RetryMax
  /\ Fault
  /\ pending' = TRUE
  /\ tries' = [tries EXCEPT ![running] = @ + 1]
  /\ pc' = "guard"
  /\ UNCHANGED <<flash, running, en, crashCount, writing, world, lost>>

\* Mutant: a trial boot is not counted in flash.
OtaTryUnsaved ==
  /\ pc = "ota"
  /\ state[running] = "pending"
  /\ boottry < RetryMax
  /\ pending' = TRUE
  /\ tries' = [tries EXCEPT ![running] = @ + 1]
  /\ pc' = "guard"
  /\ UNCHANGED <<flash, running, en, crashCount, writing, world, lost, faults>>

\* A trial boot is counted in flash before anything else starts.
OtaTry ==
  /\ pc = "ota"
  /\ state[running] = "pending"
  /\ boottry < RetryMax
  /\ SaveAttempts(boottry + 1)
  /\ pending' = TRUE
  /\ tries' = [tries EXCEPT ![running] = @ + 1]
  /\ pc' = "guard"
  /\ UNCHANGED <<stored, dmxcrash, state, boot, running, en, crashCount, writing,
                 world, lost>>

\* Mutant: a normal boot leaves the counter alone.
OtaNormalKeeps ==
  /\ pc = "ota"
  /\ state[running] # "pending"
  /\ pc' = "guard"
  /\ UNCHANGED <<flash, running, memory, world, lost, tries, faults>>

\* A normal boot clears what an earlier update left.
OtaNormal ==
  /\ pc = "ota"
  /\ state[running] # "pending"
  /\ \/ boottry' = 0 /\ UNCHANGED faults
     \/ boottry # 0 /\ Fault /\ UNCHANGED boottry
  /\ pc' = "guard"
  /\ UNCHANGED <<stored, dmxcrash, state, boot, running, memory, world, lost, tries>>

\* The counter cannot be read: app_main goes on without the guard.
OtaUnread ==
  /\ pc = "ota"
  /\ AttemptsUnread
  /\ tries' = [tries EXCEPT ![running] =
                 IF state[running] = "pending" THEN @ + 1 ELSE @]
  /\ pc' = "guard"
  /\ UNCHANGED <<flash, running, memory, world, lost>>

-----------------------------------------------------------------------------
(***************************************************************************)
(* config_load, dmxInitGuardBegin, sanitizeOutputs with outputInitAll, and *)
(* dmxInitGuardEnd.                                                        *)
(***************************************************************************)
GuardBegin ==
  /\ pc = "guard"
  /\ \/ crashCount' = dmxcrash /\ UNCHANGED faults
     \/ crashCount' = 0 /\ Fault
  /\ en' = stored \ Suspects(crashCount')
  /\ pc' = "init"
  /\ UNCHANGED <<flash, running, pending, writing, world, lost, tries>>

Initialized == en \ hw.pinless

OutputInit ==
  /\ pc = "init"
  /\ Initialized \cap hw.init = {}
  /\ en' = Initialized
  /\ pc' = "end"
  /\ UNCHANGED <<flash, running, crashCount, pending, writing, world, lost, tries,
                 faults>>

\* Mutant: the counter is set to one instead of raised.
GuardEndWritesOne ==
  /\ pc = "end"
  /\ dmxcrash' = 1
  /\ pc' = "window"
  /\ UNCHANGED <<stored, boottry, state, boot, running, memory, world, lost, tries,
                 faults>>

\* The raised counter is in flash, or the write was lost, before the window.
GuardEnd ==
  /\ pc = "end"
  /\ \/ dmxcrash' = Successor(crashCount) /\ UNCHANGED faults
     \/ Fault /\ UNCHANGED dmxcrash
  /\ pc' = "window"
  /\ UNCHANGED <<stored, boottry, state, boot, running, memory, world, lost, tries>>

\* Flash cannot be opened: there is no window.
GuardSkipped ==
  /\ pc = "end"
  /\ Fault
  /\ pc' = "services"
  /\ UNCHANGED <<flash, running, memory, world, lost, tries>>

\* Mutant: the counter is not reset.
WindowSurvivedUnreset ==
  /\ pc = "window"
  /\ en \cap hw.window = {}
  /\ lost' = 0
  /\ pc' = "services"
  /\ UNCHANGED <<flash, running, memory, world, tries, faults>>

\* The window is over: the counter is reset if it is still what was written.
WindowSurvived ==
  /\ pc = "window"
  /\ en \cap hw.window = {}
  /\ \/ /\ dmxcrash' = IF dmxcrash = Successor(crashCount) THEN 0 ELSE dmxcrash
        /\ UNCHANGED faults
     \/ Fault /\ dmxcrash' \in {0, dmxcrash}
  /\ lost' = 0
  /\ pc' = "services"
  /\ UNCHANGED <<stored, boottry, state, boot, running, memory, world, tries>>

-----------------------------------------------------------------------------
(***************************************************************************)
(* The services are started; after five seconds a pending image is marked  *)
(* healthy and its counter is cleared, in this order.                      *)
(***************************************************************************)
\* Mutant: an image on trial is not observed.
StartServicesUnobserved ==
  /\ pc = "services"
  /\ running \notin bad
  /\ pc' = "up"
  /\ UNCHANGED <<flash, running, memory, world, lost, tries, faults>>

StartServices ==
  /\ pc = "services"
  /\ running \notin bad
  /\ pc' = IF pending THEN "settle" ELSE "up"
  /\ UNCHANGED <<flash, running, memory, world, lost, tries, faults>>

MarkHealthy ==
  /\ pc = "settle"
  /\ state' = [state EXCEPT ![running] = "valid"]
  /\ pending' = FALSE
  /\ pc' = "healthy"
  /\ UNCHANGED <<stored, dmxcrash, boottry, boot, running, en, crashCount, writing,
                 world, lost, tries, faults>>

\* The image cannot be marked: the trial goes on at the next boot.
MarkFails ==
  /\ pc = "settle"
  /\ Fault
  /\ pc' = "up"
  /\ UNCHANGED <<flash, running, memory, world, lost, tries>>

ClearAttempts ==
  /\ pc = "healthy"
  /\ SaveAttempts(0)
  /\ pc' = "up"
  /\ UNCHANGED <<stored, dmxcrash, state, boot, running, memory, world, lost, tries>>

Booting ==
  \/ PowerOn
  \/ OtaRollback \/ OtaRollbackFails \/ OtaTry \/ OtaNormal \/ OtaUnread
  \/ GuardBegin \/ OutputInit \/ GuardEnd \/ GuardSkipped \/ WindowSurvived
  \/ StartServices \/ MarkHealthy \/ MarkFails \/ ClearAttempts

-----------------------------------------------------------------------------
(***************************************************************************)
(* Panics and power cuts.                                                  *)
(***************************************************************************)
\* An output panics in outputInitAll or in the window; a bad image panics
\* anywhere before it would be marked healthy.
Faulty ==
  \/ pc = "init" /\ Initialized \cap hw.init # {}
  \/ pc = "window" /\ en \cap hw.window # {}
  \/ pc \in {"guard", "init", "end", "window", "services"} /\ running \in bad

Die ==
  /\ lost' = IF pc = "window" THEN (lost + 1) % CountMod ELSE lost
  /\ Reset
  /\ UNCHANGED <<flash, running, hw, bad, tries, faults, uploads>>

Panic ==
  /\ Faulty
  /\ Die
  /\ UNCHANGED cuts

PowerCut ==
  /\ pc # "off"
  /\ cuts < MaxCuts
  /\ cuts' = cuts + 1
  /\ Die

-----------------------------------------------------------------------------
(***************************************************************************)
(* A device that is up: an upload writes the other partition, the web form *)
(* saves the configuration, the console restarts the device.               *)
(***************************************************************************)
\* Mutant: the refusal of esp_ota_begin is not heeded.
UploadBeginOnTrial ==
  /\ pc = "up"
  /\ ~writing
  /\ uploads < MaxUploads
  /\ writing' = TRUE
  /\ state' = [state EXCEPT ![Other(running)] = "torn"]
  /\ uploads' = uploads + 1
  /\ UNCHANGED <<pc, stored, dmxcrash, boottry, boot, running, en, crashCount,
                 pending, hw, bad, lost, tries, cuts, faults>>

\* esp_ota_begin refuses while the running image is on trial; else it erases.
UploadBegin ==
  /\ pc = "up"
  /\ ~writing
  /\ uploads < MaxUploads
  /\ state[running] = "valid"
  /\ writing' = TRUE
  /\ state' = [state EXCEPT ![Other(running)] = "torn"]
  /\ uploads' = uploads + 1
  /\ UNCHANGED <<pc, stored, dmxcrash, boottry, boot, running, en, crashCount,
                 pending, hw, bad, lost, tries, cuts, faults>>

\* ota_fail: the upload is given up; what was written stays torn.
OtaFail ==
  /\ writing
  /\ writing' = FALSE
  /\ UNCHANGED <<pc, stored, dmxcrash, boottry, state, running, en, crashCount,
                 pending, world, lost, tries, faults>>

\* The connection breaks, or a call that writes the image fails.
TransferFails == OtaFail /\ UNCHANGED boot

\* otaVerifyPartition: the image is too short, cannot be read or hashed, or has
\* not the signature of the key; the running partition is selected.
SignatureRejected == OtaFail /\ boot' = running

\* ota_restore_running_boot: the image is good but cannot be selected.
SelectionFails == OtaFail /\ boot' = running

UploadFails == TransferFails \/ SignatureRejected \/ SelectionFails

\* The new image is selected; the device restarts unless the answer cannot be
\* sent.
UploadDone ==
  /\ writing
  /\ boot' = Other(running)
  /\ state' = [state EXCEPT ![Other(running)] = "new"]
  /\ bad' \in {bad \ {Other(running)}, bad \cup {Other(running)}}
  /\ tries' = [tries EXCEPT ![Other(running)] = 0]
  /\ \/ Reset
     \/ writing' = FALSE /\ UNCHANGED <<pc, en, crashCount, pending>>
  /\ UNCHANGED <<stored, dmxcrash, boottry, running, hw, lost, cuts, faults, uploads>>

\* config_save writes the outputs as they are enabled in memory.
ConfigSave ==
  /\ pc = "up"
  /\ stored' = en
  /\ UNCHANGED <<pc, dmxcrash, boottry, state, boot, running, memory, world, lost,
                 tries, faults>>

Restart ==
  /\ pc = "up"
  /\ Reset
  /\ UNCHANGED <<flash, running, world, lost, tries, faults>>

Use == UploadBegin \/ UploadFails \/ UploadDone \/ ConfigSave \/ Restart

Next == Booting \/ BootloaderAborts \/ Panic \/ PowerCut \/ Use

Spec == Init /\ [][Next]_vars

\* The processor runs: a boot goes on until the device is up or has panicked.
FairSpec == Spec /\ WF_vars(Booting \/ Panic)

-----------------------------------------------------------------------------
(***************************************************************************)
(* Correctness.                                                            *)
(***************************************************************************)
\* The types of all variables but the two flags.
WordsOK ==
  /\ pc \in {"off", "ota", "guard", "init", "end", "window", "services", "settle",
             "healthy", "up"}
  /\ stored \in SUBSET Output /\ en \in SUBSET Output
  /\ dmxcrash \in 0..CountMod-1 /\ crashCount \in 0..CountMod-1
  /\ boottry \in 0..RetryMax
  /\ state \in [Part -> {"empty", "torn", "new", "pending", "valid", "invalid"}]
  /\ boot \in Part /\ running \in Part
  /\ hw \in Board /\ bad \in SUBSET Part
  /\ lost \in 0..CountMod-1 /\ tries \in [Part -> Nat]
  /\ cuts \in 0..MaxCuts /\ faults \in 0..MaxFaults /\ uploads \in 0..MaxUploads

FlagsOK == pending \in BOOLEAN /\ writing \in BOOLEAN

\* The types of all variables; the counters wrap or stop within their words.
TypeOK == WordsOK /\ FlagsOK

\* The crash counter in flash is the number of boots in a row that did not
\* survive the stability window, and the outputs initialized are those that
\* this number leaves (dmxInitGuardBegin, dmxInitGuardEnd).
CrashesCounted ==
  faults = 0 =>
    /\ dmxcrash = IF pc = "window" THEN (lost + 1) % CountMod ELSE lost
    /\ pc \in {"init", "end", "window"} =>
         /\ crashCount = lost
         /\ en \cap Suspects(lost) = {}

\* An image on trial can always be given up: the other partition holds an
\* image that was once healthy (otaRecoveryInit, ota_upload_handler).
FallbackExists ==
  \A p \in Part : state[p] \in {"new", "pending"} => state[Other(p)] = "valid"

\* A new image is started at most RetryMax times before it is healthy or
\* given up, each access to flash that failed allowing one more.
TriesBounded ==
  \A p \in Part : state[p] = "pending" => tries[p] <= RetryMax + faults

\* There is always a partition to run from, and the one that runs is whole.
SomeValid ==
  /\ \A p \in Part : state[p] # "valid" => state[Other(p)] = "valid"
  /\ pc # "off" => state[running] \in {"valid", "pending"}
  /\ writing => pc = "up" /\ state[running] = "valid" /\ state[Other(running)] = "torn"

\* A new image is selected for the next boot, and an image on trial for every
\* boot until the trial is over.
TrialSelected ==
  \A p \in Part :
    /\ state[p] = "new" => boot = p /\ pc \in {"off", "up"} /\ tries[p] = 0
    /\ state[p] = "pending" => boot = p /\ (pc # "off" => running = p)

\* A trial counts in flash what the history counts.
TriesCounted ==
  \A p \in Part :
    state[p] = "pending" =>
      /\ tries[p] <= boottry + faults
      /\ faults = 0 => tries[p] = boottry

\* Without faults the counter is clear when a new image is installed.
CounterClear ==
  /\ pc = "healthy" => state[running] = "valid"
  /\ pc = "settle" => pending
  /\ pc \in {"off", "ota"} => ~pending
  /\ pending => state[running] = "pending"
  /\ faults = 0 =>
       /\ \A p \in Part : state[p] = "new" => boottry = 0
       /\ pc \in {"guard", "init", "end", "window", "services", "up"} =>
            \/ pending /\ pc # "up"
            \/ boottry = 0 /\ state[running] = "valid"

\* The inductive invariant of the two guards.
IInv ==
  /\ TypeOK
  /\ SomeValid
  /\ TrialSelected
  /\ TriesCounted
  /\ CounterClear
  /\ CrashesCounted

\* While flash can be read and written, no image is given up by the recovery
\* guard before it has been started RetryMax times: what an earlier update
\* left in the counter does not count (the clearing in otaRecoveryInit).
RollbackEarned ==
  [][pc = "ota" /\ pc' = "off" /\ state'[running] = "invalid" /\ faults = 0 =>
       tries[running] = RetryMax]_vars

\* A device whose outputs fail only inside the stability window comes up again
\* after every boot, whatever image it was given: failing outputs are isolated
\* one after the other, bad images are given up.
DeviceComesUp == (hw.init = {}) => []<>(pc = "up")

\* An image does not stay on trial (otaRecoveryMarkHealthy and the rollback),
\* unless an access to flash fails.
TrialEnds ==
  \A p \in Part :
    state[p] = "pending" /\ faults = 0 ~> state[p] # "pending" \/ faults > 0

\* "A faulty output pin or RMT channel configuration that causes a panic during
\* outputInitAll is progressively isolated" (35-crash-guard-spec.md, 10).  The
\* counter is written after outputInitAll, so such a panic leaves no trace.
FaultyOutputIsolated == []<>(pc = "up")

\* The guard's disabling "is a runtime, in-RAM mutation of the Config struct -
\* it is not persisted to NVS configuration" (35-crash-guard-spec.md, 5).  No
\* action here disables an output on purpose, and on a board with pins for all
\* outputs only the guard does; saving any setting stores what it disabled.
StoredOutputsKept == [][hw.pinless = {} => stored' = stored]_vars

=============================================================================
