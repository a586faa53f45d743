---------------------------- MODULE ConfigStore ----------------------------
(***************************************************************************)
(* The configuration engine (config_engine.c, config_schema.c,             *)
(* config_json.c, config_serial.c): the settings in memory, their copies   *)
(* in flash, and the operations that move values between them.  Flash is   *)
(* written one key at a time and every key is durable at once; power may   *)
(* be cut between any two keys, and the code ignores a write that fails.   *)
(* A key in flash has a type of its own: it is read only as that type, and *)
(* writing it as another one replaces it.                                  *)
(*                                                                         *)
(* The operations run one at a time: at start in app_main, afterwards in   *)
(* the task of the web server.                                             *)
(***************************************************************************)
EXTENDS Integers, Sequences, SequencesExt, TLC

CONSTANTS
  Global,     \* The keys of CONFIG_FIELDS.
  Secret,     \* Those whose values are masked.
  Own,        \* The keys of OUTPUT_FIELDS, of every output.
  Legacy,     \* Those that had another name in older firmware (o0_, o1_).
  Val,        \* The values.
  Kind,       \* Kind[f]: the type f is saved as, and read as.
  InRange,    \* InRange[f]: those a setting may have.
  Older,      \* What older firmware left in flash: values of some type.
  Chip,       \* The chip: "ESP32", "ESP32S3" or another one.
  Psram,      \* It has PSRAM.
  BaseLines,  \* The lines of the base template.
  BoardLines, \* BoardLines[b]: those that board b adds.
  BoardLed,   \* BoardLed[b]: the fields of the LED on board b.
  Mask,       \* What an export shows for a secret.
  Absent,     \* No value in flash.
  MaxCuts,    \* Bound: power cuts.
  MaxFaults   \* Bound: failed accesses to flash.

Field == Global \cup Own

\* detect_board.
Board ==
  IF ~Psram THEN "ESP32DEV"
  ELSE CASE Chip = "ESP32S3" -> "ESP32S3_N16R8"
         [] Chip = "ESP32" -> "WT32ETH01"
         [] OTHER -> "ESP32DEV"

\* config_get_board_template_text: each board extends the base template.
Lines == BaseLines \o BoardLines[Board]

\* config_apply_template_text: a line with a value out of range is ignored.
ApplyLine(c, line) ==
  IF line.val \in InRange[line.key] THEN [c EXCEPT ![line.key] = line.val] ELSE c

Applied == FoldLeft(ApplyLine, [f \in Field |-> 0], Lines)

\* config_reset_to_template: all zero, then the lines of the template, then the
\* LED of the board, unchecked.
Template == BoardLed[Board] @@ Applied

\* The types of nvs_set_i32, nvs_set_u8 and nvs_set_str.
Type == {"i32", "u8", "str"}
Entry == [type : Type, val : Val]
Cell == Entry \cup {Absent}

\* config_save and config_save_outputs write f as its own type.
Put(f, v) == [type |-> Kind[f], val |-> v]

\* config_load and config_load_outputs read f as its own type.
Readable(f, cell) == cell # Absent /\ cell.type = Kind[f]

\* migrateNvsKeys looks for a string, then for an integer, whatever the field is.
Migrates(cell) == cell # Absent /\ cell.type \in {"str", "i32"}

ASSUME FieldAssumption ==
  /\ Global \cap Own = {}
  /\ Secret \subseteq Global
  /\ DOMAIN BoardLed[Board] \subseteq Global
  /\ Legacy \subseteq Own

ASSUME ValueAssumption ==
  /\ 0 \in Val /\ Mask \in Val /\ Absent \notin Val /\ Absent \notin Entry
  /\ Kind \in [Field -> Type] /\ Older \subseteq Entry
  /\ InRange \in [Field -> SUBSET Val]
  /\ MaxCuts \in Nat /\ MaxFaults \in Nat

\* Every field of CONFIG_FIELDS whose range excludes zero has a line, and the
\* board table is in range.
ASSUME TemplateAssumption ==
  /\ Template \in [Field -> Val]
  /\ \A g \in Global : Template[g] \in InRange[g]

VARIABLES
  cfg,      \* The settings in memory.
  flash,    \* The settings in flash.
  old,      \* The settings that flash still has under their old names.
  pc,       \* The operation that runs.
  cur,      \* The key a migration has copied and not yet erased.
  todo,     \* The keys the operation has still to visit.
  clean,    \* The operation has met no fault.
  allowed,  \* History: allowed[f], what flash may hold for f.
  cuts, faults  \* Bounds.

bounds == <<cuts, faults>>
vars == <<cfg, flash, old, pc, cur, todo, clean, allowed, cuts, faults>>

\* Older firmware stored values in range or not: of the type of the field under
\* its name of today, of any type under the old one.
Init ==
  /\ cfg = [f \in Field |-> 0]
  /\ flash \in [Field -> Older \cup {Absent}]
  /\ \A f \in Field : flash[f] # Absent => Readable(f, flash[f])
  /\ old \in [Legacy -> Older \cup {Absent}]
  /\ pc = "off" /\ cur = Absent /\ todo = {} /\ clean = TRUE
  /\ allowed = [f \in Field |->
                  {IF f \in Legacy /\ Migrates(old[f]) THEN old[f] ELSE flash[f]}]
  /\ cuts = 0 /\ faults = 0

Fault ==
  /\ faults < MaxFaults
  /\ faults' = faults + 1
  /\ UNCHANGED cuts

-----------------------------------------------------------------------------
(***************************************************************************)
(* config_engine_init: migrateNvsKeys and config_load.                     *)
(***************************************************************************)
PowerOn ==
  /\ pc = "off"
  /\ pc' = "migrate" /\ todo' = Legacy
  /\ UNCHANGED <<cfg, flash, old, cur, clean, allowed, bounds>>

\* nvs_flash_init finds no free page or another format: all is erased.
PowerOnErased ==
  /\ pc = "off"
  /\ Fault
  /\ flash' = [f \in Field |-> Absent]
  /\ old' = [f \in Legacy |-> Absent]
  /\ allowed' = [f \in Field |-> {Absent}]
  /\ pc' = "migrate" /\ todo' = Legacy
  /\ UNCHANGED <<cfg, cur, clean>>

\* What flash holds under a new name counts when the old one is not copied.
Forgives(fs) == [f \in Field |->
  IF f \in fs /\ Migrates(old[f]) THEN allowed[f] \cup {flash[f]} ELSE allowed[f]]

\* An old key of another type is not seen and stays; one that cannot be read is
\* not seen this time.
MigrateSkip(f) ==
  /\ pc = "migrate"
  /\ f \in todo
  /\ \/ ~Migrates(old[f]) /\ UNCHANGED <<allowed, bounds>>
     \/ Migrates(old[f]) /\ Fault /\ allowed' = Forgives({f})
  /\ todo' = todo \ {f}
  /\ UNCHANGED <<cfg, flash, old, pc, cur, clean>>

\* Mutant: a key that exists under its new name is taken for migrated.
MigrateCopySkips(f) ==
  /\ pc = "migrate"
  /\ f \in todo
  /\ Migrates(old[f])
  /\ flash' = [flash EXCEPT ![f] = IF @ = Absent THEN old[f] ELSE @]
  /\ cur' = f
  /\ pc' = "erase"
  /\ UNCHANGED <<cfg, old, todo, clean, allowed, bounds>>

\* The value is copied with the type it had under the old name.
MigrateCopy(f) ==
  /\ pc = "migrate"
  /\ f \in todo
  /\ Migrates(old[f])
  /\ \/ flash' = [flash EXCEPT ![f] = old[f]] /\ UNCHANGED <<allowed, bounds>>
     \/ Fault /\ allowed' = Forgives({f}) /\ UNCHANGED flash
  /\ cur' = f
  /\ pc' = "erase"
  /\ UNCHANGED <<cfg, old, todo, clean>>

\* The old key is erased whether its value was copied or not.
MigrateErase ==
  /\ pc = "erase"
  /\ \/ old' = [old EXCEPT ![cur] = Absent] /\ UNCHANGED bounds
     \/ Fault /\ UNCHANGED old
  /\ todo' = todo \ {cur}
  /\ cur' = Absent
  /\ pc' = "migrate"
  /\ UNCHANGED <<cfg, flash, clean, allowed>>

\* The keys are migrated, or flash cannot be opened and none is.
MigrateDone ==
  /\ pc = "migrate"
  /\ \/ todo = {} /\ UNCHANGED <<allowed, bounds>>
     \/ todo = Legacy /\ Fault /\ allowed' = Forgives(Legacy)
  /\ pc' = "load"
  /\ todo' = {}
  /\ UNCHANGED <<cfg, flash, old, cur, clean>>

\* Mutant: a global setting is loaded whatever its value.
OverlayUnchecked(f, cell) == IF ~Readable(f, cell) THEN Template[f] ELSE cell.val

\* A setting is loaded if flash has it with its type and, for a global one, in
\* range; otherwise that of the template stays.
Overlay(f, cell) ==
  IF ~Readable(f, cell) \/ (f \in Global /\ cell.val \notin InRange[f])
  THEN Template[f] ELSE cell.val

\* config_load: the global keys, then those of the outputs; flash cannot be opened
\* for the one or the other, or a key cannot be read.
Load ==
  /\ pc = "load"
  /\ \E unread \in {{}, Global, Own} \cup {{f} : f \in Field} :
       /\ IF unread = {} THEN UNCHANGED bounds ELSE Fault
       /\ cfg' = [f \in Field |-> Overlay(f, IF f \in unread THEN Absent ELSE flash[f])]
  /\ pc' = "idle"
  /\ UNCHANGED <<flash, old, cur, todo, clean, allowed>>

-----------------------------------------------------------------------------
(***************************************************************************)
(* Changing the settings in memory.                                        *)
(***************************************************************************)
\* config_validate_value and config_validate_output_value.
Validates(f, v) == v \in InRange[f]

\* config_set_value and config_set_output_value.
SetValue(f, v) ==
  /\ pc = "idle"
  /\ Validates(f, v)
  /\ cfg' = [cfg EXCEPT ![f] = v]
  /\ UNCHANGED <<flash, old, pc, cur, todo, clean, allowed, bounds>>

\* The commands "reset" and "load".
ResetToTemplate ==
  /\ pc = "idle"
  /\ cfg' = Template
  /\ UNCHANGED <<flash, old, pc, cur, todo, clean, allowed, bounds>>

Reload ==
  /\ pc = "idle"
  /\ pc' = "load"
  /\ UNCHANGED <<cfg, flash, old, cur, todo, clean, allowed, bounds>>

\* config_export_json: a document has a value or none for each global key; a
\* secret that is not empty is masked.
Exported(c) == [g \in Global |-> IF g \in Secret /\ c[g] # 0 THEN Mask ELSE c[g]]

\* config_serial_dump: what the console lists.
Dumped(c) == Exported(c)

\* Mutant: secrets are imported like the other fields.
ImportedSecrets(c, doc) == [f \in Field |->
  IF f \in Global /\ doc[f] \in InRange[f] THEN doc[f] ELSE c[f]]

\* config_import_json.
Imported(c, doc) == [f \in Field |->
  IF f \in Global \ Secret /\ doc[f] \in InRange[f] THEN doc[f] ELSE c[f]]

-----------------------------------------------------------------------------
(***************************************************************************)
(* config_save and the factory reset, key by key.                          *)
(***************************************************************************)
\* Flash is about to be written: until that is done it may hold both values.
SaveOf(c) ==
  /\ pc' = "save"
  /\ todo' = Field
  /\ clean' = TRUE
  /\ allowed' = [f \in Field |-> allowed[f] \cup {Put(f, c[f])}]
  /\ UNCHANGED <<flash, old, cur, bounds>>

SaveBegin ==
  /\ pc = "idle"
  /\ SaveOf(cfg)
  /\ UNCHANGED cfg

\* config_post_handler: what was imported stays in memory if flash cannot be
\* opened and the save is refused.
Post(doc) ==
  /\ pc = "idle"
  /\ cfg' = Imported(cfg, doc)
  /\ \/ SaveOf(cfg')
     \/ Fault /\ UNCHANGED <<flash, old, pc, cur, todo, clean, allowed>>

\* The global keys come first.
NextKey(f) == f \in todo /\ (f \in Own => todo \cap Global = {})

SaveKey(f) ==
  /\ pc = "save"
  /\ NextKey(f)
  /\ \/ flash' = [flash EXCEPT ![f] = Put(f, cfg[f])] /\ UNCHANGED <<clean, bounds>>
     \/ Fault /\ clean' = FALSE /\ UNCHANGED flash
  /\ todo' = todo \ {f}
  /\ UNCHANGED <<cfg, old, pc, cur, allowed>>

\* config_save_outputs cannot open flash: it returns and the save succeeds.
SaveOutputsSkipped ==
  /\ pc = "save"
  /\ todo = Own
  /\ Fault
  /\ clean' = FALSE
  /\ todo' = {}
  /\ UNCHANGED <<cfg, flash, old, pc, cur, allowed>>

\* Mutant: the save is over when the global keys are written.
SaveDoneEarly ==
  /\ pc = "save"
  /\ todo \subseteq Own
  /\ allowed' = IF clean THEN [f \in Field |-> {Put(f, cfg[f])}] ELSE allowed
  /\ pc' = "idle" /\ todo' = {}
  /\ UNCHANGED <<cfg, flash, old, cur, clean, bounds>>

\* An old name that is still in flash is migrated over the saved value.
SaveDone ==
  /\ pc = "save"
  /\ todo = {}
  /\ allowed' = IF clean
                THEN [f \in Field |-> {Put(f, cfg[f])} \cup
                        IF f \in Legacy /\ Migrates(old[f]) THEN {old[f]} ELSE {}]
                ELSE allowed
  /\ pc' = "idle"
  /\ UNCHANGED <<cfg, flash, old, cur, todo, clean, bounds>>

\* factory_reset: only the global keys are visited.
FactoryBegin ==
  /\ pc = "idle"
  /\ cfg' = Template
  /\ pc' = "factory"
  /\ todo' = Global
  /\ allowed' = [f \in Field |-> allowed[f] \cup IF f \in Global THEN {Absent} ELSE {}]
  /\ clean' = TRUE
  /\ UNCHANGED <<flash, old, cur, bounds>>

FactoryKey(g) ==
  /\ pc = "factory"
  /\ g \in todo
  /\ \/ flash' = [flash EXCEPT ![g] = Absent] /\ UNCHANGED <<clean, bounds>>
     \/ Fault /\ clean' = FALSE /\ UNCHANGED flash
  /\ todo' = todo \ {g}
  /\ UNCHANGED <<cfg, old, pc, cur, allowed>>

FactoryDone ==
  /\ pc = "factory"
  /\ todo = {}
  /\ allowed' = [f \in Field |-> IF clean /\ f \in Global THEN {Absent} ELSE allowed[f]]
  /\ pc' = "idle"
  /\ UNCHANGED <<cfg, flash, old, cur, todo, clean, bounds>>

\* A reboot between two operations, or a power cut: memory is lost.
Down ==
  /\ pc' = "off" /\ cur' = Absent /\ todo' = {} /\ clean' = TRUE
  /\ cfg' = [f \in Field |-> 0]
  /\ UNCHANGED <<flash, old, allowed, faults>>

Reboot == pc = "idle" /\ Down /\ UNCHANGED cuts

PowerCut ==
  /\ pc # "off"
  /\ cuts < MaxCuts
  /\ cuts' = cuts + 1
  /\ Down

Starting ==
  \/ PowerOn \/ PowerOnErased
  \/ \E f \in Legacy : MigrateSkip(f) \/ MigrateCopy(f)
  \/ MigrateErase \/ MigrateDone \/ Load

Saving ==
  \/ \E f \in Field : SaveKey(f)
  \/ SaveOutputsSkipped \/ SaveDone
  \/ \E g \in Global : FactoryKey(g)
  \/ FactoryDone

Using ==
  \/ \E f \in Field, v \in Val : SetValue(f, v)
  \/ ResetToTemplate \/ Reload \/ SaveBegin \/ FactoryBegin
  \/ \E doc \in [Global -> Val \cup {Absent}] : Post(doc)

Next == Starting \/ Saving \/ Using \/ Reboot \/ PowerCut

Spec == Init /\ [][Next]_vars

-----------------------------------------------------------------------------
(***************************************************************************)
(* Correctness.                                                            *)
(***************************************************************************)
\* The types of all variables; what a migration and a reset have left to do.
TypeOK ==
  /\ cfg \in [Field -> Val]
  /\ flash \in [Field -> Cell]
  /\ old \in [Legacy -> Cell]
  /\ pc \in {"off", "migrate", "erase", "load", "idle", "save", "factory"}
  /\ cur \in Legacy \cup {Absent}
  /\ pc = "erase" => cur \in todo
  /\ todo \in SUBSET Field
  /\ pc \in {"migrate", "erase"} => todo \subseteq Legacy
  /\ pc = "factory" => todo \subseteq Global
  /\ clean \in BOOLEAN
  /\ allowed \in [Field -> SUBSET Cell]
  /\ cuts \in 0..MaxCuts /\ faults \in 0..MaxFaults

\* Whatever flash holds and however it is changed, a global setting in memory
\* is in its range once the settings are loaded (config_load, config_set_value,
\* config_import_json each check it on their own).
GlobalsInRange ==
  pc \in {"idle", "save", "factory"} => \A g \in Global : cfg[g] \in InRange[g]

\* A document that was exported changes nothing when it is imported again: no
\* value is refused and no mask becomes a password (config_export_json,
\* config_import_json); and no value on the console's list would be refused if
\* it was typed in again (config_serial_dump, config_set_value).
ExportImports ==
  pc = "idle" =>
    /\ Imported(cfg, Exported(cfg)) = cfg
    /\ \A g \in Global \ Secret : Validates(g, Dumped(cfg)[g])

\* A start finds for each setting what was saved last, or left by older firmware
\* under its old name or else under that of today, whatever was interrupted
\* meanwhile; an interrupted save leaves the old value or the new one.  A value
\* that was left under the old name with a type that is not the field's counts
\* as none: the setting is that of the template (migrateNvsKeys, config_load,
\* config_save).
StartRestores ==
  [][pc = "load" /\ pc' = "idle" /\ faults' = faults =>
       \A f \in Field : \E cell \in allowed[f] : cfg'[f] = Overlay(f, cell)]_vars

\* Flash holds an allowed value, or will when the migration is over.
Stored ==
  \A f \in Field :
    \/ flash[f] \in allowed[f]
    \/ /\ f \in Legacy /\ Migrates(old[f])
       /\ pc \in {"off", "migrate", "erase"}
       /\ pc # "off" => f \in todo
       /\ pc = "erase" => f # cur

\* What is left under an old name will be found at the next start.
OldAllowed == \A f \in Legacy : Migrates(old[f]) => old[f] \in allowed[f]

\* What a save, or a factory reset, has done so far.
Progress ==
  /\ pc = "save" => \A f \in Field :
       /\ Put(f, cfg[f]) \in allowed[f]
       /\ clean /\ f \notin todo => flash[f] = Put(f, cfg[f])
  /\ pc = "factory" => \A g \in Global :
       /\ Absent \in allowed[g]
       /\ clean /\ g \notin todo => flash[g] = Absent

\* The inductive invariant.
IInv ==
  /\ TypeOK
  /\ GlobalsInRange
  /\ Stored
  /\ OldAllowed
  /\ Progress

\* "Legacy output keys for outputs 0 and 1 are renamed" (02-config-engine-spec.md,
\* 6): when the old key goes, the new one can be read.
LegacyRenamed ==
  [][pc = "erase" /\ old' # old /\ faults = 0 => Readable(cur, flash[cur])]_vars

\* "factory: erase all NVS keys and reset to template" (config_serial.c:132): once
\* the reset is over flash holds no setting.
FactoryForgets ==
  [][pc = "factory" /\ pc' = "idle" /\ clean => \A f \in Field : flash'[f] = Absent]_vars

=============================================================================
