------------------------ MODULE ConfigStoreProofs ------------------------
(***************************************************************************)
(* Proofs about the configuration store, for any fields, values, ranges,   *)
(* templates and boards.  The template itself is left folded: what counts  *)
(* is that it is in range.                                                 *)
(***************************************************************************)
EXTENDS ConfigStore, TLAPS

\* What a save writes is a cell; what older firmware left is one; none is not
\* migrated.
LEMMA CellsFit ==
  /\ \A f \in Field, v \in Val : Put(f, v) \in Cell
  /\ Older \cup {Absent} \subseteq Cell
  /\ Absent \in Cell /\ ~Migrates(Absent)
BY ValueAssumption DEF Put, Entry, Cell, Migrates

\* A start yields settings in memory, and global ones in range.
LEMMA OverlayFits ==
  ASSUME NEW f \in Field, NEW cell \in Cell
  PROVE  /\ Overlay(f, cell) \in Val
         /\ f \in Global => Overlay(f, cell) \in InRange[f]
<1>1. f \in Global => Template[f] \in InRange[f]
  BY TemplateAssumption
<1>2. Template[f] \in Val
  BY TemplateAssumption
<1> QED
  BY <1>1, <1>2 DEF Overlay, Readable, Cell, Entry

\* An import keeps the settings well-typed and the global ones in range.
LEMMA ImportFits ==
  ASSUME NEW c \in [Field -> Val], NEW doc \in [Global -> Val \cup {Absent}]
  PROVE  /\ Imported(c, doc) \in [Field -> Val]
         /\ \A g \in Global :
              c[g] \in InRange[g] => Imported(c, doc)[g] \in InRange[g]
<1>1. \A f \in Field : InRange[f] \subseteq Val
  BY ValueAssumption
<1> QED
  BY <1>1 DEF Imported, Field

LEMMA InitHolds == Init => IInv
<1> SUFFICES ASSUME Init PROVE IInv
  OBVIOUS
<1> USE FieldAssumption, ValueAssumption
<1>1. TypeOK
  BY CellsFit DEF Init, TypeOK, Field
<1>2. Stored /\ OldAllowed
  BY DEF Init, Stored, OldAllowed, Field
<1> QED
  BY <1>1, <1>2 DEF Init, IInv, GlobalsInRange, Progress

LEMMA StepHolds == IInv /\ [Next]_vars => IInv'
<1> SUFFICES ASSUME IInv, [Next]_vars PROVE IInv'
  OBVIOUS
<1> USE FieldAssumption, ValueAssumption, CellsFit
<1> USE DEF IInv, TypeOK, GlobalsInRange, Stored, OldAllowed, Progress
<1>1. CASE UNCHANGED vars
  BY <1>1 DEF vars, bounds
<1>2. CASE PowerOn
  BY <1>2 DEF PowerOn, bounds, Field
<1>3. CASE PowerOnErased
  BY <1>3 DEF PowerOnErased, Fault, Field
<1>4. ASSUME NEW f \in Legacy, MigrateSkip(f) PROVE IInv'
  <2>1. CASE ~Migrates(old[f]) /\ UNCHANGED <<allowed, bounds>>
    BY <1>4, <2>1 DEF MigrateSkip, bounds
  <2>2. CASE Migrates(old[f]) /\ Fault /\ allowed' = Forgives({f})
    BY <1>4, <2>2 DEF MigrateSkip, Fault, Forgives, bounds, Field
  <2> QED
    BY <1>4, <2>1, <2>2 DEF MigrateSkip
<1>5. ASSUME NEW f \in Legacy, MigrateCopy(f) PROVE IInv'
  BY <1>5 DEF MigrateCopy, Fault, Forgives, bounds, Field
<1>6. CASE MigrateErase
  BY <1>6 DEF MigrateErase, Fault, bounds
<1>7. CASE MigrateDone
  BY <1>7 DEF MigrateDone, Fault, Forgives, bounds, Field
<1>8. CASE Load
  BY <1>8, OverlayFits DEF Load, Fault, bounds, Field
<1>9. ASSUME NEW f \in Field, NEW v \in Val, SetValue(f, v) PROVE IInv'
  BY <1>9 DEF SetValue, Validates, bounds, Field
<1>10. CASE ResetToTemplate
  BY <1>10, TemplateAssumption DEF ResetToTemplate, bounds
<1>11. CASE Reload
  BY <1>11 DEF Reload, bounds
<1>12. CASE SaveBegin
  BY <1>12 DEF SaveBegin, SaveOf, bounds, Field
<1>13. CASE FactoryBegin
  BY <1>13, TemplateAssumption DEF FactoryBegin, bounds, Field
<1>14. ASSUME NEW doc \in [Global -> Val \cup {Absent}], Post(doc) PROVE IInv'
  <2>1. cfg' = Imported(cfg, doc) /\ pc = "idle"
    BY <1>14 DEF Post
  <2>2. cfg' \in [Field -> Val] /\ \A g \in Global : cfg'[g] \in InRange[g]
    BY <2>1, ImportFits
  <2>3. CASE SaveOf(cfg')
    <3>1. TypeOK'
      BY <2>2, <2>3 DEF SaveOf, bounds
    <3>2. Stored' /\ OldAllowed'
      BY <2>1, <2>3 DEF SaveOf, bounds, Field
    <3>3. Progress'
      BY <2>3 DEF SaveOf, bounds, Field
    <3> QED
      BY <2>2, <3>1, <3>2, <3>3
  <2>4. CASE Fault /\ UNCHANGED <<flash, old, pc, cur, todo, clean, allowed>>
    BY <2>1, <2>2, <2>4 DEF Fault
  <2> QED
    BY <1>14, <2>3, <2>4 DEF Post
<1>15. ASSUME NEW f \in Field, SaveKey(f) PROVE IInv'
  <2>1. CASE flash' = [flash EXCEPT ![f] = Put(f, cfg[f])] /\ UNCHANGED <<clean, bounds>>
    <3>1. TypeOK'
      BY <1>15, <2>1 DEF SaveKey, bounds, Field
    <3>2. GlobalsInRange' /\ OldAllowed' /\ Stored'
      BY <1>15, <2>1 DEF SaveKey, Field
    <3>3. Progress'
      BY <1>15, <2>1 DEF SaveKey, Field
    <3> QED
      BY <3>1, <3>2, <3>3
  <2>2. CASE Fault /\ clean' = FALSE /\ UNCHANGED flash
    <3>1. TypeOK'
      <4>1. clean' \in BOOLEAN
        BY <2>2
      <4>2. /\ pc = "save" /\ todo' = todo \ {f} /\ Fault
            /\ UNCHANGED <<cfg, flash, old, pc, cur, allowed>>
        BY <1>15, <2>2 DEF SaveKey
      <4>3. faults' \in 0..MaxFaults /\ cuts' \in 0..MaxCuts
        BY <4>2 DEF Fault
      <4> QED
        BY <4>1, <4>2, <4>3
    <3>2. GlobalsInRange' /\ OldAllowed' /\ Stored'
      BY <1>15, <2>2 DEF SaveKey
    <3>3. Progress'
      BY <1>15, <2>2 DEF SaveKey
    <3> QED
      BY <3>1, <3>2, <3>3
  <2> QED
    BY <1>15, <2>1, <2>2 DEF SaveKey
<1>16. CASE SaveOutputsSkipped
  <2>1. TypeOK'
    <3>1. clean' \in BOOLEAN
      BY <1>16 DEF SaveOutputsSkipped
    <3>2. /\ pc = "save" /\ todo' = {} /\ Fault
          /\ UNCHANGED <<cfg, flash, old, pc, cur, allowed>>
      BY <1>16 DEF SaveOutputsSkipped
    <3>3. faults' \in 0..MaxFaults /\ cuts' \in 0..MaxCuts
      BY <3>2 DEF Fault
    <3> QED
      BY <3>1, <3>2, <3>3
  <2>2. GlobalsInRange' /\ OldAllowed' /\ Stored'
    BY <1>16 DEF SaveOutputsSkipped
  <2>3. Progress'
    BY <1>16 DEF SaveOutputsSkipped
  <2> QED
    BY <2>1, <2>2, <2>3
<1>17. CASE SaveDone
  BY <1>17 DEF SaveDone, bounds, Field
<1>18. ASSUME NEW g \in Global, FactoryKey(g) PROVE IInv'
  <2>1. CASE flash' = [flash EXCEPT ![g] = Absent] /\ UNCHANGED <<clean, bounds>>
    <3>1. TypeOK'
      BY <1>18, <2>1 DEF FactoryKey, bounds, Field
    <3>2. GlobalsInRange' /\ OldAllowed' /\ Stored'
      BY <1>18, <2>1 DEF FactoryKey, Field
    <3>3. Progress'
      BY <1>18, <2>1 DEF FactoryKey, Field
    <3> QED
      BY <3>1, <3>2, <3>3
  <2>2. CASE Fault /\ clean' = FALSE /\ UNCHANGED flash
    <3>1. TypeOK'
      <4>1. clean' \in BOOLEAN
        BY <2>2
      <4>2. /\ pc = "factory" /\ todo' = todo \ {g} /\ Fault
            /\ UNCHANGED <<cfg, flash, old, pc, cur, allowed>>
        BY <1>18, <2>2 DEF FactoryKey
      <4>3. faults' \in 0..MaxFaults /\ cuts' \in 0..MaxCuts
        BY <4>2 DEF Fault
      <4> QED
        BY <4>1, <4>2, <4>3
    <3>2. GlobalsInRange' /\ OldAllowed' /\ Stored'
      BY <1>18, <2>2 DEF FactoryKey
    <3>3. Progress'
      BY <1>18, <2>2 DEF FactoryKey
    <3> QED
      BY <3>1, <3>2, <3>3
  <2> QED
    BY <1>18, <2>1, <2>2 DEF FactoryKey
<1>19. CASE FactoryDone
  BY <1>19 DEF FactoryDone, bounds, Field
<1>20. CASE Reboot
  BY <1>20 DEF Reboot, Down, Field
<1>21. CASE PowerCut
  BY <1>21 DEF PowerCut, Down, Field
<1> QED
  BY <1>1, <1>2, <1>3, <1>4, <1>5, <1>6, <1>7, <1>8, <1>9, <1>10, <1>11, <1>12, <1>13,
     <1>14, <1>15, <1>16, <1>17, <1>18, <1>19, <1>20, <1>21
  DEF Next, Starting, Saving, Using

\* Types, ranges, and what flash holds: the inductive invariant holds whatever
\* is set, saved, migrated, reset or interrupted.
THEOREM InvariantHolds == Spec => []IInv
BY InitHolds, StepHolds, PTL DEF Spec

\* A start that meets no fault finds for each setting an allowed value.
LEMMA LoadRestores ==
  ASSUME IInv, Next, pc = "load", pc' = "idle", faults' = faults
  PROVE  \A f \in Field : \E cell \in allowed[f] : cfg'[f] = Overlay(f, cell)
<1>1. Load
  BY DEF Next, Starting, Using, Saving, PowerOn, PowerOnErased, MigrateSkip, MigrateCopy,
     MigrateErase, MigrateDone, SetValue, ResetToTemplate, Reload, SaveBegin, FactoryBegin,
     Post, SaveKey, SaveOutputsSkipped, SaveDone, FactoryKey, FactoryDone, Reboot, PowerCut,
     Down
<1>2. ~Fault
  BY DEF Fault, IInv, TypeOK
<1>3. cfg' = [f \in Field |-> Overlay(f, flash[f])]
  BY <1>1, <1>2 DEF Load
<1>4. \A f \in Field : flash[f] \in allowed[f]
  BY DEF IInv, Stored
<1> QED
  BY <1>3, <1>4

\* A start finds for each setting the value that was saved last, or the old or
\* new one if the save was interrupted, or what older firmware left, which is
\* none where it has the type of another field.
THEOREM StartsRestore == Spec => StartRestores
<1>1. IInv /\ [Next]_vars =>
        [pc = "load" /\ pc' = "idle" /\ faults' = faults =>
           \A f \in Field : \E cell \in allowed[f] : cfg'[f] = Overlay(f, cell)]_vars
  BY LoadRestores
<1> QED
  BY <1>1, InvariantHolds, PTL DEF Spec, StartRestores

\* No value that was exported is refused when it is imported again, and nothing
\* that the console lists would be refused if it was typed in.
THEOREM ExportsImport == Spec => []ExportImports
<1>1. IInv => ExportImports
  <2> SUFFICES ASSUME IInv, pc = "idle"
               PROVE  /\ Imported(cfg, Exported(cfg)) = cfg
                      /\ \A g \in Global \ Secret : Validates(g, Dumped(cfg)[g])
    BY DEF ExportImports
  <2>1. cfg \in [Field -> Val] /\ \A g \in Global : cfg[g] \in InRange[g]
    BY DEF IInv, TypeOK, GlobalsInRange
  <2>2. \A g \in Global \ Secret : Exported(cfg)[g] = cfg[g]
    BY DEF Exported
  <2>3. \A f \in Field : Imported(cfg, Exported(cfg))[f] = cfg[f]
    BY <2>2 DEF Imported
  <2>4. Imported(cfg, Exported(cfg)) \in [Field -> Val]
    <3>1. Imported(cfg, Exported(cfg)) =
            [f \in Field |-> Imported(cfg, Exported(cfg))[f]]
      BY DEF Imported
    <3> QED
      BY <2>1, <2>3, <3>1
  <2>5. Imported(cfg, Exported(cfg)) = cfg
    BY <2>1, <2>3, <2>4
  <2> QED
    BY <2>1, <2>2, <2>5, FieldAssumption DEF Validates, Dumped
<1> QED
  BY <1>1, InvariantHolds, PTL

=============================================================================
