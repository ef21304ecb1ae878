-------------------------- MODULE ConfigStoreProofs --------------------------
(***************************************************************************)
(* For every set of configurations: config.c keeps an atomic               *)
(* configuration, whenever power fails.                                    *)
(***************************************************************************)
EXTENDS ConfigStore, TLAPS

USE ConfigAssumption

\* CFG_Save works on the sector that is not current, and the flag is turned
\* over to a sector that has been written.
Target ==
  /\ pc \in {"erase", "write", "flagErase"} => target = OtherSlot
  /\ pc \in {"flagErase", "flagWrite"} => slot[target] = ram
  /\ pc = "flagWrite" => flag = 255

\* The current sector is good, except on a new device, whose first save is that
\* of the defaults into sector 0.
Current ==
  \/ Active \in Configs
  \/ /\ flag # 0 /\ slot[1] = Blank
     /\ pc # "ready" /\ target = 0 /\ ram = Default

Inv == TypeOK /\ Target /\ Current

LEMMA InitInv == Init => Inv
  BY DEF Init, Inv, TypeOK, Target, Current

\* Every flash operation, and every power failure between and within them,
\* keeps the current sector good.
LEMMA NextInv == Inv /\ [Next]_vars => Inv'
<1> SUFFICES ASSUME Inv, [Next]_vars PROVE Inv'
  OBVIOUS
<1> USE DEF Inv, TypeOK, Target, Current, Active, OtherSlot
<1>1. CASE LoadGood
  BY <1>1 DEF LoadGood
<1>2. CASE LoadBad
  BY <1>2 DEF LoadBad
<1>3. ASSUME NEW c \in Configs, Change(c) PROVE Inv'
  BY <1>3 DEF Change
<1>4. CASE CFG_Save
  BY <1>4 DEF CFG_Save
<1>5. CASE EraseSlot
  BY <1>5 DEF EraseSlot
<1>6. CASE WriteSlot
  BY <1>6 DEF WriteSlot
<1>7. CASE EraseFlag
  BY <1>7 DEF EraseFlag
<1>8. CASE WriteFlag
  BY <1>8 DEF WriteFlag
<1>9. CASE PowerLoss
  <2>1. CASE UNCHANGED <<slot, flag>>
    BY <1>9, <2>1 DEF PowerLoss
  <2>2. CASE /\ pc \in {"erase", "write"}
             /\ slot' = [slot EXCEPT ![target] = Torn] /\ UNCHANGED flag
    BY <1>9, <2>2 DEF PowerLoss
  <2>3. CASE pc = "flagErase" /\ flag' \in {0, 1, 255} /\ UNCHANGED slot
    BY <1>9, <2>3 DEF PowerLoss
  <2>4. CASE pc = "flagWrite" /\ flag' \in {1, target} /\ UNCHANGED slot
    BY <1>9, <2>4 DEF PowerLoss
  <2> QED BY <1>9, <2>1, <2>2, <2>3, <2>4 DEF PowerLoss
<1>10. CASE UNCHANGED vars
  BY <1>10 DEF vars
<1> QED BY <1>1, <1>2, <1>3, <1>4, <1>5, <1>6, <1>7, <1>8, <1>9, <1>10 DEF Next

\* Nothing but a configuration gets into sysCfg, whenever power fails.
THEOREM TypeCorrect == Spec => []TypeOK
<1>1. Inv => TypeOK
  BY DEF Inv
<1> QED BY <1>1, InitInv, NextInv, PTL DEF Spec

-----------------------------------------------------------------------------
\* A step of the store is a step of the atomic configuration or none.
LEMMA StepAtomic == Inv /\ Inv' /\ [Next]_vars => [Atomic!Next]_(Atomic!vars)
<1> SUFFICES ASSUME Inv, Inv', [Next]_vars PROVE [Atomic!Next]_(Atomic!vars)
  OBVIOUS
<1> USE DEF Inv, TypeOK, Target, Current, Active, OtherSlot, Stored, Status
<1>1. CASE LoadGood
  <2>1. Atomic!Boot
    BY <1>1 DEF LoadGood, Atomic!Boot
  <2> QED BY <2>1 DEF Atomic!Next
<1>2. CASE LoadBad
  <2>1. Atomic!Boot
    BY <1>2 DEF LoadBad, Atomic!Boot
  <2> QED BY <2>1 DEF Atomic!Next
<1>3. ASSUME NEW c \in Configs, Change(c) PROVE Atomic!Next
  <2>1. Atomic!Change
    BY <1>3 DEF Change, Atomic!Change
  <2> QED BY <2>1 DEF Atomic!Next
<1>4. CASE CFG_Save
  <2>1. Atomic!Save
    BY <1>4 DEF CFG_Save, Atomic!Save
  <2> QED BY <2>1 DEF Atomic!Next
\* The sector that is not current may change unseen.
<1>5. CASE EraseSlot
  BY <1>5 DEF EraseSlot, Atomic!vars
<1>6. CASE WriteSlot
  BY <1>6 DEF WriteSlot, Atomic!vars
\* From 0 the erased flag already selects the new sector.
<1>7. CASE EraseFlag
  <2>1. CASE target = 1
    <3>1. Atomic!Commit
      BY <1>7, <2>1 DEF EraseFlag, Atomic!Commit
    <3> QED BY <3>1 DEF Atomic!Next
  <2>2. CASE target = 0
    BY <1>7, <2>2 DEF EraseFlag, Atomic!vars
  <2> QED BY <2>1, <2>2
<1>8. CASE WriteFlag
  <2>1. Atomic!Return
    BY <1>8 DEF WriteFlag, Atomic!Return
  <2> QED BY <2>1 DEF Atomic!Next
<1>9. CASE PowerLoss
  <2>1. Status # "off" /\ Status' = "off" /\ ram' = Default
    BY <1>9 DEF PowerLoss
  <2>2. UNCHANGED Stored \/ (Status = "saving" /\ Stored' = ram)
    <3>1. CASE UNCHANGED <<slot, flag>>
      BY <3>1
    <3>2. CASE /\ pc \in {"erase", "write"}
               /\ slot' = [slot EXCEPT ![target] = Torn] /\ UNCHANGED flag
      BY <3>2
    <3>3. CASE pc = "flagErase" /\ flag' \in {0, 1, 255} /\ UNCHANGED slot
      BY <3>3
    <3>4. CASE pc = "flagWrite" /\ flag' \in {1, target} /\ UNCHANGED slot
      BY <3>4
    <3> QED BY <1>9, <3>1, <3>2, <3>3, <3>4 DEF PowerLoss
  <2>3. Atomic!PowerLoss
    BY <2>1, <2>2 DEF Atomic!PowerLoss
  <2> QED BY <2>3 DEF Atomic!Next
<1>10. CASE UNCHANGED vars
  BY <1>10 DEF vars, Atomic!vars
<1> QED BY <1>1, <1>2, <1>3, <1>4, <1>5, <1>6, <1>7, <1>8, <1>9, <1>10 DEF Next

\* Whenever power fails, the next boot finds the old configuration or the new
\* one, and the new one once CFG_Save has returned.
THEOREM StoreIsAtomic == Spec => AtomicSpec
<1>1. Init => Atomic!Init
  BY DEF Init, Atomic!Init, Stored, Status, Active
<1> QED BY <1>1, InitInv, NextInv, StepAtomic, PTL DEF Spec, AtomicSpec, Atomic!Spec
=============================================================================
