----------------------------- MODULE ConfigStore -----------------------------
(***************************************************************************)
(* modules/config.c of esp_mqtt_proj: the configuration is kept in two     *)
(* flash sectors and a third holds the flag that says which is current.    *)
(* CFG_Save writes the other one and then turns the flag over.             *)
(*                                                                         *)
(* One step is one flash operation.  Power may fail between two of them or *)
(* in the middle of one.  A failing operation is reported by spi_flash_*   *)
(* and ignored by the code; the model has no failing operations.           *)
(***************************************************************************)
EXTENDS Integers

CONSTANTS Configs,   \* the values of a SYSCFG with the right cfg_holder
          Default,   \* the one made from mqtt_config.h
          Blank,     \* an erased sector
          Torn       \* a sector power failed on: any bits, any cfg_holder

ASSUME ConfigAssumption ==
  /\ Default \in Configs
  /\ Blank \notin Configs /\ Torn \notin Configs /\ Blank # Torn

VARIABLES
  ram,      \* sysCfg
  slot,     \* the sectors CFG_LOCATION + 0 and + 1
  flag,     \* the flag byte in CFG_LOCATION + 3; 255 when erased
  target,   \* which branch of CFG_Save is taken
  pc

vars == <<ram, slot, flag, target, pc>>

\* What the test saveFlag.flag == 0 selects.
Active == IF flag = 0 THEN slot[0] ELSE slot[1]

\* The types of the state; no garbage ever gets into sysCfg.
TypeOK == /\ ram \in Configs
          /\ slot \in [{0, 1} -> Configs \cup {Blank, Torn}]
          /\ flag \in {0, 1, 255}
          /\ target \in {0, 1}
          /\ pc \in {"off", "ready", "erase", "write", "flagErase", "flagWrite"}

\* A device fresh from the factory.
Init == /\ ram = Default
        /\ slot = [s \in {0, 1} |-> Blank]
        /\ flag = 255
        /\ target = 0
        /\ pc = "off"

-----------------------------------------------------------------------------
\* Mutant: the branches of CFG_Save are swapped.
OtherSlotSwapped == IF flag = 0 THEN 0 ELSE 1

OtherSlot == IF flag = 0 THEN 1 ELSE 0

\* CFG_Load, from user_init.  Only cfg_holder is looked at.
LoadGood == /\ pc = "off"
            /\ Active \in Configs \cup {Torn}
            /\ ram' = Active
            /\ pc' = "ready"
            /\ UNCHANGED <<slot, flag, target>>

\* With the wrong cfg_holder the defaults are taken and saved.
LoadBad == /\ pc = "off"
           /\ Active \in {Blank, Torn}
           /\ ram' = Default
           /\ target' = OtherSlot
           /\ pc' = "erase"
           /\ UNCHANGED <<slot, flag>>

\* The application edits sysCfg.
Change(c) == /\ pc = "ready"
             /\ ram' = c
             /\ UNCHANGED <<slot, flag, target, pc>>

\* CFG_Save, one flash operation at a time.
CFG_Save == /\ pc = "ready"
            /\ target' = OtherSlot
            /\ pc' = "erase"
            /\ UNCHANGED <<ram, slot, flag>>

EraseSlot == /\ pc = "erase"
             /\ slot' = [slot EXCEPT ![target] = Blank]
             /\ pc' = "write"
             /\ UNCHANGED <<ram, flag, target>>

WriteSlot == /\ pc = "write"
             /\ slot' = [slot EXCEPT ![target] = ram]
             /\ pc' = "flagErase"
             /\ UNCHANGED <<ram, flag, target>>

EraseFlag == /\ pc = "flagErase"
             /\ flag' = 255
             /\ pc' = "flagWrite"
             /\ UNCHANGED <<ram, slot, target>>

WriteFlag == /\ pc = "flagWrite"
             /\ flag' = target
             /\ pc' = "ready"
             /\ UNCHANGED <<ram, slot, target>>

-----------------------------------------------------------------------------
\* Power fails.  The sector being erased or written is left torn, the flag
\* being erased with any bits; the flag being written has some of the bits of
\* 255 cleared that the new value clears, so 1 never passes through 0.
PowerLoss ==
  /\ pc # "off"
  /\ pc' = "off" /\ ram' = Default /\ target' = 0
  /\ \/ UNCHANGED <<slot, flag>>
     \/ /\ pc \in {"erase", "write"}
        /\ slot' = [slot EXCEPT ![target] = Torn] /\ UNCHANGED flag
     \/ /\ pc = "flagErase"
        /\ flag' \in {0, 1, 255} /\ UNCHANGED slot
     \/ /\ pc = "flagWrite"
        /\ flag' \in {1, target} /\ UNCHANGED slot

Next == \/ LoadGood \/ LoadBad
        \/ \E c \in Configs : Change(c)
        \/ CFG_Save \/ EraseSlot \/ WriteSlot \/ EraseFlag \/ WriteFlag
        \/ PowerLoss

Spec == Init /\ [][Next]_vars

-----------------------------------------------------------------------------
\* CFG_Save and CFG_Load implement the atomic configuration: what boots after
\* a power loss is the old configuration or the new one, and the new one from
\* the moment CFG_Save returns.
Stored == IF Active \in Configs THEN Active ELSE Default

Status == IF pc = "off" THEN "off"
          ELSE IF pc = "ready" THEN "idle"
          ELSE IF pc = "flagWrite" /\ target = 1 THEN "saved"
          ELSE "saving"

Atomic == INSTANCE AtomicConfig WITH stored <- Stored, status <- Status

AtomicSpec == Atomic!Spec
=============================================================================
