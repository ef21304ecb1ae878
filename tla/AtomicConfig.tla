---------------------------- MODULE AtomicConfig ----------------------------
(***************************************************************************)
(* What the users of modules/config.c rely on: a configuration in RAM and  *)
(* one that survives power loss.  A save replaces the surviving one at one *)
(* instant, whatever the moment power fails, and has done so when it       *)
(* returns.                                                                *)
(***************************************************************************)
CONSTANTS Configs,   \* the values a SYSCFG can have
          Default    \* the one made from mqtt_config.h

VARIABLES ram,       \* sysCfg
          stored,    \* what a boot would load
          status     \* "off", "idle", "saving" or "saved" (not yet returned)

vars == <<ram, stored, status>>

Init == stored = Default /\ ram = Default /\ status = "off"

\* A boot may save what it has made up itself.
Boot == /\ status = "off"
        /\ ram' = stored
        /\ status' \in {"idle", "saving"}
        /\ UNCHANGED stored

Change == /\ status = "idle"
          /\ ram' \in Configs
          /\ UNCHANGED <<stored, status>>

Save == /\ status = "idle"
        /\ status' = "saving"
        /\ UNCHANGED <<ram, stored>>

Commit == /\ status = "saving"
          /\ status' = "saved" /\ stored' = ram
          /\ UNCHANGED ram

Return == /\ status \in {"saving", "saved"}
          /\ status' = "idle" /\ stored' = ram
          /\ UNCHANGED ram

\* During a save power may fail before or after the instant.
PowerLoss == /\ status # "off"
             /\ status' = "off" /\ ram' = Default
             /\ \/ UNCHANGED stored
                \/ status = "saving" /\ stored' = ram

Next == Boot \/ Change \/ Save \/ Commit \/ Return \/ PowerLoss

Spec == Init /\ [][Next]_vars
=============================================================================
