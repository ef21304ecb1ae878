--------------------------- MODULE MCConfigStore ---------------------------
(* Three configurations and their default, with the two flash contents that *)
(* are none.                                                                *)
EXTENDS ConfigStore

=============================================================================
