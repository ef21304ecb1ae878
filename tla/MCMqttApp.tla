----------------------------- MODULE MCMqttApp -----------------------------
(* The application with a ring that the greeting fills. *)
EXTENDS MqttApp
=============================================================================
