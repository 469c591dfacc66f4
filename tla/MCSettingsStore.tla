-------------------------- MODULE MCSettingsStore --------------------------
(* Values for checking SettingsStore with TLC. *)
EXTENDS SettingsStore

MCClient == {"client"}
MCBoth   == {"client", "server"}
=============================================================================
