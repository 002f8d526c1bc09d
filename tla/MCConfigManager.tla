--------------------------- MODULE MCConfigManager --------------------------
(* Three configurations: the defaults and two that a user sets.            *)
EXTENDS ConfigManager

Configs == {"default", "home", "plant"}
=============================================================================
