---------------------------- MODULE MCPluginWire ----------------------------
(* Instance of PluginWire for TLC: records of three bytes, a socket of seven.*)
EXTENDS PluginWire

=============================================================================
