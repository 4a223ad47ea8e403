--------------------------- MODULE MCPluginSocket ---------------------------
(* Instances of PluginSocket for TLC, with one or two device slots.          *)
EXTENDS PluginSocket

=============================================================================
