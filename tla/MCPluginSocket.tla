-------------------------- MODULE MCPluginSocket --------------------------
(* Instances of PluginSocket for TLC. *)
EXTENDS PluginSocket
=============================================================================
