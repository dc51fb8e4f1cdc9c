----------------------------- MODULE MCHotReload -----------------------------
(* Small instances of HotReload for TLC. *)
EXTENDS HotReload, TLC

\* One string field stands for the three: they are stored and loaded alike.
OneString == <<"server.ptr", "server.len">>

\* For liveness the only word is PluginOpts.
NoString == <<>>

Symmetry == Permutations(Reloaders)
=============================================================================
