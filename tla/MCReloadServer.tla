--------------------------- MODULE MCReloadServer ---------------------------
(* ReloadServer for TLC. *)
EXTENDS ReloadServer, TLC

CONSTANTS so1, so2

OnePlugin == {so1}
TwoPlugins == {so1, so2}

\* The plugin files are interchangeable.
PluginSymmetry == Permutations(TwoPlugins)
=============================================================================
