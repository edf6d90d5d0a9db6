-------------------------- MODULE MCPluginRegistry --------------------------
(* Model values and bounds for PluginRegistry. *)
EXTENDS PluginRegistry, TLC

CONSTANTS whisper, transcribe, dialog, sign, m1, misspelt, whisper_base, other

\* No guard and no property reads the last reply before a step: states that
\* differ in it only have the same successors, and action properties are
\* evaluated on every step, also to a state seen before.
View == <<pluginVars, methods, installed, serverVars>>
=============================================================================
