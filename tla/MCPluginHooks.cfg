\* A compiled-in plugin whose descriptor lacks exit_plugin, and a plugin
\* whose init_plugin fails after mk_plugin_load linked its stage callbacks.
CONSTANTS
  s1 = s1
  d1 = d1
  d2 = d2
  StaticList <- MCStaticList
  LoadConf <- MCLoadConf
  Stages <- MCStages
  ConfStates = {"none", "no_section", "ok"}
  StaticMissing = {"none", "exit_plugin"}
  DynMissing = {"none", "exit_plugin"}
  DlResults = {"ok", "no_lib", "no_symbol"}
  InitResults = {"ok", "fail"}
  KeyResults = {"none", "ok"}

SPECIFICATION Spec

\* The process ends after mk_plugin_exit_all or exit(EXIT_FAILURE).
CHECK_DEADLOCK FALSE

INVARIANT HooksCalledOnValid
