\* Every dlopen/dlsym outcome, a dynamic descriptor with a NULL field, and a
\* failing init_plugin, for a valid compiled-in plugin and two Load entries.
CONSTANTS
  s1 = s1
  d1 = d1
  d2 = d2
  StaticList <- MCStaticList
  LoadConf <- MCLoadConf
  Stages <- MCStages
  ConfStates = {"none", "no_section", "ok"}
  StaticMissing = {"none"}
  DynMissing = {"none", "exit_plugin"}
  DlResults = {"ok", "no_lib", "no_symbol"}
  InitResults = {"ok", "fail"}
  KeyResults = {"ok"}

SPECIFICATION Spec

\* The process ends after mk_plugin_exit_all or exit(EXIT_FAILURE).
CHECK_DEADLOCK FALSE

INVARIANT TypeOK
INVARIANT ActivePluginsValid
INVARIANT StageOrder
