------------------------------- MODULE Plugin -------------------------------
(***************************************************************************)
(* The plugin registry of mk_plugin.c: mk_plugin_load_all loads the        *)
(* compiled-in plugins (already on mk_config->plugins), then every "Load"  *)
(* entry of the PLUGINS section of the load configuration; mk_plugin_load  *)
(* validates a descriptor and appends its stage callbacks to the five      *)
(* stageNN_handler lists; a failed init_plugin unregisters the plugin.     *)
(* Workers run the stage lists; mk_plugin_exit_all calls every exit hook   *)
(* and closes the libraries.                                               *)
(*                                                                         *)
(* What a plugin's shared object or descriptor turns out to be is chosen   *)
(* in Init, from the outcomes given as constants: whether dlopen and dlsym *)
(* succeed, which mandatory field is NULL, which stages it hooks and what  *)
(* init_plugin returns.                                                    *)
(***************************************************************************)
EXTENDS Integers, Sequences, SequencesExt

CONSTANTS
  StaticList,     \* the compiled-in plugins, in mk_static_plugins order
  LoadConf,       \* the plugins of the "Load" entries, in file order
  Stages,         \* the stage lists modelled (of 10, 20, 30, 40, 50)
  ConfStates,     \* what mk_rconf_create / mk_rconf_section_get find
  StaticMissing,  \* which mandatory field a static descriptor may lack
  DynMissing,     \* which mandatory field a dynamic descriptor may lack
  DlResults,      \* outcomes of dlopen + dlsym for a dynamic plugin
  InitResults,    \* values init_plugin may return
  KeyResults      \* no thread_key, or what pthread_key_create does with it

StaticPlugins == ToSet(StaticList)
DynPlugins == ToSet(LoadConf)
P == StaticPlugins \cup DynPlugins

ASSUME /\ StaticPlugins \cap DynPlugins = {}
       /\ IsInjective(StaticList) /\ IsInjective(LoadConf)
       /\ ConfStates \subseteq {"none", "no_section", "ok"}
       /\ StaticMissing \cup DynMissing \subseteq {"none", "name", "exit_plugin"}
       /\ DlResults \subseteq {"ok", "no_lib", "no_symbol"}
       /\ InitResults \subseteq {"ok", "fail"}
       /\ KeyResults \subseteq {"none", "ok", "fail"}

Desc == [missing : StaticMissing \cup DynMissing, stages : SUBSET Stages,
         dl : DlResults \cup {"ok"}, init : InitResults,
         key : KeyResults]

VARIABLES
  desc,       \* what each plugin's library and descriptor are
  conf,       \* what the load configuration file holds
  phase,      \* where mk_plugin_load_all and the server are
  cursor,     \* the position of the loop over the current list
  plugins,    \* mk_config->plugins
  stage,      \* mk_config->stageNN_handler, by stage
  handles,    \* the plugins whose library is dlopen()ed and not dlclose()d
  called,     \* the (hook, plugin) pairs the server has called so far
  keys        \* the plugins whose thread_key pthread_key_create created

vars == <<desc, conf, phase, cursor, plugins, stage, handles, called, keys>>

-----------------------------------------------------------------------------

Init ==
  /\ desc \in {d \in [P -> Desc] :
                 \A p \in P :
                   /\ d[p].missing \in IF p \in StaticPlugins THEN StaticMissing
                                                              ELSE DynMissing
                   /\ p \in StaticPlugins => d[p].dl = "ok"}
  /\ conf \in ConfStates
  /\ phase = "static"
  /\ cursor = 1
  /\ plugins = StaticList
  /\ stage = [s \in Stages |-> << >>]
  /\ handles = {}
  /\ called = {}
  /\ keys = {}

\* Mutant: the stage callback is linked at the head of the list.
AddStagesHead(p) ==
  [s \in Stages |-> IF s \in desc[p].stages THEN <<p>> \o stage[s] ELSE stage[s]]

(* The MK_PLUGIN_STAGE block of mk_plugin_load: one mk_plugin_stage node   *)
(* appended (mk_list_add) to each list whose callback the plugin sets.     *)
AddStages(p) ==
  [s \in Stages |-> IF s \in desc[p].stages THEN Append(stage[s], p) ELSE stage[s]]

\* Mutant: the plugin is linked into mk_config->plugins whatever its type.
LinkAlways(p) == Append(plugins, p)

\* The tail of mk_plugin_load: only a dynamic plugin is linked in.
Link(p) == IF p \in DynPlugins THEN Append(plugins, p) ELSE plugins

\* Mutant: mk_plugin_unregister without the mk_list_del.
UnregisterNoDel(l, p) == l

(* mk_plugin_unregister: unlink from mk_config->plugins (the stage lists   *)
(* are left alone); the dlclose is in the actions.                         *)
Unregister(l, p) == Remove(l, p)

(* The MK_PLUGIN_DYNAMIC branch of mk_plugin_load: mk_plugin_load_dynamic  *)
(* (dlopen) and mk_plugin_load_symbol (dlsym of "mk_plugin_<shortname>").  *)
Loaded(p) == desc[p].dl = "ok"

\* mk_plugin_load's check that every mandatory descriptor field is set.
Valid(p) == desc[p].missing = "none"

\* mk_plugin_init: the plugin's init_plugin callback succeeds.
PluginInit(p) == desc[p].init = "ok"

(* mk_plugin_preworker_calls: pthread_key_create for the thread_key of     *)
(* every plugin on mk_config->plugins; a failure is only logged.           *)
PreworkerCalls(l) == {l[i] : i \in {j \in DOMAIN l : desc[l[j]].key = "ok"}}

(* mk_plugin_load(MK_PLUGIN_STATIC) and mk_plugin_init for the next plugin *)
(* of the static loop.  A descriptor failing validation is skipped and     *)
(* stays on the list; a failing init_plugin unregisters it.                *)
LoadStatic ==
  /\ phase = "static"
  /\ cursor <= Len(StaticList)
  /\ LET p == StaticList[cursor] IN
     IF ~Valid(p)
     THEN UNCHANGED <<plugins, stage>>
     ELSE /\ stage' = AddStages(p)
          /\ plugins' = IF PluginInit(p) THEN Link(p)
                        ELSE Unregister(Link(p), p)
  /\ cursor' = cursor + 1
  /\ UNCHANGED <<desc, conf, phase, handles, called, keys>>

(* The end of the static loop and the reading of the load configuration:   *)
(* no file (or one mk_rconf_create cannot read) returns at once, before    *)
(* mk_plugin_preworker_calls; a file without a PLUGINS section ends the    *)
(* process.                                                                *)
ReadConf ==
  /\ phase = "static"
  /\ cursor > Len(StaticList)
  /\ phase' = CASE conf = "none"       -> "running"
                [] conf = "no_section" -> "aborted"
                [] conf = "ok"         -> "dynamic"
  /\ cursor' = 1
  /\ UNCHANGED <<desc, conf, plugins, stage, handles, called, keys>>

(* The dynamic loop of mk_plugin_load_all: mk_plugin_load(MK_PLUGIN_       *)
(* DYNAMIC) and mk_plugin_init for the next Load entry.                    *)
(* entry.  dlopen failing returns at once; dlsym failing closes the        *)
(* handle; a descriptor failing validation returns NULL with the library   *)
(* still open; a failing init_plugin unregisters and dlcloses it.          *)
LoadDynamic ==
  /\ phase = "dynamic"
  /\ cursor <= Len(LoadConf)
  /\ LET p == LoadConf[cursor] IN
     CASE ~Loaded(p) ->
            UNCHANGED <<plugins, stage, handles>>
       [] ~Valid(p) ->
            /\ handles' = handles \cup {p}
            /\ UNCHANGED <<plugins, stage>>
       [] OTHER ->
            /\ stage' = AddStages(p)
            /\ plugins' = IF PluginInit(p) THEN Link(p)
                          ELSE Unregister(Link(p), p)
            /\ handles' = IF PluginInit(p) THEN handles \cup {p}
                          ELSE handles
  /\ cursor' = cursor + 1
  /\ UNCHANGED <<desc, conf, phase, called, keys>>

\* The end of the dynamic loop: mk_plugin_preworker_calls and the handler map.
DynamicDone ==
  /\ phase = "dynamic"
  /\ cursor > Len(LoadConf)
  /\ phase' = "running"
  /\ keys' = PreworkerCalls(plugins)
  /\ UNCHANGED <<desc, conf, cursor, plugins, stage, handles, called>>

(* mk_plugin_stage_run for stage s: the callbacks of the list in order,    *)
(* until one returns something other than "not handled" (the k-th, or none *)
(* when k exceeds the list).                                               *)
StageRun(s, k) ==
  /\ phase = "running"
  /\ k \in 1..Len(stage[s]) + 1
  /\ called' = called \cup
       {<<"stage", stage[s][i]>> : i \in 1..(IF k > Len(stage[s]) THEN Len(stage[s]) ELSE k)}
  /\ UNCHANGED <<desc, conf, phase, cursor, plugins, stage, handles, keys>>

(* mk_plugin_core_process, once before the workers start: master_init of   *)
(* every plugin on mk_config->plugins.  The code skips a NULL master_init;  *)
(* the model records the call for every plugin, which over-approximates    *)
(* the hooks called (exit_plugin, called unchecked by ExitAll, is not).    *)
CoreProcess ==
  /\ phase = "running"
  /\ called' = called \cup {<<"master_init", plugins[i]>> : i \in DOMAIN plugins}
  /\ UNCHANGED <<desc, conf, phase, cursor, plugins, stage, handles, keys>>

(* mk_plugin_core_thread, in every worker as it starts: worker_init of     *)
(* every plugin on mk_config->plugins (a NULL one is skipped by the code;  *)
(* recorded here for every plugin, as in CoreProcess).                     *)
CoreThread ==
  /\ phase = "running"
  /\ called' = called \cup {<<"worker_init", plugins[i]>> : i \in DOMAIN plugins}
  /\ UNCHANGED <<desc, conf, phase, cursor, plugins, stage, handles, keys>>

(* mk_plugin_exit_all: every plugin's exit_plugin() in list order (a NULL  *)
(* one faults), then every node unlinked and dynamic libraries closed.     *)
ExitAll ==
  /\ phase = "running"
  /\ called' = called \cup {<<"exit", plugins[i]>> : i \in DOMAIN plugins}
  /\ phase' = IF \E i \in DOMAIN plugins : desc[plugins[i]].missing = "exit_plugin"
              THEN "crashed" ELSE "exited"
  /\ plugins' = << >>
  /\ handles' = handles \ ToSet(plugins)
  /\ UNCHANGED <<desc, conf, cursor, stage, keys>>

Next ==
  \/ LoadStatic
  \/ ReadConf
  \/ LoadDynamic
  \/ DynamicDone
  \/ \E s \in Stages : \E k \in 1..Len(stage[s]) + 1 : StageRun(s, k)
  \/ CoreProcess
  \/ CoreThread
  \/ ExitAll

Spec == Init /\ [][Next]_vars

-----------------------------------------------------------------------------

TypeOK ==
  /\ desc \in [P -> Desc]
  /\ phase \in {"static", "dynamic", "running", "aborted", "exited", "crashed"}
  /\ plugins \in Seq(P) /\ IsInjective(plugins)
  /\ stage \in [Stages -> Seq(P)]
  /\ handles \subseteq DynPlugins
  /\ called \subseteq {"stage", "master_init", "worker_init", "exit"} \X P
  /\ keys \subseteq P

\* The order in which mk_plugin_load_all goes through the plugins.
Registration == IF conf = "ok" THEN StaticList \o LoadConf ELSE StaticList

\* A plugin whose library, descriptor and init_plugin all succeed.
Succeeded(p) ==
  /\ desc[p].dl = "ok"
  /\ desc[p].missing = "none"
  /\ desc[p].init = "ok"

(* Spec 8: once loading is over, the active list (mk_config->plugins) is   *)
(* exactly the plugins whose load and init succeeded, in registration      *)
(* order: a rejected descriptor or failed init is absent, and the other    *)
(* plugins of the same batch are all there.  About mk_plugin_load_all's    *)
(* two loops, mk_plugin_load's validation and mk_plugin_unregister.        *)
ActivePluginsValid ==
  phase = "running" => plugins = SelectSeq(Registration, Succeeded)

(* Spec 4.4: each stage list calls its callbacks in registration order:    *)
(* compiled-in plugins before dynamic ones, dynamic ones in the order of   *)
(* the Load entries, each once.  About the mk_list_add calls of            *)
(* mk_plugin_load.                                                         *)
StageOrder ==
  \A s \in Stages :
    \A i, j \in DOMAIN stage[s] :
      i < j => \E a, b \in DOMAIN Registration :
                 /\ a < b
                 /\ Registration[a] = stage[s][i]
                 /\ Registration[b] = stage[s][j]

(* A plugin set up before the workers start (spec 5: the registry is      *)
(* built before any worker runs): it loaded, initialised, and the thread   *)
(* key it declares exists.                                                 *)
Ready(p) == Succeeded(p) /\ (desc[p].key # "none" => p \in keys)

(* Spec 8 and 7 (PluginLoadError: the plugin is skipped): the server only *)
(* calls a plugin's hooks (stage callbacks, master_init, worker_init,      *)
(* exit_plugin) when the plugin passed mk_plugin_load's validation, its    *)
(* init_plugin succeeded and its thread key was created.  About            *)
(* mk_plugin_unregister leaving the stage nodes linked, a compiled-in      *)
(* plugin that fails validation staying on mk_config->plugins, and the     *)
(* early returns of mk_plugin_load_all that skip mk_plugin_preworker_calls.*)
HooksCalledOnValid == \A h \in called : Ready(h[2])

=============================================================================
