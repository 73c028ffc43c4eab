---------------------------- MODULE PluginLoads -----------------------------
(* plugins/manifest.py over tools/registry.py: a load checks the signature,   *)
(* puts the plugin's directory on the path, imports its entry point and       *)
(* registers its tools one after the other; the interpreter keeps what it has *)
(* imported under the entry point's name, whatever directory it came from.    *)
EXTENDS Integers, Sequences

CONSTANTS
  Plugins,
  Entries,          \* names of entry points; plugins may use the same one
  MaxPluginTools,   \* a manifest declares the tools 1..MaxPluginTools
  MaxLoads, MaxEditions,
  NoModule

ASSUME PluginAssumption ==
  MaxPluginTools \in Nat /\ MaxLoads \in Nat /\ MaxEditions \in Nat

VARIABLES
  edition,          \* the plugin's files on disk
  files,            \* the entry points its directory has a file for
  searched,         \* the plugins' directories on sys.path, the first first
  imported,         \* of an entry point, the module the interpreter has of it
  provided,         \* of a tool, the load that provided it last, or 0
  loads             \* history: the loads so far, and which were taken back

pluginVars == <<edition, files, searched, imported, provided, loads>>
onDisk == <<edition, files>>

PluginTools == 1..MaxPluginTools
IsSearched(p) == \E i \in DOMAIN searched : searched[i] = p

-----------------------------------------------------------------------------

(* load_manifest_dict and verify_signature: a manifest that cannot be read,   *)
(* an algorithm nobody knows and a signature that does not fit the payload    *)
(* end the load; no signature is enough unless one is required.               *)
Manifests == {"unreadable", "foreign", "altered", "unsigned", "signed"}
Acceptable(manifest, require) ==
  manifest = "signed" \/ (manifest = "unsigned" /\ ~require)

(* register and unregister: the last registration of a name wins.             *)
Register(p, n, load) ==
  provided' = [provided EXCEPT ![p] = [t \in PluginTools |-> IF t <= n THEN load ELSE @[t]]]
Unregister(p, n) ==
  provided' = [provided EXCEPT ![p] = [t \in PluginTools |-> IF t <= n THEN 0 ELSE @[t]]]

Vouched(manifest, require) == require => manifest = "signed"

(* The directory goes to the front of the path, unless it is on it.           *)
WithDirectory(p) == IF IsSearched(p) THEN searched ELSE <<p>> \o searched

(* import_module: what was imported under the name before, or the first file  *)
(* of the name on the path, whosever it is.                                   *)
FirstOf(dirs, e) ==
  {dirs[i] : i \in {i \in DOMAIN dirs : /\ e \in files[dirs[i]]
                                       /\ \A j \in 1..i - 1 : e \notin files[dirs[j]]}}
ModulesOf(p, e) ==
  IF imported[e] # NoModule
    THEN {imported[e]}
    ELSE {[of |-> q, edition |-> edition[q]] : q \in FirstOf(WithDirectory(p), e)}

(* Mutants of KeepsPath: a failed load takes the directory away in any case,  *)
(* or in none.                                                                *)
KeepsPathNever(p) == searched' = SelectSeq(searched, LAMBDA q : q # p)
KeepsPathAlways(p) == searched' = WithDirectory(p)

(* Only a directory the load itself has added is taken away again.            *)
KeepsPath(p) == searched' = searched

Recorded(p, e, done, n, m) ==
  \E manifest \in Manifests, require \in BOOLEAN :
    /\ Acceptable(manifest, require)
    /\ loads' = Append(loads, [plugin |-> p, entry |-> e, done |-> done, count |-> n, module |-> m,
                               own |-> e \in files[p],
                               vouched |-> Vouched(manifest, require), unloaded |-> 0])

Loading == Len(loads) < MaxLoads /\ UNCHANGED onDisk

(* load_plugin                                                                *)
Load(p, e) ==
  /\ Loading
  /\ \E m \in ModulesOf(p, e) :
       /\ imported' = [imported EXCEPT ![e] = m]
       /\ Recorded(p, e, TRUE, MaxPluginTools, m)
  /\ searched' = WithDirectory(p)
  /\ Register(p, MaxPluginTools, Len(loads) + 1)

(* The entry point is not found, or raises while it is imported.              *)
ImportFails(p, e) ==
  /\ Loading /\ imported[e] = NoModule
  /\ KeepsPath(p)
  /\ UNCHANGED <<imported, provided>>
  /\ Recorded(p, e, FALSE, 0, NoModule)

(* An attribute is missing or cannot be called: the tools before it stay, and *)
(* so does the module.                                                        *)
ToolFails(p, e) ==
  /\ Loading
  /\ \E m \in ModulesOf(p, e) :
       /\ imported' = [imported EXCEPT ![e] = m]
       /\ \E n \in 0..MaxPluginTools - 1 :
            Register(p, n, Len(loads) + 1) /\ Recorded(p, e, FALSE, n, m)
  /\ KeepsPath(p)

(* A manifest that is not acceptable changes nothing.                         *)
LoadRefused(p, e) ==
  /\ Loading
  /\ \E manifest \in Manifests, require \in BOOLEAN :
       /\ ~Acceptable(manifest, require)
       /\ loads' = Append(loads, [plugin |-> p, entry |-> e, done |-> FALSE, count |-> 0,
                                  module |-> NoModule, own |-> e \in files[p],
                                  vouched |-> FALSE, unloaded |-> 0])
  /\ UNCHANGED <<searched, imported, provided>>

(* unload_plugin: by name. A load that failed has no result to unload.        *)
Unload(i) ==
  /\ loads[i].done /\ loads[i].unloaded = 0
  /\ Unregister(loads[i].plugin, loads[i].count)
  /\ loads' = [loads EXCEPT ![i].unloaded = Len(loads)]
  /\ UNCHANGED <<onDisk, searched, imported>>

(* The user upgrades the plugin, to files of any names.                       *)
Upgrade(p) ==
  /\ edition[p] < MaxEditions
  /\ edition' = [edition EXCEPT ![p] = @ + 1]
  /\ \E names \in SUBSET Entries : files' = [files EXCEPT ![p] = names]
  /\ UNCHANGED <<searched, imported, provided, loads>>

PluginInit ==
  /\ edition = [p \in Plugins |-> 1] /\ searched = <<>>
  /\ files = [p \in Plugins |-> Entries]
  /\ imported = [e \in Entries |-> NoModule]
  /\ provided = [p \in Plugins |-> [t \in PluginTools |-> 0]]
  /\ loads = <<>>

PluginNext ==
  \/ \E p \in Plugins :
       \/ \E e \in Entries : Load(p, e) \/ ImportFails(p, e) \/ ToolFails(p, e) \/ LoadRefused(p, e)
       \/ Upgrade(p)
  \/ \E i \in DOMAIN loads : Unload(i)

PluginSpec == PluginInit /\ [][PluginNext]_pluginVars

-----------------------------------------------------------------------------

SamePlugin(i, j) == loads[i].plugin = loads[j].plugin
ImportedBefore(i, j) == loads[j].entry = loads[i].entry /\ loads[j].module = loads[i].module

(* A tool in the registry is of the plugin its name says, from a load nobody  *)
(* has taken back, of a manifest that was signed where that was required. It  *)
(* may be of a load that failed at a later tool: the code leaves the tools it *)
(* had registered by then. A load that was done and not taken back has its    *)
(* tools until a later load of the plugin replaces them or, by their names,   *)
(* an unload behind it takes them away. The path has the directories of the   *)
(* plugins that were loaded, each once, whatever loads failed in between. A   *)
(* tool runs its own plugin's file, unless the name of its entry point had    *)
(* been imported, the plugin has no such file, or its directory was on the    *)
(* path and behind another's; and what it runs then is of a plugin that came  *)
(* with an earlier load.                                                      *)
PluginToolsAreOwned ==
  /\ \A p \in Plugins, t \in PluginTools :
       LET i == provided[p][t] IN
       i # 0 => /\ loads[i].plugin = p /\ t <= loads[i].count /\ loads[i].unloaded = 0
                /\ loads[i].vouched
  /\ \A i \in DOMAIN loads :
       loads[i].done /\ loads[i].unloaded = 0 =>
         \A t \in PluginTools :
           \/ provided[loads[i].plugin][t] >= i
           \/ \E j \in DOMAIN loads : SamePlugin(i, j) /\ loads[j].unloaded >= i
  /\ \A p \in Plugins :
       IsSearched(p) <=> \E i \in DOMAIN loads : loads[i].done /\ loads[i].plugin = p
  /\ \A i, j \in DOMAIN searched : searched[i] = searched[j] => i = j
  /\ \A i \in DOMAIN loads :
       loads[i].module # NoModule /\ loads[i].module.of # loads[i].plugin =>
         \E j \in 1..i - 1 :
           \/ ImportedBefore(i, j)
           \/ loads[j].done /\ loads[j].plugin = loads[i].module.of
              /\ (loads[i].own => \E h \in 1..i - 1 : loads[h].done /\ SamePlugin(i, h))
=============================================================================
