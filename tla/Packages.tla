------------------------------ MODULE Packages ------------------------------
(* What is installed into a Server (backend/main.py): the shared skills,   *)
(* and the plugins, of its administrators, which are directories with an   *)
(* entry in a configuration file, and the personal skills of users, which  *)
(* are rows with versions that tasks are pinned to (module_tasks.py).      *)
(*                                                                         *)
(* One thread runs all of it and only downloads are awaited.  Nothing is   *)
(* read before a skill is downloaded, so its installation is one step; the *)
(* process may end within it, which the actions named Torn... stand for.   *)
EXTENDS Naturals, FiniteSets

CONSTANTS
    Skills,    \* names of shared skills
    Plugins,   \* ids of plugins
    Services,  \* services an API key may be stored for
    Users,     \* owners of personal skills, one for each
    Contents,  \* contents a skill package may have
    Tasks,     \* tasks that ask for a personal skill
    Requests,  \* plugin downloads at the same time
    None

VARIABLES
    skillDir,     \* skills/installed
    skillConf,    \* the entries of the skill configuration
    interrupted,  \* the skills an installation did not get to the end of
    pluginDir,    \* plugins/installed
    pluginConf,   \* the plugin configuration, which may be truncated
    download,     \* the configuration as it was when a download began
    personal,     \* agent_skills and agent_skill_versions
    activation    \* module_task_skill_activations

skillVars == <<skillDir, skillConf, interrupted>>
pluginVars == <<pluginDir, pluginConf, download>>
personalVars == <<personal, activation>>
vars == <<skillVars, pluginVars, personalVars>>

-----------------------------------------------------------------------------
(* of: the content the entry describes.  trusted: the one an administrator *)
(* has marked (the code has a flag).                                       *)
Entry == [of : Contents, enabled : BOOLEAN, trusted : Contents \cup {None}]

PluginEntry == [enabled : BOOLEAN, settings : {"default", "chosen"}]
PluginConf == [plugins : [Plugins -> PluginEntry \cup {None}],
               keys : SUBSET Services]
NoPlugins == [plugins |-> [p \in Plugins |-> None], keys |-> {}]

Personal == [versions : SUBSET Contents, active : Contents \cup {None},
             enabled : BOOLEAN]

Init ==
    /\ skillDir = [s \in Skills |-> None]
    /\ skillConf = [s \in Skills |-> None]
    /\ interrupted = {}
    /\ pluginDir = {} /\ pluginConf = NoPlugins
    /\ download = [r \in Requests |-> None]
    /\ personal = [u \in Users |-> [versions |-> {}, active |-> None,
                                    enabled |-> FALSE]]
    /\ activation = [k \in Tasks |-> None]

-----------------------------------------------------------------------------
(* Shared skills, whose configuration is replaced as a file.               *)

(* Mutant: a skill that is installed anew keeps its mark. *)
MutantNewEntry(s, c, enabled) ==
    [of |-> c, enabled |-> enabled,
     trusted |-> IF skillConf[s] = None THEN None ELSE skillConf[s].trusted]

(* build_skill_config_entry() *)
NewEntry(s, c, enabled) == [of |-> c, enabled |-> enabled, trusted |-> None]

Installable(s, overwrite) ==
    (skillConf[s] # None \/ skillDir[s] # None) => overwrite

(* install_staged_skill().  An error on the way puts everything back.      *)
InstallSkill(s, c, enabled, overwrite) ==
    /\ Installable(s, overwrite)
    /\ skillDir' = [skillDir EXCEPT ![s] = c]
    /\ skillConf' = [skillConf EXCEPT ![s] = NewEntry(s, c, enabled)]
    /\ interrupted' = interrupted \ {s}
    /\ UNCHANGED <<pluginVars, personalVars>>

(* It gets as far as moving the old directory, or the new one.             *)
TornInstallSkill(s, c, overwrite) ==
    /\ Installable(s, overwrite)
    /\ \E dir \in {None, c} : skillDir' = [skillDir EXCEPT ![s] = dir]
    /\ interrupted' = interrupted \cup {s}
    /\ download' = [r \in Requests |-> None]
    /\ UNCHANGED <<skillConf, pluginDir, pluginConf, personalVars>>

ToggleSkill(s, enabled) ==
    /\ skillConf[s] # None
    /\ skillConf' = [skillConf EXCEPT ![s].enabled = enabled]
    /\ UNCHANGED <<skillDir, interrupted, pluginVars, personalVars>>

TrustSkill(s, trusted) ==
    /\ skillConf[s] # None
    /\ skillConf' = [skillConf EXCEPT
                        ![s].trusted = IF trusted THEN skillConf[s].of ELSE None]
    /\ UNCHANGED <<skillDir, interrupted, pluginVars, personalVars>>

DeleteSkill(s) ==
    /\ skillConf[s] # None
    /\ skillDir' = [skillDir EXCEPT ![s] = None]
    /\ skillConf' = [skillConf EXCEPT ![s] = None]
    /\ interrupted' = interrupted \ {s}
    /\ UNCHANGED <<pluginVars, personalVars>>

(* The directory is gone and its entry is not.                             *)
TornDeleteSkill(s) ==
    /\ skillConf[s] # None
    /\ skillDir' = [skillDir EXCEPT ![s] = None]
    /\ download' = [r \in Requests |-> None]
    /\ UNCHANGED <<skillConf, interrupted, pluginDir, pluginConf, personalVars>>

-----------------------------------------------------------------------------
(* Plugins, whose configuration is truncated and then written.             *)

(* What is left of it, which cannot be read. *)
Truncated == None

(* load_plugin_config() *)
Load == IF pluginConf = Truncated THEN NoPlugins ELSE pluginConf

(* save_plugin_config(), which does not say when it fails.                 *)
Save(conf) == pluginConf' \in {conf, Truncated}

Set(conf, p, field, v) ==
    LET e == IF conf.plugins[p] # None THEN conf.plugins[p]
             ELSE [enabled |-> FALSE, settings |-> "default"]
    IN  [conf EXCEPT !.plugins[p] = [e EXCEPT ![field] = v]]

StartInstallPlugin(r) ==
    /\ download[r] = None
    /\ download' = [download EXCEPT ![r] = Load]
    /\ UNCHANGED <<pluginDir, pluginConf, skillVars, personalVars>>

(* Mutant: the configuration is loaded before the download. *)
MutantConfigOf(r) == download[r]

(* The configuration an installation adds to is the present one.           *)
ConfigOf(r) == Load

(* install_plugin() after the download, and upload_plugin(): the directory *)
(* is replaced, and the entry is that of a new plugin.                     *)
InstallPlugin(r, p) ==
    /\ download[r] # None
    /\ pluginDir' = pluginDir \cup {p}
    /\ Save([ConfigOf(r) EXCEPT
                !.plugins[p] = [enabled |-> TRUE, settings |-> "default"]])
    /\ download' = [download EXCEPT ![r] = None]
    /\ UNCHANGED <<skillVars, personalVars>>

FailInstallPlugin(r) ==
    /\ download[r] # None
    /\ download' = [download EXCEPT ![r] = None]
    /\ UNCHANGED <<pluginDir, pluginConf, skillVars, personalVars>>

(* The process ends between the two renames of atomic_install_plugin(), or *)
(* before the entry is written.                                            *)
TornInstallPlugin(r, p) ==
    /\ download[r] # None
    /\ pluginDir' \in {pluginDir \ {p}, pluginDir \cup {p}}
    /\ download' = [q \in Requests |-> None]
    /\ UNCHANGED <<pluginConf, skillVars, personalVars>>

UninstallPlugin(p) ==
    /\ p \in pluginDir
    /\ pluginDir' = pluginDir \ {p}
    /\ IF Load.plugins[p] = None THEN UNCHANGED pluginConf
       ELSE Save([Load EXCEPT !.plugins[p] = None])
    /\ UNCHANGED <<download, skillVars, personalVars>>

TogglePlugin(p, enabled) ==
    /\ p \in pluginDir
    /\ Save(Set(Load, p, "enabled", enabled))
    /\ UNCHANGED <<pluginDir, download, skillVars, personalVars>>

UpdateSettings(p, v) ==
    /\ p \in pluginDir
    /\ Save(Set(Load, p, "settings", v))
    /\ UNCHANGED <<pluginDir, download, skillVars, personalVars>>

(* preserve writes the file again, too. *)
SaveKey(svc, action) ==
    /\ Save([Load EXCEPT !.keys = CASE action = "replace" -> @ \cup {svc}
                                    [] action = "clear" -> @ \ {svc}
                                    [] OTHER -> @])
    /\ UNCHANGED <<pluginDir, download, skillVars, personalVars>>

-----------------------------------------------------------------------------
(* Personal skills.                                                        *)

(* One version for each content. *)
Versions(u, c) == personal[u].versions \cup {c}

(* install_personal_agent_skill(); without its commit it has not happened. *)
InstallPersonal(u, c, enabled, overwrite) ==
    /\ personal[u].active # None => overwrite
    /\ personal' = [personal EXCEPT
                       ![u] = [versions |-> Versions(u, c), active |-> c,
                               enabled |-> enabled]]
    /\ UNCHANGED <<activation, skillVars, pluginVars>>

TogglePersonal(u, enabled) ==
    /\ personal[u].active # None
    /\ personal' = [personal EXCEPT ![u].enabled = enabled]
    /\ UNCHANGED <<activation, skillVars, pluginVars>>

(* _resolve_skill_snapshots() *)
Available(u, owner) ==
    /\ owner = u
    /\ personal[owner].active # None /\ personal[owner].enabled

(* create() of a task of u that asks for the skill of owner.               *)
ActivateSkill(k, u, owner) ==
    /\ activation[k] = None
    /\ Available(u, owner)
    /\ activation' = [activation EXCEPT
                         ![k] = [creator |-> u, skill |-> owner,
                                 version |-> personal[owner].active]]
    /\ UNCHANGED <<personal, skillVars, pluginVars>>

(* Mutant: the active version is read. *)
MutantSkillRead(k) == {personal[activation[k].skill].active}

(* capability_skill_read() *)
SkillRead(k) ==
    {c \in personal[activation[k].skill].versions : c = activation[k].version}

-----------------------------------------------------------------------------
SkillStep(s) ==
    \/ \E c \in Contents, overwrite \in BOOLEAN :
          \/ \E enabled \in BOOLEAN : InstallSkill(s, c, enabled, overwrite)
          \/ TornInstallSkill(s, c, overwrite)
    \/ \E on \in BOOLEAN : ToggleSkill(s, on) \/ TrustSkill(s, on)
    \/ DeleteSkill(s) \/ TornDeleteSkill(s)

PluginStep(p) ==
    \/ \E r \in Requests : InstallPlugin(r, p) \/ TornInstallPlugin(r, p)
    \/ UninstallPlugin(p)
    \/ \E on \in BOOLEAN : TogglePlugin(p, on)
    \/ \E v \in {"default", "chosen"} : UpdateSettings(p, v)

PersonalStep(u) ==
    \/ \E c \in Contents, on, overwrite \in BOOLEAN :
          InstallPersonal(u, c, on, overwrite)
    \/ \E on \in BOOLEAN : TogglePersonal(u, on)
    \/ \E k \in Tasks, owner \in Users : ActivateSkill(k, u, owner)

Next ==
    \/ \E s \in Skills : SkillStep(s)
    \/ \E p \in Plugins : PluginStep(p)
    \/ \E r \in Requests : StartInstallPlugin(r) \/ FailInstallPlugin(r)
    \/ \E svc \in Services, action \in {"replace", "clear", "preserve"} :
          SaveKey(svc, action)
    \/ \E u \in Users : PersonalStep(u)

Spec == Init /\ [][Next]_vars

-----------------------------------------------------------------------------
(* Properties.                                                             *)

(* The types; and the active version of a personal skill is one it has.    *)
TypeOK ==
    /\ skillDir \in [Skills -> Contents \cup {None}]
    /\ skillConf \in [Skills -> Entry \cup {None}]
    /\ interrupted \subseteq Skills
    /\ pluginDir \subseteq Plugins
    /\ pluginConf \in PluginConf \cup {Truncated}
    /\ download \in [Requests -> PluginConf \cup {None}]
    /\ personal \in [Users -> Personal]
    /\ activation \in [Tasks -> {None} \cup
          [creator : Users, skill : Users, version : Contents]]
    /\ \A u \in Users : personal[u].active \in personal[u].versions \cup {None}

(* The mark of trust an administrator gave to a skill is never on another  *)
(* content than the one that was marked, unless an installation was cut    *)
(* off: by overwriting, by deleting and installing, by any order of these. *)
TrustFollowsContent ==
    \A s \in Skills \ interrupted :
        /\ skillConf[s] # None /\ skillConf[s].trusted # None
        /\ skillDir[s] # None
        => skillDir[s] = skillConf[s].trusted

(* A task is given a skill of its creator only, and can read it for good   *)
(* in the version it was created with, whatever is installed later.        *)
PinnedSkillStays ==
    \A k \in Tasks : activation[k] # None =>
        /\ activation[k].skill = activation[k].creator
        /\ SkillRead(k) = {activation[k].version}

(* The parts of the plugin configuration that a and b differ in.           *)
Differences(a, b) ==
    {p \in Plugins : a.plugins[p] # b.plugins[p]}
       \cup {svc \in Services : (svc \in a.keys) # (svc \in b.keys)}

(* One request changes the entry of the plugin it is about or the key of   *)
(* one service: no save takes back what was saved of anything else while   *)
(* it waited.  (What was saved of that plugin itself, a reinstallation     *)
(* resets.)  Only a file that was cut off loses more.                      *)
OnePartAtATime ==
    [][pluginConf' # Truncated => Cardinality(Differences(Load, Load')) <= 1]_vars
=============================================================================
