--------------------------- MODULE PackagesProofs ---------------------------
(* Proofs about Packages: a mark of trust stays with its content, a pinned  *)
(* version stays readable, and a request touches one part of the plugin     *)
(* configuration.                                                           *)
EXTENDS Packages, TLAPS, FiniteSetTheorems

-----------------------------------------------------------------------------
(* The invariant.                                                           *)

(* A mark is on the content the entry describes; and so is what the         *)
(* directory holds, unless an installation was cut off.                     *)
Described ==
    \A s \in Skills : skillConf[s] # None =>
       /\ skillConf[s].trusted \in {None, skillConf[s].of}
       /\ s \notin interrupted => skillDir[s] \in {None, skillConf[s].of}

(* A version that a task is pinned to is one of its creator's skill.        *)
Pinned ==
    \A k \in Tasks : activation[k] # None =>
       /\ activation[k].skill = activation[k].creator
       /\ activation[k].version \in personal[activation[k].skill].versions

Inv == TypeOK /\ Described /\ Pinned

SkillTypes ==
    /\ skillDir \in [Skills -> Contents \cup {None}]
    /\ skillConf \in [Skills -> Entry \cup {None}]
    /\ interrupted \subseteq Skills
PluginTypes ==
    /\ pluginDir \subseteq Plugins
    /\ pluginConf \in PluginConf \cup {Truncated}
    /\ download \in [Requests -> PluginConf \cup {None}]
PersonalTypes ==
    /\ personal \in [Users -> Personal]
    /\ activation \in [Tasks -> {None} \cup
          [creator : Users, skill : Users, version : Contents]]
    /\ \A u \in Users : personal[u].active \in personal[u].versions \cup {None}

LEMMA Types == TypeOK <=> SkillTypes /\ PluginTypes /\ PersonalTypes
  BY DEF TypeOK, SkillTypes, PluginTypes, PersonalTypes

-----------------------------------------------------------------------------
(* Shared skills.                                                           *)

(* What happens to one skill: entry is what is left of its configuration,   *)
(* dir what its directory holds.                                            *)
LEMMA SkillChanges ==
  ASSUME SkillTypes, Described, NEW s \in Skills,
         NEW dir \in Contents \cup {None}, NEW entry \in Entry \cup {None},
         skillDir' = [skillDir EXCEPT ![s] = dir],
         skillConf' = [skillConf EXCEPT ![s] = entry],
         interrupted' \subseteq Skills, interrupted' \ {s} = interrupted \ {s},
         entry # None => /\ entry.trusted \in {None, entry.of}
                         /\ s \notin interrupted' => dir \in {None, entry.of}
  PROVE  SkillTypes' /\ Described'
<1>1. SkillTypes'
  BY DEF SkillTypes
<1>2. ASSUME NEW z \in Skills, skillConf'[z] # None
      PROVE  /\ skillConf'[z].trusted \in {None, skillConf'[z].of}
             /\ z \notin interrupted' => skillDir'[z] \in {None, skillConf'[z].of}
  <2>1. CASE z = s
    <3>1. skillConf'[z] = entry /\ skillDir'[z] = dir
      BY <2>1 DEF SkillTypes
    <3> QED
      BY <1>2, <2>1, <3>1
  <2>2. CASE z # s
    <3>1. /\ skillConf'[z] = skillConf[z] /\ skillDir'[z] = skillDir[z]
          /\ z \in interrupted' <=> z \in interrupted
      BY <2>2 DEF SkillTypes
    <3> QED
      BY <1>2, <3>1 DEF Described
  <2> QED
    BY <2>1, <2>2
<1> QED
  BY <1>1, <1>2 DEF Described

LEMMA SkillSteps ==
  ASSUME SkillTypes, Described, NEW s \in Skills, SkillStep(s)
  PROVE  SkillTypes' /\ Described'
<1>1. /\ skillDir[s] \in Contents \cup {None} /\ skillConf[s] \in Entry \cup {None}
      /\ skillDir = [skillDir EXCEPT ![s] = skillDir[s]]
      /\ skillConf = [skillConf EXCEPT ![s] = skillConf[s]]
      /\ interrupted \subseteq Skills
  BY DEF SkillTypes
<1>2. skillConf[s] # None =>
         /\ skillConf[s] \in Entry
         /\ skillConf[s].trusted \in {None, skillConf[s].of}
         /\ s \notin interrupted => skillDir[s] \in {None, skillConf[s].of}
  BY <1>1 DEF Described
<1>3. ASSUME NEW c \in Contents, NEW enabled \in BOOLEAN, NEW overwrite \in BOOLEAN,
             InstallSkill(s, c, enabled, overwrite)
      PROVE  SkillTypes' /\ Described'
  <2> DEFINE entry == NewEntry(s, c, enabled)
  <2>1. entry \in Entry /\ entry.of = c /\ entry.trusted = None
    BY DEF NewEntry, Entry
  <2> HIDE DEF entry
  <2>2. /\ skillDir' = [skillDir EXCEPT ![s] = c]
        /\ skillConf' = [skillConf EXCEPT ![s] = entry]
        /\ interrupted' = interrupted \ {s}
    BY <1>3 DEF InstallSkill, entry
  <2> QED
    BY <1>1, <2>1, <2>2, SkillChanges
<1>4. ASSUME NEW c \in Contents, NEW overwrite \in BOOLEAN, TornInstallSkill(s, c, overwrite)
      PROVE  SkillTypes' /\ Described'
  <2>1. PICK dir \in {None, c} : skillDir' = [skillDir EXCEPT ![s] = dir]
    BY <1>4 DEF TornInstallSkill
  <2>2. /\ skillConf' = [skillConf EXCEPT ![s] = skillConf[s]]
        /\ interrupted' = interrupted \cup {s} /\ s \in interrupted'
    BY <1>1, <1>4 DEF TornInstallSkill
  <2> QED
    BY <1>1, <1>2, <2>1, <2>2, SkillChanges
<1>5. ASSUME NEW on \in BOOLEAN, ToggleSkill(s, on)
      PROVE  SkillTypes' /\ Described'
  <2> DEFINE entry == [skillConf[s] EXCEPT !.enabled = on]
  <2>1. skillConf[s] # None /\ skillConf[s] \in Entry
    BY <1>2, <1>5 DEF ToggleSkill
  <2>2. /\ entry \in Entry /\ entry.of = skillConf[s].of
        /\ entry.trusted = skillConf[s].trusted
    BY <2>1 DEF Entry
  <2>3. /\ skillDir' = [skillDir EXCEPT ![s] = skillDir[s]]
        /\ skillConf' = [skillConf EXCEPT ![s] = entry]
        /\ interrupted' = interrupted
    BY <1>1, <1>5 DEF ToggleSkill
  <2> HIDE DEF entry
  <2> QED
    BY <1>1, <1>2, <2>1, <2>2, <2>3, SkillChanges
<1>6. ASSUME NEW on \in BOOLEAN, TrustSkill(s, on)
      PROVE  SkillTypes' /\ Described'
  <2> DEFINE mark == IF on THEN skillConf[s].of ELSE None
             entry == [skillConf[s] EXCEPT !.trusted = mark]
  <2>1. skillConf[s] # None /\ skillConf[s] \in Entry
    BY <1>2, <1>6 DEF TrustSkill
  <2>2. mark \in Contents \cup {None} /\ mark \in {None, skillConf[s].of}
    BY <2>1 DEF Entry
  <2>3. /\ skillDir' = [skillDir EXCEPT ![s] = skillDir[s]]
        /\ skillConf' = [skillConf EXCEPT ![s] = entry]
        /\ interrupted' = interrupted
    BY <1>1, <1>6 DEF TrustSkill
  <2> HIDE DEF mark
  <2>4. entry \in Entry /\ entry.of = skillConf[s].of /\ entry.trusted = mark
    BY <2>1, <2>2 DEF Entry
  <2> HIDE DEF entry
  <2> QED
    BY <1>1, <1>2, <2>1, <2>2, <2>3, <2>4, SkillChanges
<1>7. CASE DeleteSkill(s)
  BY <1>1, <1>7, SkillChanges DEF DeleteSkill
<1>8. CASE TornDeleteSkill(s)
  <2>1. /\ skillDir' = [skillDir EXCEPT ![s] = None]
        /\ skillConf' = [skillConf EXCEPT ![s] = skillConf[s]]
        /\ interrupted' = interrupted
    BY <1>1, <1>8 DEF TornDeleteSkill
  <2> QED
    BY <1>1, <1>2, <2>1, SkillChanges
<1> QED
  BY <1>3, <1>4, <1>5, <1>6, <1>7, <1>8 DEF SkillStep

-----------------------------------------------------------------------------
(* Plugins.                                                                 *)

(* b is a with one part changed at most.                                    *)
OnePart(a, b) == \E x : Differences(a, b) \subseteq {x}

LEMMA OnePartIsOne ==
  ASSUME NEW a, NEW b, OnePart(a, b)
  PROVE  Cardinality(Differences(a, b)) <= 1
<1>1. PICK x : Differences(a, b) \subseteq {x}
  BY DEF OnePart
<1>2. Differences(a, b) = {} \/ Differences(a, b) = {x}
  BY <1>1
<1>3. Cardinality({}) = 0 /\ Cardinality({x}) = 1
  BY FS_EmptySet, FS_Singleton
<1> QED
  BY <1>2, <1>3

LEMMA LoadIs == ASSUME PluginTypes PROVE Load \in PluginConf
<1>1. NoPlugins \in PluginConf
  BY DEF NoPlugins, PluginConf
<1> QED
  BY <1>1 DEF PluginTypes, Load, Truncated

(* The entry of one plugin is written.                                      *)
LEMMA PluginWritten ==
  ASSUME NEW conf \in PluginConf, NEW p \in Plugins, NEW e \in PluginEntry \cup {None}
  PROVE  /\ [conf EXCEPT !.plugins[p] = e] \in PluginConf
         /\ OnePart(conf, [conf EXCEPT !.plugins[p] = e])
<1> DEFINE b == [conf EXCEPT !.plugins[p] = e]
<1>1. conf.plugins \in [Plugins -> PluginEntry \cup {None}] /\ conf.keys \in SUBSET Services
  BY DEF PluginConf
<1>2. /\ b.plugins = [conf.plugins EXCEPT ![p] = e] /\ b.keys = conf.keys
      /\ b = [plugins |-> [conf.plugins EXCEPT ![p] = e], keys |-> conf.keys]
  BY <1>1 DEF PluginConf
<1>3. b \in PluginConf
  <2>1. [conf.plugins EXCEPT ![p] = e] \in [Plugins -> PluginEntry \cup {None}]
    BY <1>1
  <2> QED
    BY <1>1, <1>2, <2>1 DEF PluginConf
<1> HIDE DEF b
<1>4. \A z \in Plugins : z # p => b.plugins[z] = conf.plugins[z]
  BY <1>1, <1>2
<1>5. Differences(conf, b) \subseteq {p}
  BY <1>2, <1>4 DEF Differences
<1> QED
  BY <1>3, <1>5 DEF OnePart, b

(* A key is written.                                                        *)
LEMMA KeyWritten ==
  ASSUME NEW conf \in PluginConf, NEW svc \in Services,
         NEW keys \in {conf.keys \cup {svc}, conf.keys \ {svc}, conf.keys}
  PROVE  /\ [conf EXCEPT !.keys = keys] \in PluginConf
         /\ OnePart(conf, [conf EXCEPT !.keys = keys])
<1> DEFINE b == [conf EXCEPT !.keys = keys]
<1>1. conf.plugins \in [Plugins -> PluginEntry \cup {None}] /\ conf.keys \in SUBSET Services
  BY DEF PluginConf
<1>2. b.plugins = conf.plugins /\ b.keys = keys /\ b \in PluginConf
  BY <1>1 DEF PluginConf
<1>3. Differences(conf, b) \subseteq {svc}
  BY <1>2 DEF Differences
<1> QED
  BY <1>2, <1>3 DEF OnePart

LEMMA SetIs ==
  ASSUME NEW conf \in PluginConf, NEW p \in Plugins
  PROVE  /\ \A on \in BOOLEAN : \E e \in PluginEntry :
               Set(conf, p, "enabled", on) = [conf EXCEPT !.plugins[p] = e]
         /\ \A v \in {"default", "chosen"} : \E e \in PluginEntry :
               Set(conf, p, "settings", v) = [conf EXCEPT !.plugins[p] = e]
<1> DEFINE d == IF conf.plugins[p] # None THEN conf.plugins[p]
                ELSE [enabled |-> FALSE, settings |-> "default"]
<1>1. d \in PluginEntry
  BY DEF PluginConf, PluginEntry
<1> HIDE DEF d
<1>2. ASSUME NEW on \in BOOLEAN
      PROVE  [d EXCEPT !["enabled"] = on] \in PluginEntry
  BY <1>1 DEF PluginEntry
<1>3. ASSUME NEW v \in {"default", "chosen"}
      PROVE  [d EXCEPT !["settings"] = v] \in PluginEntry
  BY <1>1 DEF PluginEntry
<1> QED
  BY <1>2, <1>3 DEF Set, d

(* Every plugin request writes a configuration that differs in one part     *)
(* from the present one, or none.                                           *)
Writes == \/ pluginConf' = pluginConf
          \/ \E conf \in PluginConf : OnePart(Load, conf) /\ Save(conf)

PluginRequest ==
    \/ \E p \in Plugins : PluginStep(p)
    \/ \E r \in Requests : StartInstallPlugin(r) \/ FailInstallPlugin(r)
    \/ \E svc \in Services, action \in {"replace", "clear", "preserve"} : SaveKey(svc, action)

LEMMA PluginWrites == ASSUME PluginTypes, PluginRequest PROVE Writes
<1>1. Load \in PluginConf
  BY LoadIs
<1>2. ASSUME NEW p \in Plugins, PluginStep(p) PROVE Writes
  <2>1. ASSUME NEW r \in Requests, InstallPlugin(r, p) PROVE Writes
    <3>1. [enabled |-> TRUE, settings |-> "default"] \in PluginEntry
      BY DEF PluginEntry
    <3> QED
      BY <1>1, <2>1, <3>1, PluginWritten DEF InstallPlugin, ConfigOf, Writes
  <2>2. ASSUME NEW r \in Requests, TornInstallPlugin(r, p) PROVE Writes
    BY <2>2 DEF TornInstallPlugin, Writes
  <2>3. CASE UninstallPlugin(p)
    BY <1>1, <2>3, PluginWritten DEF UninstallPlugin, Writes
  <2>4. ASSUME NEW on \in BOOLEAN, TogglePlugin(p, on) PROVE Writes
    <3>1. PICK e \in PluginEntry : Set(Load, p, "enabled", on) = [Load EXCEPT !.plugins[p] = e]
      BY <1>1, SetIs
    <3> QED
      BY <1>1, <2>4, <3>1, PluginWritten DEF TogglePlugin, Writes
  <2>5. ASSUME NEW v \in {"default", "chosen"}, UpdateSettings(p, v) PROVE Writes
    <3>1. PICK e \in PluginEntry : Set(Load, p, "settings", v) = [Load EXCEPT !.plugins[p] = e]
      BY <1>1, SetIs
    <3> QED
      BY <1>1, <2>5, <3>1, PluginWritten DEF UpdateSettings, Writes
  <2> QED
    BY <1>2, <2>1, <2>2, <2>3, <2>4, <2>5 DEF PluginStep
<1>3. ASSUME NEW r \in Requests, StartInstallPlugin(r) \/ FailInstallPlugin(r) PROVE Writes
  BY <1>3 DEF StartInstallPlugin, FailInstallPlugin, Writes
<1>4. ASSUME NEW svc \in Services, NEW action \in {"replace", "clear", "preserve"},
             SaveKey(svc, action)
      PROVE  Writes
  <2> DEFINE keys == CASE action = "replace" -> Load.keys \cup {svc}
                       [] action = "clear" -> Load.keys \ {svc}
                       [] OTHER -> Load.keys
  <2>1. keys \in {Load.keys \cup {svc}, Load.keys \ {svc}, Load.keys}
    OBVIOUS
  <2>2. Save([Load EXCEPT !.keys = keys])
    BY <1>4 DEF SaveKey
  <2> HIDE DEF keys
  <2> QED
    BY <1>1, <2>1, <2>2, KeyWritten DEF Writes
<1> QED
  BY <1>2, <1>3, <1>4 DEF PluginRequest

LEMMA PluginSteps == ASSUME PluginTypes, PluginRequest PROVE PluginTypes'
<1>1. pluginConf' \in PluginConf \cup {Truncated}
  BY PluginWrites DEF Writes, Save, PluginTypes
<1>2. pluginDir' \subseteq Plugins
  BY DEF PluginTypes, PluginRequest, PluginStep, InstallPlugin, TornInstallPlugin,
         UninstallPlugin, TogglePlugin, UpdateSettings, StartInstallPlugin,
         FailInstallPlugin, SaveKey
<1>3. download' \in [Requests -> PluginConf \cup {None}]
  BY LoadIs DEF PluginTypes, PluginRequest, PluginStep, InstallPlugin, TornInstallPlugin,
         UninstallPlugin, TogglePlugin, UpdateSettings, StartInstallPlugin,
         FailInstallPlugin, SaveKey
<1> QED
  BY <1>1, <1>2, <1>3 DEF PluginTypes, Truncated

-----------------------------------------------------------------------------
(* Personal skills.                                                         *)

LEMMA PersonalSteps ==
  ASSUME PersonalTypes, Pinned, NEW u \in Users, PersonalStep(u)
  PROVE  PersonalTypes' /\ Pinned'
<1>1. personal[u] \in Personal /\ personal \in [Users -> Personal]
  BY DEF PersonalTypes
<1>2. ASSUME NEW mine \in Personal, personal' = [personal EXCEPT ![u] = mine],
             mine.active \in mine.versions \cup {None},
             personal[u].versions \subseteq mine.versions,
             activation' = activation
      PROVE  PersonalTypes' /\ Pinned'
  <2>1. \A z \in Users : personal'[z] = IF z = u THEN mine ELSE personal[z]
    BY <1>1, <1>2
  <2>2. \A z \in Users : personal[z].versions \subseteq personal'[z].versions
    BY <1>2, <2>1
  <2>3. \A z \in Users : personal'[z].active \in personal'[z].versions \cup {None}
    BY <1>2, <2>1 DEF PersonalTypes
  <2>4. personal' \in [Users -> Personal]
    BY <1>1, <1>2
  <2>5. \A k \in Tasks : activation[k] # None => activation[k].skill \in Users
    BY DEF PersonalTypes
  <2> QED
    BY <1>2, <2>2, <2>3, <2>4, <2>5 DEF PersonalTypes, Pinned
<1>3. ASSUME NEW c \in Contents, NEW on \in BOOLEAN, NEW overwrite \in BOOLEAN,
             InstallPersonal(u, c, on, overwrite)
      PROVE  PersonalTypes' /\ Pinned'
  <2> DEFINE mine == [versions |-> Versions(u, c), active |-> c, enabled |-> on]
  <2>1. /\ mine \in Personal /\ mine.active \in mine.versions
        /\ personal[u].versions \subseteq mine.versions
    BY <1>1 DEF Versions, Personal
  <2>2. personal' = [personal EXCEPT ![u] = mine] /\ activation' = activation
    BY <1>3 DEF InstallPersonal
  <2> HIDE DEF mine
  <2> QED
    BY <1>2, <2>1, <2>2
<1>4. ASSUME NEW on \in BOOLEAN, TogglePersonal(u, on)
      PROVE  PersonalTypes' /\ Pinned'
  <2> DEFINE mine == [personal[u] EXCEPT !.enabled = on]
  <2>1. /\ mine \in Personal /\ mine.active = personal[u].active
        /\ mine.versions = personal[u].versions
    BY <1>1 DEF Personal
  <2>2. personal' = [personal EXCEPT ![u] = mine] /\ activation' = activation
    BY <1>4 DEF TogglePersonal
  <2> HIDE DEF mine
  <2>3. mine.active \in mine.versions \cup {None}
    BY <2>1 DEF PersonalTypes
  <2> QED
    BY <1>2, <2>1, <2>2, <2>3
<1>5. ASSUME NEW k \in Tasks, NEW owner \in Users, ActivateSkill(k, u, owner)
      PROVE  PersonalTypes' /\ Pinned'
  <2> DEFINE pin == [creator |-> u, skill |-> owner, version |-> personal[owner].active]
  <2>1. owner = u /\ personal[u].active \in personal[u].versions
    BY <1>5 DEF ActivateSkill, Available, PersonalTypes
  <2>2. personal[u].versions \subseteq Contents
    BY <1>1 DEF Personal
  <2>3. /\ pin \in [creator : Users, skill : Users, version : Contents]
        /\ pin.skill = pin.creator /\ pin.version \in personal[pin.skill].versions
    BY <2>1, <2>2
  <2>4. activation' = [activation EXCEPT ![k] = pin] /\ personal' = personal
    BY <1>5 DEF ActivateSkill
  <2> HIDE DEF pin
  <2>5. \A z \in Tasks : activation'[z] = IF z = k THEN pin ELSE activation[z]
    BY <2>4 DEF PersonalTypes
  <2>6. PersonalTypes'
    BY <2>3, <2>4 DEF PersonalTypes
  <2>7. Pinned'
    BY <2>3, <2>4, <2>5 DEF Pinned
  <2> QED
    BY <2>6, <2>7
<1> QED
  BY <1>3, <1>4, <1>5 DEF PersonalStep

-----------------------------------------------------------------------------
(* The theorems.                                                            *)

LEMMA Initially == ASSUME Init PROVE Inv
<1>1. SkillTypes /\ Described
  BY DEF Init, SkillTypes, Described
<1>2. PluginTypes
  <2>1. NoPlugins \in PluginConf
    BY DEF NoPlugins, PluginConf
  <2> QED
    BY <2>1 DEF Init, PluginTypes
<1>3. PersonalTypes /\ Pinned
  <2> DEFINE mine == [versions |-> {}, active |-> None, enabled |-> FALSE]
  <2>1. mine \in Personal /\ mine.active = None
    BY DEF Personal
  <2>2. personal = [u \in Users |-> mine] /\ activation = [k \in Tasks |-> None]
    BY DEF Init
  <2> HIDE DEF mine
  <2> QED
    BY <2>1, <2>2 DEF PersonalTypes, Pinned
<1> QED
  BY <1>1, <1>2, <1>3, Types DEF Inv

LEMMA StepSound == ASSUME Inv, [Next]_vars PROVE Inv'
<1>1. SkillTypes /\ PluginTypes /\ PersonalTypes /\ Described /\ Pinned
  BY Types DEF Inv
<1>2. CASE UNCHANGED vars
  BY <1>2 DEF Inv, TypeOK, Described, Pinned, vars, skillVars, pluginVars, personalVars
<1>3. ASSUME NEW s \in Skills, SkillStep(s) PROVE Inv'
  <2>1. SkillTypes' /\ Described'
    BY <1>1, <1>3, SkillSteps
  <2>2. /\ UNCHANGED <<pluginDir, pluginConf, personalVars>>
        /\ download' \in {download, [r \in Requests |-> None]}
    BY <1>3 DEF SkillStep, InstallSkill, TornInstallSkill, ToggleSkill, TrustSkill,
                DeleteSkill, TornDeleteSkill, pluginVars
  <2>3. PluginTypes'
    BY <1>1, <2>2 DEF PluginTypes, Truncated
  <2>4. PersonalTypes' /\ Pinned'
    BY <1>1, <2>2 DEF PersonalTypes, Pinned, personalVars
  <2> QED
    BY <2>1, <2>3, <2>4, Types, PTL DEF Inv
<1>4. CASE PluginRequest
  <2>1. PluginTypes'
    BY <1>1, <1>4, PluginSteps
  <2>2. UNCHANGED <<skillVars, personalVars>>
    BY <1>4 DEF PluginRequest, PluginStep, InstallPlugin, TornInstallPlugin,
         UninstallPlugin, TogglePlugin, UpdateSettings, StartInstallPlugin,
         FailInstallPlugin, SaveKey
  <2>3. SkillTypes' /\ Described' /\ PersonalTypes' /\ Pinned'
    BY <1>1, <2>2 DEF SkillTypes, Described, PersonalTypes, Pinned, skillVars, personalVars
  <2> QED
    BY <2>1, <2>3, Types, PTL DEF Inv
<1>5. ASSUME NEW u \in Users, PersonalStep(u) PROVE Inv'
  <2>1. PersonalTypes' /\ Pinned'
    BY <1>1, <1>5, PersonalSteps
  <2>2. UNCHANGED <<skillVars, pluginVars>>
    BY <1>5 DEF PersonalStep, InstallPersonal, TogglePersonal, ActivateSkill
  <2>3. SkillTypes' /\ Described' /\ PluginTypes'
    BY <1>1, <2>2 DEF SkillTypes, Described, PluginTypes, Truncated, skillVars, pluginVars
  <2> QED
    BY <2>1, <2>3, Types, PTL DEF Inv
<1> QED
  BY <1>2, <1>3, <1>4, <1>5 DEF Next, PluginRequest

(* The types; what an entry describes and its mark follow the directory of  *)
(* its skill, and pins the versions.                                        *)
THEOREM Soundness == Spec => []Inv
<1>1. Init => Inv
  BY Initially
<1>2. Inv /\ [Next]_vars => Inv'
  BY StepSound
<1> QED
  BY <1>1, <1>2, PTL DEF Spec

(* No order of installing, overwriting, toggling, trusting and deleting     *)
(* puts the mark an administrator gave to one content on another, for every *)
(* number of skills and contents; only a skill whose installation a crash   *)
(* cut off is excepted, until it is installed or deleted.                   *)
THEOREM TrustFollowsContentHolds == Spec => []TrustFollowsContent
<1>1. Inv => TrustFollowsContent
  BY DEF Inv, Described, TrustFollowsContent
<1> QED
  BY <1>1, Soundness, PTL

(* The version of a personal skill that a task was created with stays       *)
(* readable, and the skill is its creator's, whatever users install later.  *)
THEOREM PinnedSkillStaysHolds == Spec => []PinnedSkillStays
<1>1. Inv => PinnedSkillStays
  BY DEF Inv, Pinned, PinnedSkillStays, SkillRead
<1> QED
  BY <1>1, Soundness, PTL

(* A request changes one part of the plugin configuration at most, of what  *)
(* is configured when it writes: however many downloads overlap, none takes *)
(* back what another request has saved meanwhile.                           *)
THEOREM OnePartAtATimeHolds == Spec => OnePartAtATime
<1>1. ASSUME Inv, [Next]_vars, pluginConf' # Truncated
      PROVE  Cardinality(Differences(Load, Load')) <= 1
  <2>1. PluginTypes
    BY <1>1, Types DEF Inv
  <2>2. CASE pluginConf' = pluginConf
    <3>1. Load' = Load
      BY <2>2 DEF Load, Truncated
    <3>2. Differences(Load, Load') = {}
      BY <3>1 DEF Differences
    <3> QED
      BY <3>2, OnePartIsOne DEF OnePart
  <2>3. CASE pluginConf' # pluginConf
    <3>1. PluginRequest
      BY <1>1, <2>3 DEF Next, PluginRequest, vars, pluginVars, skillVars, SkillStep,
         InstallSkill, TornInstallSkill, ToggleSkill, TrustSkill, DeleteSkill,
         TornDeleteSkill, PersonalStep, InstallPersonal, TogglePersonal, ActivateSkill
    <3>2. PICK conf \in PluginConf : OnePart(Load, conf) /\ Save(conf)
      BY <2>1, <2>3, <3>1, PluginWrites DEF Writes
    <3>3. Load' = conf
      BY <1>1, <3>2 DEF Load, Save, Truncated
    <3> QED
      BY <3>2, <3>3, OnePartIsOne
  <2> QED
    BY <2>2, <2>3
<1>2. Inv /\ [Next]_vars
         => [pluginConf' # Truncated => Cardinality(Differences(Load, Load')) <= 1]_vars
  BY <1>1
<1> QED
  BY <1>2, Soundness, PTL DEF Spec, OnePartAtATime

=============================================================================
