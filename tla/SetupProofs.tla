----------------------------- MODULE SetupProofs -----------------------------
(***************************************************************************)
(* Theorems about Config, and about Setup where it writes what runs read.   *)
(***************************************************************************)
EXTENDS Setup, TLAPS

-----------------------------------------------------------------------------
(* The layers.                                                              *)

\* What the environment names is in neither of the layers that go before it.
LEMMA NotInKwargs ==
    ASSUME NEW global, NEW project, NEW env, NEW s \in Settings,
           env.setting[s] # Unset
    PROVE  s \notin DOMAIN Kwargs(global, project, env)
<1>1. s \notin Unnamed(env, Settings) /\ s \notin Unnamed(env, Shared)
  BY DEF Unnamed
<1>2. DOMAIN GetProjectConfigValues(project, env) \in {{}, Unnamed(env, Settings)}
  BY DEF GetProjectConfigValues
<1>3. DOMAIN GetGlobalDefaults(global, env) \in {{}, Unnamed(env, Shared)}
  BY DEF GetGlobalDefaults
<1>4. DOMAIN Kwargs(global, project, env) =
        DOMAIN GetProjectConfigValues(project, env)
            \cup DOMAIN GetGlobalDefaults(global, env)
  BY DEF Kwargs
<1> QED BY <1>1, <1>2, <1>3, <1>4

LEMMA EnvironmentWins ==
    ASSUME NEW global, NEW project, NEW env, NEW s \in Settings,
           env.setting[s] # Unset
    PROVE  FromProjectRoot(global, project, env)[s] = env.setting[s]
BY NotInKwargs DEF FromProjectRoot

LEMMA EnvironmentStays ==
    ASSUME EnvironmentFirst, [ConfigNext]_configVars
    PROVE  EnvironmentFirst'
<1> USE DEF EnvironmentFirst
<1>1. CASE GetConfig
  <2>1. PICK env \in Environments :
            /\ environment' = env
            /\ \A s \in Settings \ flags' :
                 config'[s] = FromProjectRoot(globalFile, projectFile, env)[s]
    BY <1>1 DEF GetConfig
  <2> QED BY <2>1, EnvironmentWins
<1>2. CASE StartServices
  BY <1>2 DEF StartServices
<1>3. CASE RunEnds
  BY <1>3 DEF RunEnds
<1>4. CASE \E force \in BOOLEAN : ConfigFileInit(force)
  BY <1>4 DEF ConfigFileInit
<1>5. CASE EditGlobal \/ EditProject
  BY <1>5 DEF EditGlobal, EditProject
<1>6. CASE UNCHANGED configVars
  BY <1>6 DEF configVars
<1> QED BY <1>1, <1>2, <1>3, <1>4, <1>5, <1>6 DEF ConfigNext

-----------------------------------------------------------------------------
(* The model of a step.                                                     *)

LEMMA ModelStays ==
    ASSUME ConfigNext, run = "running", run' = "running"
    PROVE  \A step \in Steps : GetModelForStep(step)' = GetModelForStep(step)
<1>1. environment' = environment /\ cached' = cached
  BY DEF ConfigNext, GetConfig, StartServices, RunEnds, ConfigFileInit, EditGlobal,
         EditProject
<1> QED BY <1>1 DEF GetModelForStep, ManagersModel, Project

-----------------------------------------------------------------------------
(* Setup implements Config: for runs the commands are one more editor.      *)

LEMMA CommandsEdit ==
    ASSUME [SetupNext]_vars PROVE [ConfigNext]_configVars
<1>1. CASE ConfigNext /\ UNCHANGED setupVars
  BY <1>1
<1>2. CASE WriteConfig
  <2>1. EmptyFile \in ProjectFiles /\ DEFAULT_PROJECT_CONFIG_TOML \in ProjectFiles
    BY DEF EmptyFile, DEFAULT_PROJECT_CONFIG_TOML, ProjectFiles, Said
  <2>2. UNCHANGED projectFile
        \/ projectFile' \in {EmptyFile, DEFAULT_PROJECT_CONFIG_TOML}
    BY <1>2 DEF WriteConfig
  <2>3. projectFile' \in {EmptyFile, DEFAULT_PROJECT_CONFIG_TOML} =>
            projectFile' \in ProjectFiles \ {Absent}
    BY <2>1, FilesAssumption
  <2> QED BY <1>2, <2>2, <2>3 DEF WriteConfig, EditProject, ConfigNext, configVars
<1>3. CASE \/ ReadSettings \/ BackupSettings \/ OpenSettings \/ WriteSettings
           \/ CommandDies \/ RestoreBackup
  BY <1>3 DEF ReadSettings, BackupSettings, OpenSettings, WriteSettings, CommandDies,
              RestoreBackup
<1>4. CASE \E force, inject \in BOOLEAN, features \in DetectAll :
             InitRepo(force, inject, features)
  BY <1>4 DEF InitRepo
<1>5. CASE \E force \in BOOLEAN, features \in DetectAll : RefreshFeatures(force, features)
  BY <1>5 DEF RefreshFeatures
<1>6. CASE \E names \in SUBSET UserHooks : EditSettings(names)
  BY <1>6 DEF EditSettings
<1>7. CASE UNCHANGED vars
  BY <1>7 DEF vars
<1> QED BY <1>1, <1>2, <1>3, <1>4, <1>5, <1>6, <1>7 DEF SetupNext

\* init-repo and features refresh, which overwrite or empty config.toml and may die
\* anywhere, do nothing to a run that its user could not do with an editor.
THEOREM ImplementsConfig == SetupSpec => ConfigSpec
<1>1. SetupInit => ConfigInit
  BY DEF SetupInit
<1> QED BY <1>1, CommandsEdit, PTL DEF SetupSpec, ConfigSpec

\* ClaudesprintConfig.from_project_root: a run has each setting its environment names
\* from there, whatever the commands and the user do to the files.
THEOREM Environment == SetupSpec => []EnvironmentFirst
<1>1. ConfigInit => EnvironmentFirst
  BY DEF ConfigInit, EnvironmentFirst
<1>2. ConfigSpec => []EnvironmentFirst
  BY <1>1, EnvironmentStays, PTL DEF ConfigSpec
<1> QED BY <1>2, ImplementsConfig, PTL

\* ConfigurationManager.project: the models of a run do not change under it.
THEOREM Model == SetupSpec => ModelFixed
<1>1. ASSUME [ConfigNext]_configVars
      PROVE  [run = "running" /\ run' = "running" =>
                \A step \in Steps : GetModelForStep(step)' = GetModelForStep(step)]_configVars
  BY <1>1, ModelStays
<1>2. ConfigSpec => ModelFixed
  BY <1>1, PTL DEF ConfigSpec, ModelFixed
<1> QED BY <1>2, ImplementsConfig, PTL

-----------------------------------------------------------------------------
(* The hooks in settings.json.                                              *)

\* What a file of settings may be, and where a command may stand.
SettingsInv ==
    /\ settings \in Contents \cup {Absent, Damaged}
    /\ backup \in Contents \cup {Absent, Damaged}
    /\ merged \in Contents
    /\ command \in [at : {"idle", "config", "read", "backup", "open", "write"},
                     force : BOOLEAN, inject : BOOLEAN, features : DetectAll]
    /\ mine \subseteq UserHooks

\* Each of ClaudeSprint's entries is in the list of an event once at most, and
\* the user has entries for one event.
Proper(file) == Whole(file) =>
    /\ \A e \in Events, n \in ClaudesprintHooks : file.hooks[e][n] <= 1
    /\ \A n \in UserHooks : file.hooks["Stop"][n] = 0

ProperInv == Proper(settings) /\ Proper(backup) /\ Proper(merged)

\* A command has read the file, and is to write it.
Merging == command.at \in {"backup", "open", "write"}

\* The user's entries are also in what a command is about to write, and a file
\* that is not there has never had any.
KeptInv ==
    /\ UserHooksKept
    /\ settings = Absent => mine = {}
    /\ Merging /\ ~raced => Entries(merged, UserHooks) = mine

\* The backup is as the user left the file from the moment the file may break.
BackupInv ==
    /\ command.at = "backup" => Whole(settings) /\ ~backedUp
    /\ command.at = "open" => settings # Damaged
    /\ (settings = Damaged \/ command.at \in {"open", "write"}) /\ backedUp /\ ~raced =>
           Whole(backup) /\ Entries(backup, UserHooks) = mine

HooksInv == SettingsInv /\ ProperInv /\ KeptInv /\ BackupInv

LEMMA ContentsAreWhole == \A file \in Contents : Whole(file)
BY ContentsAssumption DEF Whole

LEMMA ListedCounts ==
    ASSUME NEW names
    PROVE  /\ Listed(names) \in [Names -> Nat]
           /\ \A n \in Names : Listed(names)[n] = IF n \in names THEN 1 ELSE 0
BY DEF Listed

LEMMA NoHooksEmpty ==
    NoHooks \in Contents /\ \A e \in Events, n \in Names : NoHooks.hooks[e][n] = 0
BY ListedCounts DEF NoHooks, Contents

\* inject_hooks: the result is proper whatever was there, and has the user's entries.
LEMMA Injection ==
    ASSUME NEW file \in Contents \cup {Absent}, Proper(file), NEW features \in DetectAll
    PROVE  LET new == Injected(file, features)
           IN  /\ new \in Contents
               /\ Proper(new)
               /\ Entries(new, UserHooks) = Entries(file, UserHooks)
<1> DEFINE old == IF file = Absent THEN NoHooks ELSE file
           ours == BuildHooksConfig(features)
           new == Injected(file, features)
<1>1. old \in Contents /\ Absent \notin Contents
  BY NoHooksEmpty, ContentsAssumption
<1>2. /\ ours.hooks \in [Events -> [Names -> Nat]]
      /\ \A e \in Events : \A n \in Names : ours.hooks[e][n] <= 1
      /\ \A e \in Events : \A n \in UserHooks : ours.hooks[e][n] = 0
  <2> DEFINE P(e) == IF e = "Stop" THEN {"autonomous-continue"}
                     ELSE IF "agent-browser" \in features
                          THEN {"server-guard", "browser-guard"} ELSE {"server-guard"}
  <2>1. ours.hooks = [e \in Events |-> Listed(P(e))]
    BY DEF BuildHooksConfig
  <2>2. \A e \in Events : P(e) \cap UserHooks = {}
    BY SetupAssumption DEF ClaudesprintHooks
  <2> HIDE DEF P, ours
  <2>3. ours.hooks \in [Events -> [Names -> Nat]]
    BY <2>1, ListedCounts
  <2>4. ASSUME NEW e \in Events, NEW n \in Names
        PROVE  ours.hooks[e][n] = IF n \in P(e) THEN 1 ELSE 0
    <3>1. ours.hooks[e] = Listed(P(e))
      BY <2>1
    <3> QED BY <3>1, ListedCounts
  <2>5. \A e \in Events : \A n \in Names : ours.hooks[e][n] <= 1
    BY <2>4
  <2>6. \A e \in Events : \A n \in UserHooks : ours.hooks[e][n] = 0
    BY <2>2, <2>4 DEF Names
  <2> QED BY <2>3, <2>5, <2>6
<1>3. ours.plugins \in SUBSET OPTIONAL_FEATURES
  BY DEF BuildHooksConfig, GetEnabledPlugins, DetectAll
<1>4. /\ new.plugins = old.plugins \cup ours.plugins
      /\ new = [hooks |-> new.hooks, plugins |-> new.plugins]
      /\ new.hooks = MergeHooks(old.hooks, ours.hooks)
  BY DEF Injected
<1> HIDE DEF ours, new
<1>5. /\ new.hooks \in [Events -> [Names -> Nat]]
      /\ \A e \in Events : \A n \in Names :
           new.hooks[e][n] = ours.hooks[e][n]
                             + IF n \in ClaudesprintHooks THEN 0 ELSE old.hooks[e][n]
  <2> DEFINE T(e, n) == ours.hooks[e][n]
                        + IF n \in ClaudesprintHooks THEN 0 ELSE old.hooks[e][n]
  <2>1. new.hooks = [e \in Events |-> [n \in Names |-> T(e, n)]]
    BY <1>4 DEF MergeHooks, Joined, RemoveClaudesprintHooks
  <2>2. old.hooks \in [Events -> [Names -> Nat]]
    BY <1>1 DEF Contents
  <2>3. \A e \in Events : \A n \in Names : T(e, n) \in Nat
    BY <1>2, <2>2
  <2> HIDE DEF T
  <2>4. new.hooks \in [Events -> [Names -> Nat]]
        /\ \A e \in Events : \A n \in Names : new.hooks[e][n] = T(e, n)
    BY <2>1, <2>3
  <2> QED BY <2>4 DEF T
<1>6. new \in Contents
  BY <1>1, <1>3, <1>4, <1>5 DEF Contents
<1>7. old.hooks \in [Events -> [Names -> Nat]]
  BY <1>1 DEF Contents
<1>8. \A e \in Events : \A n \in UserHooks : new.hooks[e][n] = old.hooks[e][n]
  BY <1>2, <1>5, <1>7, SetupAssumption DEF Names
<1>9. Proper(old)
  BY NoHooksEmpty DEF Proper, Names, Events
<1>10. Proper(new)
  <2>1. \A e \in Events : \A n \in ClaudesprintHooks : new.hooks[e][n] <= 1
    BY <1>2, <1>5 DEF Names
  <2>2. \A n \in UserHooks : new.hooks["Stop"][n] = 0
    BY <1>1, <1>8, <1>9, ContentsAreWhole DEF Proper, Events
  <2> QED BY <2>1, <2>2 DEF Proper
<1>11. Entries(new, UserHooks) = Entries(old, UserHooks)
  BY <1>1, <1>6, <1>8, ContentsAreWhole DEF Entries
<1>12. Entries(old, UserHooks) = Entries(file, UserHooks)
  <2>1. CASE file = Absent
    <3>1. ~Whole(file) /\ Whole(NoHooks) /\ old = NoHooks
      BY <2>1, NoHooksEmpty, ContentsAreWhole DEF Whole
    <3>2. \A e \in Events : \A n \in UserHooks : NoHooks.hooks[e][n] = 0
      BY NoHooksEmpty DEF Names
    <3>3. {n \in UserHooks : \E e \in Events : NoHooks.hooks[e][n] > 0} = {}
      BY <3>2
    <3> QED BY <3>1, <3>3 DEF Entries
  <2> QED BY <2>1
<1> QED BY <1>6, <1>10, <1>11, <1>12 DEF new

\* The user's editor leaves the user's entries of now, and no others.
LEMMA UserSaves ==
    ASSUME NEW file \in Contents \cup {Absent, Damaged}, Proper(file),
           NEW names \in SUBSET UserHooks
    PROVE  LET new == WithUserHooks(file, names)
           IN  /\ new \in Contents
               /\ Proper(new)
               /\ Entries(new, UserHooks) = names
<1> DEFINE old == IF Whole(file) THEN file ELSE NoHooks
           new == WithUserHooks(file, names)
           saved == [n \in Names |-> IF n \in ClaudesprintHooks
                                     THEN old.hooks["PreToolUse"][n] ELSE Listed(names)[n]]
<1>1. old \in Contents /\ Proper(old)
  BY NoHooksEmpty DEF Whole, Proper, Names, Events
<1>2. old.hooks \in [Events -> [Names -> Nat]] /\ "PreToolUse" \in Events
      /\ "Stop" \in Events
  BY <1>1 DEF Contents, Events
<1>3. new = [old EXCEPT !.hooks = [old.hooks EXCEPT !["PreToolUse"] = saved]]
  BY DEF WithUserHooks
<1>4. saved \in [Names -> Nat]
  BY <1>2, ListedCounts
<1>5. /\ new.hooks = [old.hooks EXCEPT !["PreToolUse"] = saved]
      /\ new \in Contents
  <2> DEFINE hooks == [old.hooks EXCEPT !["PreToolUse"] = saved]
  <2>1. hooks \in [Events -> [Names -> Nat]]
    BY <1>2, <1>4
  <2> HIDE DEF new, old, saved, hooks
  <2>2. new = [old EXCEPT !.hooks = hooks]
    BY <1>3 DEF hooks
  <2>3. new.hooks = hooks /\ new \in Contents
    BY <1>1, <2>1, <2>2 DEF Contents
  <2> QED BY <2>3 DEF hooks
<1>6. new.hooks["PreToolUse"] = saved /\ new.hooks["Stop"] = old.hooks["Stop"]
  BY <1>2, <1>5
<1>7. \A n \in UserHooks : saved[n] = IF n \in names THEN 1 ELSE 0
  BY ListedCounts, SetupAssumption DEF Names
<1>8. \A n \in ClaudesprintHooks : saved[n] = old.hooks["PreToolUse"][n]
  BY DEF Names
<1>9. Whole(old) /\ Whole(new)
  BY <1>1, <1>5, ContentsAreWhole
<1> HIDE DEF new, old, saved
<1>10. Proper(new)
  BY <1>1, <1>6, <1>8, <1>9 DEF Proper, Events
<1>11. Entries(new, UserHooks) = names
  BY <1>1, <1>6, <1>7, <1>9 DEF Proper, Entries, Events
<1> QED BY <1>5, <1>10, <1>11 DEF new

-----------------------------------------------------------------------------
(* Each step.                                                               *)

LEMMA HooksInit == SetupInit => HooksInv
<1> SUFFICES ASSUME SetupInit PROVE HooksInv
  OBVIOUS
<1>1. settings = Absent /\ backup = Absent /\ merged = NoHooks /\ mine = {}
      /\ command.at = "idle"
  BY DEF SetupInit, Idle
<1>2. ~Whole(Absent) /\ Absent # Damaged
  BY ConfigAssumption DEF Whole
<1>3. SettingsInv
  <2>1. command = Idle
    BY DEF SetupInit
  <2>2. Idle \in [at : {"idle"}, force : BOOLEAN, inject : BOOLEAN, features : DetectAll]
    BY DEF Idle, DetectAll
  <2> QED BY <1>1, <2>1, <2>2, NoHooksEmpty DEF SettingsInv
<1>4. ProperInv
  BY <1>1, <1>2, NoHooksEmpty DEF ProperInv, Proper, Names, Events
<1> QED BY <1>1, <1>2, <1>3, <1>4 DEF HooksInv, KeptInv, BackupInv, UserHooksKept, Merging

\* What the places have in common: a command goes to the next one, or ends.
LEMMA Places ==
    ASSUME SettingsInv
    PROVE  /\ Idle \in [at : {"idle"}, force : BOOLEAN, inject : BOOLEAN,
                        features : DetectAll]
           /\ \A place \in {"read", "backup", "open", "write"} : Goes(place) =>
                command' \in [at : {place}, force : BOOLEAN, inject : BOOLEAN,
                              features : DetectAll]
           /\ Proper(NoHooks) /\ NoHooks \in Contents
<1>1. Proper(NoHooks)
  BY NoHooksEmpty DEF Proper, Names, Events
<1>2. command.features \in DetectAll
  BY DEF SettingsInv
<1>3. {} \in DetectAll
  BY DEF DetectAll
<1>4. ASSUME NEW place \in {"read", "backup", "open", "write"}, Goes(place)
      PROVE  command' \in [at : {place}, force : BOOLEAN, inject : BOOLEAN,
                            features : DetectAll]
  BY <1>2, <1>3, <1>4 DEF Goes
<1>5. Idle \in [at : {"idle"}, force : BOOLEAN, inject : BOOLEAN, features : DetectAll]
  BY <1>3 DEF Idle
<1> QED BY <1>1, <1>4, <1>5, NoHooksEmpty

\* inject_hooks reads the file.
LEMMA ReadStep ==
    ASSUME HooksInv, ReadSettings
    PROVE  HooksInv'
<1> USE DEF HooksInv
<1>1. UNCHANGED <<settings, backup, mine, raced>> /\ command.at = "read"
  BY DEF ReadSettings
<1>2. CASE settings = Damaged
  <2>1. merged' = NoHooks /\ command' = Idle /\ UNCHANGED backedUp
    BY <1>2 DEF ReadSettings, Ends
  <2> QED BY <1>1, <1>2, <2>1, Places
          DEF SettingsInv, ProperInv, KeptInv, BackupInv, UserHooksKept, Merging
<1>3. CASE settings # Damaged
  <2> DEFINE next == IF settings = Absent THEN "open" ELSE "backup"
  <2>1. merged' = Injected(settings, command.features) /\ Goes(next) /\ backedUp' = FALSE
    BY <1>3 DEF ReadSettings
  <2>2. settings \in Contents \cup {Absent} /\ Proper(settings)
        /\ command.features \in DetectAll
    BY <1>3 DEF SettingsInv, ProperInv
  <2>3. /\ merged' \in Contents
        /\ Proper(merged')
        /\ Entries(merged', UserHooks) = Entries(settings, UserHooks)
    BY <2>1, <2>2, Injection
  <2>4. ~raced => Entries(settings, UserHooks) = mine
    BY <1>3 DEF KeptInv, UserHooksKept, Entries, Whole
  <2>5. command' \in [at : {next}, force : BOOLEAN, inject : BOOLEAN, features : DetectAll]
    BY <2>1, Places
  <2>6. SettingsInv' /\ ProperInv'
    BY <1>1, <2>3, <2>5 DEF SettingsInv, ProperInv
  <2>7. KeptInv'
    BY <1>1, <2>3, <2>4 DEF KeptInv, UserHooksKept
  <2>8. BackupInv'
    BY <1>1, <1>3, <2>1, <2>5, ConfigAssumption DEF BackupInv, Whole
  <2> QED BY <2>6, <2>7, <2>8
<1> QED BY <1>2, <1>3

\* backup_settings copies it, or fails to.
LEMMA BackupStep ==
    ASSUME HooksInv, BackupSettings
    PROVE  HooksInv'
<1> USE DEF HooksInv
<1>1. UNCHANGED <<settings, merged, mine, raced>> /\ command.at = "backup"
  BY DEF BackupSettings
<1>2. command' \in [at : {"open"}, force : BOOLEAN, inject : BOOLEAN, features : DetectAll]
  BY Places DEF BackupSettings
<1>3. backup' \in {settings, backup, Damaged} /\ ~Whole(Damaged)
  BY DEF BackupSettings, Whole
<1>4. SettingsInv' /\ ProperInv'
  BY <1>1, <1>2, <1>3 DEF SettingsInv, ProperInv, Proper
<1>5. KeptInv'
  BY <1>1, <1>2 DEF KeptInv, UserHooksKept, Merging
<1>6. BackupInv'
  <2>1. Whole(settings) /\ ~backedUp
    BY <1>1 DEF BackupInv
  <2>2. ~raced => Entries(settings, UserHooks) = mine
    BY <2>1 DEF KeptInv, UserHooksKept
  <2>3. backedUp' => backup' = settings
    BY <2>1 DEF BackupSettings
  <2> QED BY <1>1, <1>2, <2>1, <2>2, <2>3 DEF BackupInv, Whole
<1> QED BY <1>4, <1>5, <1>6

\* write_settings opens the file, which empties it, and writes.
LEMMA WriteStep ==
    ASSUME HooksInv, OpenSettings \/ WriteSettings \/ CommandDies
    PROVE  HooksInv'
<1> USE DEF HooksInv
<1>1. UNCHANGED <<backup, mine, raced, backedUp>>
  BY DEF OpenSettings, WriteSettings, CommandDies
<1>2. CASE OpenSettings /\ settings' = Damaged
  <2>1. command.at = "open" /\ merged' = merged /\ Goes("write")
    BY <1>2, ConfigAssumption DEF OpenSettings, BackupInv
  <2>2. command' \in [at : {"write"}, force : BOOLEAN, inject : BOOLEAN,
                      features : DetectAll]
    BY <2>1, Places
  <2>3. ~Whole(Damaged) /\ Absent # Damaged
    BY ConfigAssumption DEF Whole
  <2> QED BY <1>1, <1>2, <2>1, <2>2, <2>3
          DEF SettingsInv, ProperInv, Proper, KeptInv, BackupInv, UserHooksKept, Merging
<1>3. CASE (WriteSettings /\ settings' = merged)
  <2>1. command.at = "write" /\ command' = Idle /\ merged' = NoHooks
    BY <1>3 DEF WriteSettings, Ends
  <2>2. Whole(merged)
    BY ContentsAreWhole DEF SettingsInv
  <2> QED BY <1>1, <1>3, <2>1, <2>2, Places
          DEF SettingsInv, ProperInv, KeptInv, BackupInv, UserHooksKept, Merging, Whole
<1>4. CASE UNCHANGED settings /\ command' = Idle /\ merged' = NoHooks
  BY <1>1, <1>4, Places
  DEF SettingsInv, ProperInv, KeptInv, BackupInv, UserHooksKept, Merging
<1> QED BY <1>2, <1>3, <1>4 DEF OpenSettings, WriteSettings, CommandDies, Ends

\* The user saves the file, or goes back to the backup.
LEMMA UserStep ==
    ASSUME HooksInv, NEW names \in SUBSET UserHooks, EditSettings(names) \/ RestoreBackup
    PROVE  HooksInv'
<1> USE DEF HooksInv
<1>1. UNCHANGED <<backup, command, merged, backedUp>>
  BY DEF EditSettings, RestoreBackup
<1>2. CASE EditSettings(names)
  <2>1. /\ settings' = WithUserHooks(settings, names)
        /\ mine' = names
        /\ raced' = (command.at \in {"backup", "open", "write"})
    BY <1>2 DEF EditSettings
  <2>2. /\ settings' \in Contents /\ Proper(settings')
        /\ Entries(settings', UserHooks) = names
    BY <2>1, UserSaves DEF SettingsInv, ProperInv
  <2>3. Whole(settings')
    BY <2>2, ContentsAreWhole
  <2> QED BY <1>1, <2>1, <2>2, <2>3
          DEF SettingsInv, ProperInv, KeptInv, BackupInv, UserHooksKept, Merging, Whole
<1>3. CASE RestoreBackup
  <2>1. /\ settings' = backup /\ Whole(backup) /\ command.at = "idle"
        /\ mine' = Entries(backup, UserHooks)
    BY <1>3 DEF RestoreBackup, Idle
  <2>2. mine' \subseteq UserHooks
    BY <2>1 DEF Entries
  <2> QED BY <1>1, <2>1, <2>2
          DEF SettingsInv, ProperInv, KeptInv, BackupInv, UserHooksKept, Merging, Whole
<1> QED BY <1>2, <1>3

\* A command begins, or writes config.toml, and touches no settings.
LEMMA CommandStep ==
    ASSUME HooksInv,
           \/ \E force, inject \in BOOLEAN, features \in DetectAll :
                InitRepo(force, inject, features)
           \/ \E force \in BOOLEAN, features \in DetectAll : RefreshFeatures(force, features)
           \/ WriteConfig
    PROVE  HooksInv'
<1> USE DEF HooksInv
<1>1. UNCHANGED <<settings, backup, mine, raced, backedUp>>
  BY DEF InitRepo, RefreshFeatures, WriteConfig
<1>2. command' \in [at : {"idle", "config", "read"}, force : BOOLEAN, inject : BOOLEAN,
                    features : DetectAll]
  <2>1. CASE \E force, inject \in BOOLEAN, features \in DetectAll :
               InitRepo(force, inject, features)
    BY <2>1 DEF InitRepo
  <2>2. CASE \E force \in BOOLEAN, features \in DetectAll : RefreshFeatures(force, features)
    <3>1. PICK force \in BOOLEAN, features \in DetectAll : RefreshFeatures(force, features)
      BY <2>2
    <3> QED BY <3>1 DEF RefreshFeatures
  <2>3. CASE WriteConfig
    <3>1. Goes("read") \/ command' = Idle
      BY <2>3 DEF WriteConfig, InjectsNext, Ends
    <3> QED BY <3>1, Places
  <2> QED BY <2>1, <2>2, <2>3
<1>3. merged' \in {merged, NoHooks}
  BY DEF InitRepo, RefreshFeatures, WriteConfig, InjectsNext, Ends
<1> QED BY <1>1, <1>2, <1>3, Places
        DEF SettingsInv, ProperInv, KeptInv, BackupInv, UserHooksKept, Merging

LEMMA HooksStep == HooksInv /\ [SetupNext]_vars => HooksInv'
<1> SUFFICES ASSUME HooksInv, [SetupNext]_vars PROVE HooksInv'
  OBVIOUS
<1>1. CASE UNCHANGED setupVars
  BY <1>1 DEF setupVars, HooksInv, SettingsInv, ProperInv, KeptInv, BackupInv,
              UserHooksKept, Merging
<1> QED BY <1>1, ReadStep, BackupStep, WriteStep, UserStep, CommandStep
        DEF SetupNext, vars

\* ClaudeSettingsService.inject_hooks, however often, with whatever features, and
\* wherever it dies: the user's entries are in the file as long as it can be read.
THEOREM Kept == SetupSpec => []UserHooksKept
<1>1. HooksInv => UserHooksKept
  BY DEF HooksInv, KeptInv
<1> QED BY <1>1, HooksInit, HooksStep, PTL DEF SetupSpec

\* _merge_hooks never doubles an entry of ClaudeSprint's own.
THEOREM Once == SetupSpec => []HooksOnce
<1>1. HooksInv => HooksOnce
  BY DEF HooksInv, ProperInv, Proper, HooksOnce
<1> QED BY <1>1, HooksInit, HooksStep, PTL DEF SetupSpec

\* backup_settings: what a command damaged is in the backup it made, whatever
\* commands come after it.
THEOREM Recoverable == SetupSpec => []DamageRecoverable
<1>1. HooksInv => DamageRecoverable
  BY DEF HooksInv, BackupInv, DamageRecoverable
<1> QED BY <1>1, HooksInit, HooksStep, PTL DEF SetupSpec
=============================================================================
