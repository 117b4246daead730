------------------------------- MODULE Config -------------------------------
(***************************************************************************)
(* Where the settings of a run come from: the environment, the project's    *)
(* .claudesprint/config.toml, the user's global config.toml and the         *)
(* defaults written into the code.                                          *)
(*                                                                         *)
(* A run merges the layers once (ClaudesprintConfig.from_project_root) and  *)
(* then asks a ConfigurationManager of its own, which reads the project's   *)
(* file once more and keeps what it read, for the models.  Between the two  *)
(* the run may wait for the user's answer about a dirty working directory.  *)
(***************************************************************************)

CONSTANTS
    Shared,  \* settings both files have a place for
    Local,   \* settings only the project's file has a place for
    Flagged, \* settings the command line has a flag for
    Values,  \* what a user may set, other than the default
    On,      \* the one a flag sets
    Models,  \* opus, sonnet, haiku
    Absent,  \* no such file
    Damaged  \* a file that cannot be parsed

Settings == Shared \cup Local

Unset   == "unset"    \* the layer says nothing
Default == "default"  \* the value written into the code, and the templates
Invalid == "invalid"  \* outside the bounds of the schema: ValidationError

\* A step with a model of its own in the project's file, and one without.
Steps == {"implement", "select-issue"}

Said == Values \cup {Unset, Default, Invalid}

ASSUME ConfigAssumption ==
    /\ Shared \cap Local = {}
    /\ Flagged \subseteq Settings /\ On \in Values
    /\ {Unset, Default, Invalid} \cap Values = {}
    /\ {Unset, Default, Invalid} \cap Models = {}
    /\ Absent # Damaged

\* An environment has a variable for each setting and one for the model; a
\* word there that names no model is ignored.
Environments ==
    [setting : [Settings -> Said \ {Default}], model_override : Models \cup {Unset}]

\* The project's file chooses models as well: for all steps, for one, and for
\* those without one of their own; the default of each is not told from none.
ProjectFiles == {Absent, Damaged} \cup
    [setting : [Settings -> Said], model_override : Models \cup {Unset},
     step_model : Models \cup {Unset}, default_model : Models \cup {Unset}]

GlobalFiles == {Absent, Damaged} \cup [setting : [Shared -> Said]]

EmptyFile == [setting |-> [s \in Settings |-> Unset],
              model_override |-> Unset, step_model |-> Unset, default_model |-> Unset]
DEFAULT_PROJECT_CONFIG_TOML ==
    [setting |-> [s \in Settings |-> Default],
     model_override |-> Unset, step_model |-> Unset, default_model |-> Unset]
DEFAULT_CONFIG_TOML == [setting |-> [s \in Shared |-> Default]]

ASSUME FilesAssumption == Absent \notin {EmptyFile, DEFAULT_PROJECT_CONFIG_TOML}

VARIABLES
    globalFile,   \* the global config.toml
    projectFile,  \* .claudesprint/config.toml
    run,          \* how far a run has come: "none", "configured", "running"
    environment,  \* os.environ of the run
    flags,        \* the flags it was given
    config,       \* its ClaudesprintConfig
    cached        \* _project_config of its ConfigurationManager

configVars == <<globalFile, projectFile, run, environment, flags, config, cached>>

-----------------------------------------------------------------------------
(* Reading a file.                                                          *)
IsToml(file) == file \notin {Absent, Damaged}

\* What the file itself says.
Says(file, s) == IF IsToml(file) THEN file.setting[s] ELSE Unset

\* A value out of bounds anywhere in it raises, and ends the command.
Validates(file, where) == \A s \in where : Says(file, s) # Invalid

\* A file that cannot be read counts as one that says nothing, and what a
\* file does not say has its default from here on.
Filled(file, where) ==
    [s \in where |-> IF Says(file, s) = Unset THEN Default ELSE Says(file, s)]

ProjectConfig(file) ==
    [setting |-> Filled(file, Settings),
     model_override |-> IF IsToml(file) THEN file.model_override ELSE Unset,
     step_model |-> IF IsToml(file) THEN file.step_model ELSE Unset,
     default_model |-> IF IsToml(file) THEN file.default_model ELSE Unset]

(* Merging the layers.                                                      *)
Unnamed(env, where) == {s \in where : env.setting[s] = Unset}

\* Mutant: what the environment names is not left out.
GetProjectConfigValuesAll(file, env) ==
    [s \in (IF file = Absent THEN {} ELSE Settings) |->
        ProjectConfig(file).setting[s]]

GetProjectConfigValues(file, env) ==
    [s \in (IF file = Absent THEN {} ELSE Unnamed(env, Settings)) |->
        ProjectConfig(file).setting[s]]

GetGlobalFlatDict(file) == Filled(file, Shared)

GetGlobalDefaults(file, env) ==
    [s \in (IF file = Absent THEN {} ELSE Unnamed(env, Shared)) |->
        GetGlobalFlatDict(file)[s]]

Kwargs(global, project, env) ==
    LET above == GetProjectConfigValues(project, env)
        below == GetGlobalDefaults(global, env)
    IN [s \in DOMAIN above \cup DOMAIN below |->
            IF s \in DOMAIN above THEN above[s] ELSE below[s]]

FromProjectRoot(global, project, env) ==
    [s \in Settings |->
        IF s \in DOMAIN Kwargs(global, project, env)
        THEN Kwargs(global, project, env)[s]
        ELSE IF env.setting[s] = Unset THEN Default ELSE env.setting[s]]

Loads(global, project, env) ==
    /\ Validates(global, Shared)
    /\ Validates(project, Settings)
    /\ \A s \in Settings : env.setting[s] # Invalid

(* The model of a step.                                                     *)
\* Mutant: the file is read anew for every step.
ProjectUncached == IF run = "running" THEN ProjectConfig(projectFile) ELSE cached
Project == cached

ManagersModel(step) ==
    IF Project.model_override # Unset THEN Project.model_override
    ELSE IF step = "select-issue" THEN Project.default_model
    ELSE Project.step_model

GetModelForStep(step) ==
    IF environment.model_override # Unset THEN environment.model_override
    ELSE ManagersModel(step)

-----------------------------------------------------------------------------
NoEnvironment == [setting |-> [s \in Settings |-> Unset], model_override |-> Unset]
NoConfig      == [s \in Settings |-> Default]

ConfigInit ==
    /\ globalFile \in {Absent, DEFAULT_CONFIG_TOML}
    /\ projectFile = Absent
    /\ run = "none" /\ environment = NoEnvironment /\ flags = {}
    /\ config = NoConfig /\ cached = ProjectConfig(Absent)

\* `claudesprint run` begins; with a value that does not validate it ends here.
\* A flag has the last word.
GetConfig ==
    /\ run = "none"
    /\ \E env \in Environments :
         /\ Loads(globalFile, projectFile, env)
         /\ environment' = env
         /\ flags' \in SUBSET Flagged
         /\ config' = [s \in Settings |-> IF s \in flags' THEN On
                          ELSE FromProjectRoot(globalFile, projectFile, env)[s]]
    /\ run' = "configured"
    /\ UNCHANGED <<globalFile, projectFile, cached>>

\* The services are made: the manager's first look at the project's file.
StartServices ==
    /\ run = "configured"
    /\ Validates(projectFile, Settings)
    /\ cached' = ProjectConfig(projectFile)
    /\ run' = "running"
    /\ UNCHANGED <<globalFile, projectFile, environment, flags, config>>

RunEnds ==
    /\ run # "none"
    /\ run' = "none" /\ environment' = NoEnvironment /\ flags' = {}
    /\ config' = NoConfig /\ cached' = ProjectConfig(Absent)
    /\ UNCHANGED <<globalFile, projectFile>>

\* `claudesprint config init`, with or without --force.
ConfigFileInit(force) ==
    /\ globalFile = Absent \/ force
    /\ globalFile' = DEFAULT_CONFIG_TOML
    /\ UNCHANGED <<projectFile, run, environment, flags, config, cached>>

\* `claudesprint config edit`, or any other editor, saves something.
EditGlobal ==
    /\ globalFile' \in GlobalFiles \ {Absent}
    /\ UNCHANGED <<projectFile, run, environment, flags, config, cached>>

EditProject ==
    /\ projectFile' \in ProjectFiles \ {Absent}
    /\ UNCHANGED <<globalFile, run, environment, flags, config, cached>>

ConfigNext ==
    \/ GetConfig
    \/ StartServices
    \/ RunEnds
    \/ \E force \in BOOLEAN : ConfigFileInit(force)
    \/ EditGlobal
    \/ EditProject

ConfigSpec == ConfigInit /\ [][ConfigNext]_configVars

-----------------------------------------------------------------------------
\* Whatever the two files say, and whatever becomes of them while it runs, a
\* run has each setting as its environment has it, unless a flag was given for
\* it.  What the files say for such a setting, defaults that were filled in
\* included, is left out before the layers are merged, since what is merged goes
\* before the environment (models/config.py, _get_project_config_values,
\* _get_global_defaults).
EnvironmentFirst ==
    run # "none" => \A s \in Settings \ flags :
        environment.setting[s] # Unset => config[s] = environment.setting[s]

\* A run uses one model for a step from its first session to its last, though
\* the user edits the project's file meanwhile, breaks it, or init-repo
\* overwrites it: the manager reads it once (configuration_manager.py, project).
ModelFixed ==
    [][run = "running" /\ run' = "running" =>
        \A step \in Steps : GetModelForStep(step)' = GetModelForStep(step)]_configVars
=============================================================================
