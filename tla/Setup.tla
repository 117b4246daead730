------------------------------- MODULE Setup -------------------------------
(***************************************************************************)
(* The commands that write a repository's configuration, `init-repo` and    *)
(* `features refresh`, beside the user, who edits the same files, and runs, *)
(* which read them (Config).                                                *)
(*                                                                         *)
(* Both commands put ClaudeSprint's hooks into .claude/settings.json, a     *)
(* file of the user's: it is read, copied to settings.json.backup and       *)
(* written in place, so that a crash or a full disk in between leaves it    *)
(* empty.  Skills, prompts' README and .gitignore are left out.             *)
(***************************************************************************)
EXTENDS Config, Naturals

CONSTANT UserHooks  \* entries of the user's own under PreToolUse

ClaudesprintHooks == {"server-guard", "browser-guard", "autonomous-continue"}
OPTIONAL_FEATURES == {"agent-browser", "context7"}
Events == {"PreToolUse", "Stop"}
Names == UserHooks \cup ClaudesprintHooks

ASSUME SetupAssumption == UserHooks \cap ClaudesprintHooks = {}

VARIABLES
    initialized,  \* a command has made .claudesprint/
    settings,     \* .claude/settings.json: absent, damaged, hooks and plugins
    backup,       \* settings.json.backup, likewise
    command,      \* the command that runs: its place, and its options
    merged,       \* the settings it is about to write
    \* History, for the properties only.
    mine,         \* the user's entries, as the user left them
    raced,        \* the user saved the file under a running command
    backedUp      \* the last command that came so far made its backup

setupVars == <<initialized, settings, backup, command, merged, mine, raced, backedUp>>
vars      == <<configVars, setupVars>>

-----------------------------------------------------------------------------
(* The contents of settings.json: how often the list of each event has an   *)
(* entry.  Their order in it matters to nothing here.                       *)
Contents == [hooks : [Events -> [Names -> Nat]], plugins : SUBSET OPTIONAL_FEATURES]

ASSUME ContentsAssumption == {Absent, Damaged} \cap Contents = {}

Listed(names) == [n \in Names |-> IF n \in names THEN 1 ELSE 0]

NoHooks == [hooks |-> [e \in Events |-> Listed({})], plugins |-> {}]
Whole(file) == file \notin {Absent, Damaged}

Entries(file, names) ==
    IF Whole(file) THEN {n \in names : \E e \in Events : file.hooks[e][n] > 0} ELSE {}

\* The user's own entries are these, once each; ClaudeSprint's are left alone.
WithUserHooks(file, names) ==
    LET old == IF Whole(file) THEN file ELSE NoHooks
    IN [old EXCEPT !.hooks["PreToolUse"] =
           [n \in Names |-> IF n \in ClaudesprintHooks THEN @[n] ELSE Listed(names)[n]]]

\* What is detected: each command asks anew, and gets no answer in time, or a
\* flag of the command line has the last word.
DetectAll == SUBSET OPTIONAL_FEATURES

GetEnabledPlugins(features) == features \cap {"context7"}

\* What is to be in the file, with these features.
BuildHooksConfig(features) ==
    [hooks |-> [e \in Events |-> Listed(
        IF e = "Stop" THEN {"autonomous-continue"}
        ELSE IF "agent-browser" \in features THEN {"server-guard", "browser-guard"}
        ELSE {"server-guard"})],
     plugins |-> GetEnabledPlugins(features)]

RemoveClaudesprintHooks(list) ==
    [n \in Names |-> IF n \in ClaudesprintHooks THEN 0 ELSE list[n]]

Joined(list, other) == [n \in Names |-> list[n] + other[n]]

\* Mutant: what an earlier injection put there is not removed.
MergeHooksBesideOld(existing, new) == [e \in Events |-> Joined(new[e], existing[e])]

\* Mutant: the new entries take the place of all entries of the event.
MergeHooksInPlace(existing, new) ==
    [e \in Events |-> IF new[e] # Listed({}) THEN new[e] ELSE existing[e]]

MergeHooks(existing, new) ==
    [e \in Events |-> Joined(new[e], RemoveClaudesprintHooks(existing[e]))]

\* Plugins are only ever added.
Injected(file, features) ==
    LET old == IF file = Absent THEN NoHooks ELSE file
        new == BuildHooksConfig(features)
    IN [hooks |-> MergeHooks(old.hooks, new.hooks),
        plugins |-> old.plugins \cup new.plugins]

-----------------------------------------------------------------------------
Idle == [at |-> "idle", force |-> FALSE, inject |-> FALSE, features |-> {}]
Goes(place) ==
    command' = [at |-> place, force |-> FALSE, inject |-> FALSE,
                features |-> IF place = "read" THEN command.features ELSE {}]
Ends == command' = Idle /\ merged' = NoHooks

SetupInit ==
    /\ ConfigInit
    /\ initialized = FALSE
    /\ settings = Absent /\ backup = Absent
    /\ command = Idle /\ merged = NoHooks
    /\ mine = {} /\ raced = FALSE /\ backedUp = FALSE

\* .claudesprint/ is there: the user may have made it.
Exists == initialized \/ projectFile # Absent

InitRepo(force, inject, features) ==
    /\ command = Idle
    /\ ~Exists \/ force
    /\ initialized' = TRUE
    /\ command' = [at |-> "config", force |-> force, inject |-> inject, features |-> features]
    /\ UNCHANGED <<configVars, settings, backup, merged, mine, raced, backedUp>>

InjectsNext ==
    IF command.inject THEN Goes("read") /\ UNCHANGED merged ELSE Ends

\* config.toml is written in place as well; an empty one is TOML.
WriteConfig ==
    /\ command.at = "config"
    /\ IF projectFile = Absent \/ command.force
       THEN \/ projectFile' = DEFAULT_PROJECT_CONFIG_TOML /\ InjectsNext
            \/ projectFile' = EmptyFile /\ Ends
       ELSE UNCHANGED projectFile /\ InjectsNext
    /\ UNCHANGED <<globalFile, run, environment, flags, config, cached>>
    /\ UNCHANGED <<initialized, settings, backup, mine, raced, backedUp>>

\* `features refresh`: with settings there and without --force only the hooks.
RefreshFeatures(force, features) ==
    /\ command = Idle
    /\ Exists
    /\ command' = IF settings = Absent \/ force
                  THEN [at |-> "config", force |-> TRUE, inject |-> TRUE, features |-> features]
                  ELSE [at |-> "read", force |-> FALSE, inject |-> TRUE, features |-> features]
    /\ UNCHANGED <<configVars, initialized, settings, backup, merged, mine, raced, backedUp>>

\* Mutant: a file that cannot be read is taken for one without hooks.
ReadSettingsAnyhow ==
    /\ command.at = "read"
    /\ merged' = Injected(IF Whole(settings) THEN settings ELSE Absent, command.features)
    /\ Goes(IF settings = Absent THEN "open" ELSE "backup")
    /\ backedUp' = (backedUp /\ settings = Damaged)
    /\ UNCHANGED <<configVars, initialized, settings, backup, mine, raced>>

\* inject_hooks: a file that is no JSON is left alone, and its backup with it.
ReadSettings ==
    /\ command.at = "read"
    /\ IF settings = Damaged
       THEN Ends /\ UNCHANGED backedUp
       ELSE /\ merged' = Injected(settings, command.features)
            /\ Goes(IF settings = Absent THEN "open" ELSE "backup")
            /\ backedUp' = FALSE
    /\ UNCHANGED <<configVars, initialized, settings, backup, mine, raced>>

\* A backup that fails is reported, and the file is written all the same.
BackupSettings ==
    /\ command.at = "backup"
    /\ \/ backup' = settings /\ backedUp' = Whole(settings)
       \/ backup' \in {backup, Damaged} /\ UNCHANGED backedUp
    /\ Goes("open")
    /\ UNCHANGED <<configVars, initialized, settings, merged, mine, raced>>

\* write_text opens, and so empties, the file.
OpenSettings ==
    /\ command.at = "open"
    /\ \/ settings' = Damaged /\ Goes("write") /\ UNCHANGED merged
       \/ Ends /\ UNCHANGED settings
    /\ UNCHANGED <<configVars, initialized, backup, mine, raced, backedUp>>

WriteSettings ==
    /\ command.at = "write"
    /\ \/ settings' = merged
       \/ UNCHANGED settings
    /\ Ends
    /\ UNCHANGED <<configVars, initialized, backup, mine, raced, backedUp>>

CommandDies ==
    /\ command # Idle
    /\ Ends
    /\ UNCHANGED <<configVars, initialized, settings, backup, mine, raced, backedUp>>

\* The user saves other entries, over a damaged file too.
EditSettings(names) ==
    /\ settings' = WithUserHooks(settings, names)
    /\ mine' = names
    /\ raced' = (command.at \in {"backup", "open", "write"})
    /\ UNCHANGED <<configVars, initialized, backup, command, merged, backedUp>>

\* The user goes back to the backup.
RestoreBackup ==
    /\ command = Idle
    /\ settings = Damaged /\ Whole(backup)
    /\ settings' = backup
    /\ mine' = Entries(backup, UserHooks)
    /\ raced' = FALSE
    /\ UNCHANGED <<configVars, initialized, backup, command, merged, backedUp>>

SetupNext ==
    \/ ConfigNext /\ UNCHANGED setupVars
    \/ \E force, inject \in BOOLEAN, features \in DetectAll :
         InitRepo(force, inject, features)
    \/ \E force \in BOOLEAN, features \in DetectAll :
         RefreshFeatures(force, features)
    \/ WriteConfig
    \/ ReadSettings
    \/ BackupSettings
    \/ OpenSettings
    \/ WriteSettings
    \/ CommandDies
    \/ \E names \in SUBSET UserHooks : EditSettings(names)
    \/ RestoreBackup

SetupSpec == SetupInit /\ [][SetupNext]_vars

-----------------------------------------------------------------------------
\* However often the commands run, fail and die, with whatever features, the
\* entries the user made are in the file as long as it can be read, unless the
\* user saved it under a running command ("Preserves user-defined hooks that
\* don't conflict", claude_settings_service.py, inject_hooks).
UserHooksKept ==
    Whole(settings) /\ ~raced => Entries(settings, UserHooks) = mine

\* No sequence of injections, restored backups and edits leaves one of
\* ClaudeSprint's own entries in the file twice: each would be run twice for
\* every tool call of the agent (_merge_hooks).
HooksOnce ==
    Whole(settings) => \A e \in Events, n \in ClaudesprintHooks : settings.hooks[e][n] <= 1

\* A command that dies while it writes the file, or writes it to a full disk,
\* and whatever commands come after it, leave the user's entries in the backup
\* it made: nothing copies a file that cannot be read over it.
DamageRecoverable ==
    settings = Damaged /\ backedUp /\ ~raced =>
        Whole(backup) /\ Entries(backup, UserHooks) = mine
=============================================================================
