---------------------------- MODULE StrategyConfig ----------------------------
(***************************************************************************)
(* The strategy configuration of mev-strategies (config_manager.rs): a     *)
(* manager with the configuration in memory and a watcher that owns it and *)
(* reloads the file.  An editor changes the file at any moment, in place   *)
(* or by removing and creating it.                                         *)
(***************************************************************************)
EXTENDS Naturals, Sequences

CONSTANTS
  Configs,                 \* contents that parse
  DefaultConfig,           \* StrategyConfigFile::default()
  Absent, Partial,         \* no file; a file that does not parse
  MAX_EDITS                \* bound

ASSUME ConfigConstants ==
  /\ DefaultConfig \in Configs /\ MAX_EDITS \in Nat
  /\ Absent # Partial /\ {Absent, Partial} \cap Configs = {}

VARIABLES
  config_on_disk,          \* external: the file
  config_file,             \* ConfigManager::config_file
  manager,                 \* the step of the manager's call in progress
  old_config,              \* local of hot_reload
  listener,                \* history: what on_change was last given
  watched,                 \* the manager was handed to a watcher
  unwritten,               \* history: the defaults are in force since a write
                           \* that failed, and nobody was told
  edits

configVars == <<config_on_disk, config_file, manager, old_config, listener,
                watched, unwritten, edits>>

ConfigInit ==
  /\ config_on_disk \in {Absent, Partial} \cup Configs
  /\ config_file = DefaultConfig
  /\ manager = "idle" /\ old_config = DefaultConfig
  /\ listener = DefaultConfig
  /\ watched = FALSE /\ unwritten = FALSE /\ edits = 0

-----------------------------------------------------------------------------
\* external: an editor truncates, writes, removes or creates the file.
Edit(content) ==
  /\ edits < MAX_EDITS /\ edits' = edits + 1
  /\ config_on_disk' = content
  /\ UNCHANGED <<config_file, manager, old_config, listener, watched, unwritten>>

\* load_from_file called by the owner, before there is a watcher.
StartLoad ==
  /\ manager = "idle" /\ ~watched
  /\ manager' = "exists" /\ UNCHANGED <<config_on_disk, config_file, old_config,
                                        listener, watched, unwritten, edits>>

\* update_strategy_config, set_strategy_enabled, update_global_config and
\* import_from_json change the configuration in memory only.
UpdateInMemory(c) ==
  /\ manager = "idle" /\ ~watched
  /\ config_file' = c /\ listener' = c /\ unwritten' = FALSE
  /\ UNCHANGED <<config_on_disk, manager, old_config, watched, edits>>

\* fs::write fails before it truncates the file or after.
WriteFails == config_on_disk' \in {config_on_disk, Partial}

SaveToFile ==
  /\ manager = "idle" /\ ~watched
  /\ config_on_disk' = config_file \/ WriteFails
  /\ UNCHANGED <<config_file, manager, old_config, listener, watched, unwritten,
                 edits>>

\* ConfigWatcher::new and start_watching.
StartWatching ==
  /\ manager = "idle" /\ ~watched /\ watched' = TRUE
  /\ UNCHANGED <<config_on_disk, config_file, manager, old_config, listener,
                 unwritten, edits>>

\* hot_reload, at a tick: no metadata, no reload.
HotReload ==
  /\ manager = "idle" /\ watched
  /\ config_on_disk # Absent
  /\ old_config' = config_file /\ manager' = "exists"
  /\ UNCHANGED <<config_on_disk, config_file, listener, watched, unwritten, edits>>

\* load_from_file: the file may have gone since.
CheckExists ==
  /\ manager = "exists"
  /\ manager' = IF config_on_disk = Absent THEN "create" ELSE "read"
  /\ UNCHANGED <<config_on_disk, config_file, old_config, listener, watched,
                 unwritten, edits>>

\* create_default_config puts the defaults in force and then writes them over
\* whatever is there by now.  A write that fails ends the call with an error,
\* the defaults in force.
CreateDefault ==
  /\ manager = "create"
  /\ config_file' = DefaultConfig
  /\ \/ config_on_disk' = DefaultConfig /\ manager' = "compare" /\ UNCHANGED unwritten
     \/ WriteFails /\ manager' = "idle" /\ unwritten' = TRUE
  /\ UNCHANGED <<old_config, listener, watched, edits>>

\* A file that is gone or does not parse ends the call with an error and leaves
\* the configuration in memory.
ReadAndParse ==
  /\ manager = "read"
  /\ \/ /\ config_on_disk \in Configs
        /\ config_file' = config_on_disk /\ manager' = "compare"
     \/ /\ config_on_disk \in {Absent, Partial}
        /\ manager' = "idle" /\ UNCHANGED config_file
  /\ UNCHANGED <<config_on_disk, old_config, listener, watched, unwritten, edits>>

\* on_change, or the owner's own load, learns what is in force.
Tell == listener' = config_file /\ unwritten' = FALSE

\* Variant: a changed configuration may compare equal.
CompareNames ==
  /\ manager = "compare" /\ manager' = "idle"
  /\ Tell \/ (watched /\ UNCHANGED <<listener, unwritten>>)
  /\ UNCHANGED <<config_on_disk, config_file, old_config, watched, edits>>

\* The rest of hot_reload and of the watcher's tick.  configs_equal compares the
\* text of two hash maps, whose order differs from map to map: what is equal
\* may be reported as changed, what differs always is.
Compare ==
  /\ manager = "compare" /\ manager' = "idle"
  /\ \/ Tell
     \/ watched /\ config_file = old_config /\ UNCHANGED <<listener, unwritten>>
  /\ UNCHANGED <<config_on_disk, config_file, old_config, watched, edits>>

ManagerStep ==
  HotReload \/ CheckExists \/ CreateDefault \/ ReadAndParse \/ Compare

ConfigNext ==
  \/ \E content \in {Absent, Partial} \cup Configs : Edit(content)
  \/ StartLoad \/ SaveToFile \/ StartWatching
  \/ \E c \in Configs : UpdateInMemory(c)
  \/ ManagerStep

-----------------------------------------------------------------------------
(* Properties                                                              *)

\* Through failed reloads, files that come and go and edits between two steps
\* of a reload, the listeners of a watcher miss one change only: between two
\* ticks they were last given the configuration in force, unless the defaults
\* are since a write that failed (start_watching, create_default_config).
ListenersCurrent ==
  manager = "idle" =>
    listener = config_file \/ (unwritten /\ config_file = DefaultConfig)

\* A watcher's reload that cannot read or parse the file leaves the old
\* configuration.  It puts the defaults in force when they are on disk, and in
\* one case when they are not: the file went between the tick and the load, and
\* the defaults could not be written (hot_reload, load_from_file).
NoSilentDefaults ==
  [][watched /\ config_file' = DefaultConfig /\ config_file # DefaultConfig
       => \/ config_on_disk' = DefaultConfig
          \/ /\ manager = "create" /\ unwritten'
             /\ config_on_disk' \in {config_on_disk, Partial}]_configVars

\* When the editor leaves a file that parses alone, the watcher puts it in force
\* and tells the listeners (hot_reload, every watch_interval_seconds), unless
\* it found no file first and wrote the defaults over it.  Only a file of the
\* defaults, after a write of them that failed, may never be announced.
EditsArrive ==
  \A c \in Configs :
    <>[](watched /\ config_on_disk = c) =>
      <>[]( /\ config_file = c
            /\ listener = c \/ (unwritten /\ c = DefaultConfig))
=============================================================================
