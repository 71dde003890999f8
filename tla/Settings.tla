------------------------------ MODULE Settings ------------------------------
(***************************************************************************)
(* The settings in force in each gateway process: loaded when it starts    *)
(* from defaults, the configuration file and the environment, checked, and *)
(* replaced in part by a reload of the file while it runs.                 *)
(*                                                                         *)
(* Only the settings that validate() relates to each other are kept, each  *)
(* with a few values; a switch is 0 or 1.  "safe" stands for the rules     *)
(* that speak of one cold section alone (require_consent,                  *)
(* allow_unverified_nodes, the discovery rules, ...).                      *)
(***************************************************************************)
EXTENDS Naturals

CONSTANTS
    Gateways,   \* processes
    Files,      \* contents the configuration file may have: layers, or Broken
    Environs,   \* layers an environment (with the command line put into it) may set
    Broken,     \* a file that does not parse, or names an unknown parameter
    NotRunning

Hot == {"apply", "metaOnly", "limit"}       \* HOT_RELOAD_SECTIONS: health, privacy, limits
Cold == {"loops", "sync", "store", "safe"}  \* COLD_SECTIONS: server, security, discovery
Names == Hot \cup Cold
Layers == UNION {[part -> 0 .. 2] : part \in SUBSET Names}
Full == [Names -> 0 .. 2]

ASSUME SettingsAssumption ==
    /\ Broken \notin Layers /\ NotRunning \notin Full
    /\ Files \subseteq Layers \cup {Broken} /\ Environs \subseteq Layers

VARIABLES
    file,     \* what the file says now
    environ,  \* per process: its environment
    force     \* per process: the settings in force

settingsVars == <<file, environ, force>>

SettingsTypeOK ==
    /\ file \in Files
    /\ environ \in [Gateways -> Environs]
    /\ force \in [Gateways -> Full \cup {NotRunning}]

SettingsInit ==
    /\ file \in Files
    /\ environ \in [Gateways -> Environs]
    /\ force = [g \in Gateways |-> NotRunning]

-----------------------------------------------------------------------------

\* default_settings: loops run, everything safe, a sync interval of 1 and 1 to apply.
Default(x) == IF x = "store" THEN 0 ELSE 1

\* Mutant: the file is laid over the environment.
FileLast(layer, env) ==
    [x \in Names |-> IF x \in DOMAIN layer THEN layer[x]
                     ELSE IF x \in DOMAIN env THEN env[x] ELSE Default(x)]

\* apply_overlay, twice: defaults, the file, the environment.
Overlaid(layer, env) ==
    [x \in Names |-> IF x \in DOMAIN env THEN env[x]
                     ELSE IF x \in DOMAIN layer THEN layer[x] ELSE Default(x)]

\* validate: the rules of one section, and the two that relate a hot to a cold one.
SectionRules(s) == s["safe"] = 1 /\ s["limit"] > 0
ReplicaInTime(s) == s["loops"] = 1 \/ s["sync"] <= s["apply"]
PromptsAllowed(s) == s["metaOnly"] = 1 \/ s["store"] = 1
Valid(s) == SectionRules(s) /\ ReplicaInTime(s) /\ PromptsAllowed(s)

\* Mutant: nothing is checked.
LoadsUnchecked(g) == file # Broken

\* load_settings does not raise.
Loads(g) == file # Broken /\ Valid(Overlaid(file, environ[g]))

Running(g) == force[g] # NotRunning

\* The operator edits the file, or the environment of a process that is down.
Edit == file' \in Files \ {file} /\ UNCHANGED <<environ, force>>
Prepare(g) ==
    /\ ~Running(g)
    /\ \E e \in Environs : environ' = [environ EXCEPT ![g] = e]
    /\ UNCHANGED <<file, force>>

\* create_app; with settings that do not load the process does not come up.
StartGateway(g) ==
    /\ ~Running(g) /\ Loads(g)
    /\ force' = [force EXCEPT ![g] = Overlaid(file, environ[g])]
    /\ UNCHANGED <<file, environ>>
StopGateway(g) ==
    /\ Running(g)
    /\ force' = [force EXCEPT ![g] = NotRunning]
    /\ UNCHANGED <<file, environ>>

\* reload_config: the file as a whole is loaded and checked, then its hot sections
\* are put in force next to the cold ones of the start.  If it does not load, or the
\* caller is no administrator, nothing changes.
ReloadGateway(g) ==
    /\ Running(g) /\ Loads(g)
    /\ force' = [force EXCEPT ![g] = [x \in Names |->
          IF x \in Hot THEN Overlaid(file, environ[g])[x] ELSE force[g][x]]]
    /\ UNCHANGED <<file, environ>>

SettingsNext ==
    \/ Edit
    \/ \E g \in Gateways : Prepare(g) \/ StartGateway(g) \/ StopGateway(g) \/ ReloadGateway(g)

SettingsSpec == SettingsInit /\ [][SettingsNext]_settingsVars

-----------------------------------------------------------------------------
(* Properties                                                               *)

\* Whatever is edited and reloaded, no process runs with a rule of a single section
\* broken: no traffic without consent, no unchecked limit (validate, reload_config).
SafeInForce == \A g \in Gateways : Running(g) => SectionRules(force[g])

\* What the environment sets is in force from the start to the end of the process; a
\* reload of the file does not take it back (main puts the command line there for it).
EnvironmentPrevails ==
    \A g \in Gateways : Running(g) => \A x \in DOMAIN environ[g] : force[g][x] = environ[g][x]

\* The settings in force satisfy validate.  They do not: see the README.
ValidInForce == \A g \in Gateways : Running(g) => Valid(force[g])

=============================================================================
