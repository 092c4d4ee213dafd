----------------------------- MODULE PluginSetup -----------------------------
(***************************************************************************)
(* gosh-agent setup and uninstall: the agent's configuration, its hooks    *)
(* and MCP entries in the files of the coding CLIs, its autostart unit and *)
(* the daemon that the unit supervises.                                    *)
(*                                                                         *)
(* A run works its way through a list of steps.  A step on a file reads    *)
(* it, changes it and writes it back, with nothing to keep others out in   *)
(* between.  Steps whose error the code propagates end the run; the errors *)
(* of the others are ignored.  A file that is not valid JSON reads as      *)
(* empty.  Entries of one event stand for those of all events.             *)
(***************************************************************************)
EXTENDS Integers, Sequences, FiniteSets

CONSTANTS
  Agents,      \* agent instances of this host
  User,        \* whoever else has entries in the files
  Dirs,        \* directories setup is run from
  Home,        \* the home directory, if it is one of them
  Root,        \* the root of the file system, if it is one of them
  KeyOf,       \* the memory key each directory resolves to, or None
  Jobs,        \* the setups considered
  HostClis,    \* the sets of coding CLIs this host may have
  Edited,      \* the files the user edits
  DefaultPort, \* 8767
  None,
  MaxRuns,     \* bound on the runs of setup and uninstall
  Faults       \* the faults the environment may inject

FaultKinds == {"io",     \* a file cannot be written
               "cli",    \* a command fails
               "crash",  \* a run is killed
               "edit"}   \* the user edits a file

Platforms == {"claude", "codex", "gemini"}   \* VALID_PLATFORMS
Scopes == {"project", "user"}

ASSUME SetupAssumption ==
  /\ User \notin Agents /\ None \notin Agents \cup {User}
  /\ KeyOf \in [Dirs -> STRING \cup {None}]
  /\ \A job \in Jobs :
       job # None /\ job.kind = "setup" /\ job.scope \in Scopes /\ job.dir \in Dirs
  /\ DefaultPort \in Nat /\ MaxRuns \in Nat
  /\ HostClis \subseteq SUBSET Platforms /\ HostClis # {}
  /\ Faults \subseteq FaultKinds

VARIABLES
  clis,       \* the CLIs this host has
  disk,       \* the CLIs' files: matcher groups of hooks, each the set of those who have a
              \* hook in it, and whose MCP entries with the port they dial
  unreadable, \* the files that are not valid JSON
  registry,   \* the MCP entries that claude and codex keep themselves
  config,     \* each agent's GlobalConfig, or None
  unit,       \* the agents that have an autostart unit
  daemon,     \* the configuration each agent's daemon runs with, or None
  proc,       \* each agent's run
  runs,       \* runs begun
  last,       \* history: each agent's last run, if it has returned and no step of it failed
  lost,       \* history: files whose content was overwritten without having been seen
  swept       \* history: files where a step dropped an agent's group with the user's hook in it

fileVars == <<disk, unreadable, lost, swept>>
daemonVars == <<unit, daemon>>
runVars == <<proc, last>>
vars == <<clis, runs, fileVars, registry, config, daemonVars, runVars>>

Owners == Agents \cup {User}
Idle == [at |-> "idle"]

-----------------------------------------------------------------------------
(* Where things are.                                                       *)

\* The settings or hooks file of a platform: the project file of the home
\* directory is the user's file.
Settings(p, scope, d) == <<p, IF scope = "user" \/ d = Home THEN "user" ELSE d>>
McpJson(d) == <<"mcp.json", d>>
Files == {Settings(p, s, d) : p \in Platforms, s \in Scopes, d \in Dirs}
         \cup {McpJson(d) : d \in Dirs}

Empty == [hooks |-> {}, mcp |-> {}]
HasHook(o, content) == \E group \in content.hooks : o \in group
OtherScope(s) == IF s = "user" THEN "project" ELSE "user"

\* is_local_mcp_compatible_bind: the proxy, which has no token, reaches the
\* daemon over loopback.
LocallyReachable(bind) == bind \in {"loopback", "any"}

Init ==
  /\ clis \in HostClis
  /\ disk = [f \in Files |-> [hooks |-> {{User}}, mcp |-> {<<User, DefaultPort>>}]]
  /\ unreadable = {} /\ lost = {} /\ swept = {}
  /\ registry = [p \in {"claude", "codex"} |-> {}]
  /\ config = [a \in Agents |-> None]
  /\ unit = {} /\ daemon = [a \in Agents |-> None]
  /\ proc = [a \in Agents |-> Idle]
  /\ runs = 0 /\ last = [a \in Agents |-> None]

-----------------------------------------------------------------------------
(* The steps of a run.                                                     *)

Step(kind, where, put, must) == [kind |-> kind, where |-> where, put |-> put, must |-> must]

\* The file of this scope is written and the other cleaned, unless they are one
\* file; or both are cleaned.  A missing file is one without entries.
Both(kind, p, d) ==
  <<Step(kind, Settings(p, "user", d), FALSE, FALSE),
    Step(kind, Settings(p, "project", d), FALSE, FALSE)>>
Install(kind, p, s, d) ==
  <<Step(kind, Settings(p, s, d), TRUE, TRUE)>>
  \o IF Settings(p, OtherScope(s), d) = Settings(p, s, d) THEN <<>>
     ELSE <<Step(kind, Settings(p, OtherScope(s), d), FALSE, TRUE)>>

Add(p) == Step("cli", p, TRUE, TRUE)
Remove(p) == Step("cli", p, FALSE, FALSE)

\* The hooks of this scope are written, then those of the other removed.
ConfigureClaudeHooks(s, d) == Install("hooks", "claude", s, d)
ConfigureCodexHooks(s, d) == Install("hooks", "codex", s, d)
ConfigureGeminiHooks(s, d) == Install("hooks", "gemini", s, d)

\* Claude keeps the user's entries itself; codex keeps all of them.
ConfigureClaudeMcpProject(d) == <<Remove("claude"), Step("mcp", McpJson(d), TRUE, TRUE)>>
ConfigureClaudeMcpUser(d) ==
  <<Remove("claude"), Step("mcp", McpJson(d), FALSE, TRUE), Add("claude")>>
ConfigureCodexMcp == <<Remove("codex"), Add("codex")>>
ConfigureGeminiMcp(s, d) == Install("mcp", "gemini", s, d)

\* Both scopes are cleaned.
RemoveClaudeHooks(d) == Both("hooks", "claude", d)
RemoveCodexHooks(d) == Both("hooks", "codex", d)
RemoveGeminiHooks(d) == Both("hooks", "gemini", d)
RemoveClaudeMcp(d) == <<Remove("claude"), Step("mcp", McpJson(d), FALSE, TRUE)>>
RemoveCodexMcp == <<Remove("codex")>>
RemoveGeminiMcp(d) == Both("mcp", "gemini", d)

\* Mutant: the other scope is left as it is.
ConfigureHooksOnly(p, s, d) == <<Step("hooks", Settings(p, s, d), TRUE, TRUE)>>

ConfigureHooks(p, s, d) ==
  CASE p = "claude" -> ConfigureClaudeHooks(s, d)
    [] p = "codex" -> ConfigureCodexHooks(s, d)
    [] p = "gemini" -> ConfigureGeminiHooks(s, d)
ConfigureMcp(p, s, d) ==
  CASE p = "claude" /\ s = "user" -> ConfigureClaudeMcpUser(d)
    [] p = "claude" /\ s = "project" -> ConfigureClaudeMcpProject(d)
    [] p = "codex" -> ConfigureCodexMcp
    [] p = "gemini" -> ConfigureGeminiMcp(s, d)

\* Mutant: the user's file is left as it is.
RemoveHooksHere(p, d) == <<Step("hooks", Settings(p, "project", d), FALSE, FALSE)>>

RemoveHooks(p, d) ==
  CASE p = "claude" -> RemoveClaudeHooks(d)
    [] p = "codex" -> RemoveCodexHooks(d)
    [] p = "gemini" -> RemoveGeminiHooks(d)
RemoveMcp(p, d) ==
  CASE p = "claude" -> RemoveClaudeMcp(d)
    [] p = "codex" -> RemoveCodexMcp
    [] p = "gemini" -> RemoveGeminiMcp(d)

\* remove_platform goes on after an error.
Lenient(steps) == [i \in DOMAIN steps |-> [steps[i] EXCEPT !.must = FALSE]]
RemovePlatform(p, d) == Lenient(RemoveHooks(p, d) \o RemoveMcp(p, d))

Each(steps) == steps["claude"] \o steps["codex"] \o steps["gemini"]

Selected(job) == IF job.platforms = {} THEN clis ELSE clis \cap job.platforms

\* What run does once the configuration c is written: clean up the platforms
\* that were not selected, configure those that are, refresh the unit.
SetupSteps(job, c) ==
  Each([p \in Platforms |->
          IF job.platforms # {} /\ p \notin job.platforms THEN RemovePlatform(p, job.dir) ELSE <<>>])
  \o IF Selected(job) = {} THEN <<>>
     ELSE Each([p \in Platforms |->
                  IF p \notin Selected(job) THEN <<>>
                  ELSE ConfigureHooks(p, job.scope, job.dir)
                       \o IF LocallyReachable(c.bind) THEN ConfigureMcp(p, job.scope, job.dir)
                          ELSE RemoveMcp(p, job.dir)])
          \o IF job.autostart THEN <<Step("unit", None, TRUE, FALSE)>> ELSE <<>>

UninstallSteps(d) ==
  <<Step("unit", None, FALSE, FALSE)>>
  \o Each([p \in Platforms |-> RemovePlatform(p, d)])
  \o <<Step("state", None, FALSE, FALSE)>>

-----------------------------------------------------------------------------
(* The configuration.                                                      *)

Or(x, y) == IF x # None THEN x ELSE y

Default == [bind |-> "loopback", port |-> DefaultPort, key |-> None, swarm |-> None]
Loaded(a) == IF config[a] = None THEN Default ELSE config[a]

\* resolve_setup_key and resolve_setup_swarm
ResolvedKey(a, job) == Or(job.key, Or(Loaded(a).key, KeyOf[job.dir]))
ResolvedSwarm(a, job) == IF job.noSwarm THEN None ELSE Or(job.swarm, Loaded(a).swarm)

\* write_global_config: what is not given stays as it is.
Patched(a, job) ==
  [bind |-> Or(job.bind, Loaded(a).bind), port |-> Or(job.port, Loaded(a).port),
   key |-> ResolvedKey(a, job), swarm |-> ResolvedSwarm(a, job)]

-----------------------------------------------------------------------------
(* A run.                                                                  *)

\* writes_project_files_in_cwd, in the root directory
WritesInRoot(job) == job.scope = "project" /\ job.dir = Root

\* The checks before anything is written.
Begin(a, job) ==
  /\ proc[a] = Idle /\ runs < MaxRuns
  /\ ~WritesInRoot(job)
  /\ ResolvedKey(a, job) # None
  /\ proc' = [proc EXCEPT ![a] = [at |-> "config", job |-> job]]
  /\ runs' = runs + 1 /\ last' = [last EXCEPT ![a] = None]
  /\ UNCHANGED <<clis, fileVars, registry, config, daemonVars>>

Working(job, steps) ==
  [at |-> "work", job |-> job, todo |-> steps, read |-> None, failed |-> FALSE]

BeginUninstall(a, d) ==
  /\ proc[a] = Idle /\ runs < MaxRuns
  /\ proc' = [proc EXCEPT ![a] = Working([kind |-> "uninstall", dir |-> d], UninstallSteps(d))]
  /\ runs' = runs + 1 /\ last' = [last EXCEPT ![a] = None]
  /\ UNCHANGED <<clis, fileVars, registry, config, daemonVars>>

WriteConfig(a) ==
  /\ proc[a].at = "config"
  /\ LET c == Patched(a, proc[a].job) IN
     /\ config' = [config EXCEPT ![a] = c]
     /\ proc' = [proc EXCEPT ![a] = Working(proc[a].job, SetupSteps(proc[a].job, c))]
  /\ UNCHANGED <<clis, runs, last, fileVars, registry, daemonVars>>

At(a, kinds) == proc[a].at = "work" /\ proc[a].todo # <<>> /\ Head(proc[a].todo).kind \in kinds
Current(a) == Head(proc[a].todo)
NextStep(a, failed) ==
  proc' = [proc EXCEPT ![a].todo = Tail(@), ![a].read = None, ![a].failed = @ \/ failed]

\* load_json_or_empty
Contents(f) == IF f \in unreadable THEN Empty ELSE disk[f]

\* The entry dials the port of the configuration (build_mcp_proxy_args).
ProxyEntry(a) == <<a, config[a].port>>

\* Mutant: the hooks of others go too.
UpsertAll(a, step, c) ==
  CASE step.kind = "hooks" -> [c EXCEPT !.hooks = IF step.put THEN {{a}} ELSE {}]
    [] step.kind = "mcp" ->
         [c EXCEPT !.mcp = {e \in @ : e[1] # a}
            \cup IF step.put THEN {ProxyEntry(a)} ELSE {}]

\* item_matches_agent: the groups that have a hook of this agent, which go whole,
\* whoever else has a hook in them.
Matching(a, c) == {group \in c.hooks : a \in group}

\* What a step makes of a file: this agent's groups are replaced by one of its own,
\* or removed; so is its MCP entry.
Updated(a, step, c) ==
  CASE step.kind = "hooks" -> [c EXCEPT !.hooks = (@ \ Matching(a, c)) \cup IF step.put THEN {{a}} ELSE {}]
    [] step.kind = "mcp" ->
         [c EXCEPT !.mcp = {e \in @ : e[1] # a}
            \cup IF step.put THEN {ProxyEntry(a)} ELSE {}]

\* A removal that finds nothing to remove does not write; nor does one of a file
\* that cannot be read, which the history counts as a failure.
Read(a) ==
  /\ At(a, {"hooks", "mcp"}) /\ proc[a].read = None
  /\ LET c == Contents(Current(a).where) IN
     IF Current(a).put \/ Updated(a, Current(a), c) # c
     THEN proc' = [proc EXCEPT ![a].read = c]
     ELSE NextStep(a, Current(a).where \in unreadable)
  /\ UNCHANGED <<clis, runs, last, fileVars, registry, config, daemonVars>>

Write(a) ==
  /\ At(a, {"hooks", "mcp"}) /\ proc[a].read # None
  /\ LET f == Current(a).where IN
     /\ disk' = [disk EXCEPT ![f] = Updated(a, Current(a), proc[a].read)]
     /\ unreadable' = unreadable \ {f}
     /\ lost' = IF proc[a].read = disk[f] THEN lost ELSE lost \cup {f}
     /\ swept' = IF Current(a).kind = "hooks" /\ \E group \in Matching(a, proc[a].read) : User \in group
                 THEN swept \cup {f} ELSE swept
  /\ NextStep(a, FALSE)
  /\ UNCHANGED <<clis, runs, last, registry, config, daemonVars>>

Registered(a, p) == \E e \in registry[p] : e[1] = a

\* "mcp add" refuses a name that exists.
RunCli(a) ==
  /\ At(a, {"cli"})
  /\ LET p == Current(a).where IN
     /\ Current(a).put => ~Registered(a, p)
     /\ registry' = [registry EXCEPT ![p] = {e \in @ : e[1] # a}
          \cup IF Current(a).put THEN {ProxyEntry(a)} ELSE {}]
  /\ NextStep(a, FALSE)
  /\ UNCHANGED <<clis, runs, last, fileVars, config, daemonVars>>

\* Mutant: a unit that is enabled already is not restarted.
EnableUnit(a) ==
  /\ At(a, {"unit"}) /\ Current(a).put
  /\ unit' = unit \cup {a}
  /\ daemon' = [daemon EXCEPT ![a] = Or(@, config[a])]
  /\ NextStep(a, FALSE)
  /\ UNCHANGED <<clis, runs, last, fileVars, registry, config>>

\* The unit starts the daemon, or restarts it, with the configuration as it is.
InstallUnit(a) ==
  /\ At(a, {"unit"}) /\ Current(a).put
  /\ unit' = unit \cup {a}
  /\ daemon' = [daemon EXCEPT ![a] = config[a]]
  /\ NextStep(a, FALSE)
  /\ UNCHANGED <<clis, runs, last, fileVars, registry, config>>

\* The unit file cannot be written, or is there but the daemon was not restarted,
\* or only stopped.
InstallUnitFails(a) ==
  /\ At(a, {"unit"}) /\ Current(a).put
  /\ \/ "io" \in Faults /\ UNCHANGED daemonVars
     \/ /\ "cli" \in Faults /\ unit' = unit \cup {a}
        /\ daemon' \in {daemon, [daemon EXCEPT ![a] = None]}
  /\ NextStep(a, TRUE)
  /\ UNCHANGED <<clis, runs, last, fileVars, registry, config>>

RemoveUnit(a) ==
  /\ At(a, {"unit"}) /\ ~Current(a).put
  /\ unit' = unit \ {a}
  /\ daemon' = IF a \in unit THEN [daemon EXCEPT ![a] = None] ELSE daemon
  /\ NextStep(a, FALSE)
  /\ UNCHANGED <<clis, runs, last, fileVars, registry, config>>

\* The command that stops the daemon fails and the file is removed, or the
\* other way round.
RemoveUnitFails(a) ==
  /\ At(a, {"unit"}) /\ ~Current(a).put /\ a \in unit
  /\ \/ "cli" \in Faults /\ unit' = unit \ {a} /\ UNCHANGED daemon
     \/ "io" \in Faults /\ UNCHANGED unit /\ daemon' = [daemon EXCEPT ![a] = None]
  /\ NextStep(a, TRUE)
  /\ UNCHANGED <<clis, runs, last, fileVars, registry, config>>

RemoveState(a) ==
  /\ At(a, {"state"})
  /\ config' = [config EXCEPT ![a] = None]
  /\ NextStep(a, FALSE)
  /\ UNCHANGED <<clis, runs, last, fileVars, registry, daemonVars>>

\* Whether the current step can fail and change nothing.
MayFail(a) ==
  \/ At(a, {"hooks", "mcp"}) /\ proc[a].read # None /\ "io" \in Faults
  \/ At(a, {"cli"}) /\ "cli" \in Faults
  \/ At(a, {"cli"}) /\ Current(a).put /\ Registered(a, Current(a).where)
  \/ At(a, {"state"}) /\ "io" \in Faults

\* A write that does not complete may leave the file empty.
Torn(a) ==
  /\ At(a, {"hooks", "mcp"}) /\ proc[a].read # None
  /\ disk' = [disk EXCEPT ![Current(a).where] = Empty]
  /\ lost' = lost \cup {Current(a).where}
  /\ UNCHANGED <<unreadable, swept>>

StepFails(a) ==
  /\ MayFail(a)
  /\ IF Current(a).must THEN proc' = [proc EXCEPT ![a] = Idle] ELSE NextStep(a, TRUE)
  /\ Torn(a) \/ UNCHANGED fileVars
  /\ UNCHANGED <<clis, runs, last, registry, config, daemonVars>>

\* The configuration that a write leaves when it does not complete: none, for a
\* cut file does not load.
TornConfig(a) == proc[a].at = "config" /\ config' = [config EXCEPT ![a] = None]

\* GlobalConfig::save fails: before the file is opened, while it is written, or
\* when its mode is set.
ConfigFails(a) ==
  /\ proc[a].at = "config" /\ "io" \in Faults
  /\ proc' = [proc EXCEPT ![a] = Idle]
  /\ \/ TornConfig(a)
     \/ config' \in {config, [config EXCEPT ![a] = Patched(a, proc[a].job)]}
  /\ UNCHANGED <<clis, runs, last, fileVars, registry, daemonVars>>

Return(a) ==
  /\ proc[a].at = "work" /\ proc[a].todo = <<>>
  /\ last' = [last EXCEPT ![a] = IF proc[a].failed THEN None ELSE proc[a].job]
  /\ proc' = [proc EXCEPT ![a] = Idle]
  /\ UNCHANGED <<clis, runs, fileVars, registry, config, daemonVars>>

\* A run is killed, perhaps in the middle of a write.
Crash(a) ==
  /\ "crash" \in Faults /\ proc[a] # Idle
  /\ proc' = [proc EXCEPT ![a] = Idle]
  /\ \/ UNCHANGED <<fileVars, config>>
     \/ TornConfig(a) /\ UNCHANGED fileVars
     \/ Torn(a) /\ UNCHANGED config
  /\ UNCHANGED <<clis, runs, last, registry, daemonVars>>

-----------------------------------------------------------------------------
(* What else happens on the host.                                          *)

\* The user leaves a file that is not valid JSON, or repairs it.
Edit(f) ==
  /\ "edit" \in Faults
  /\ unreadable' = IF f \in unreadable THEN unreadable \ {f} ELSE unreadable \cup {f}
  /\ UNCHANGED <<clis, runs, disk, lost, swept, registry, config, daemonVars, runVars>>

\* The user moves its hook into the matcher group of an agent, or out of it.
Regroup(f) ==
  /\ "edit" \in Faults /\ f \notin unreadable
  /\ \E group \in disk[f].hooks \ {{User}} :
       \/ /\ {User} \in disk[f].hooks
          /\ disk' = [disk EXCEPT ![f].hooks = (@ \ {group, {User}}) \cup {group \cup {User}}]
       \/ /\ User \in group
          /\ disk' = [disk EXCEPT ![f].hooks = (@ \ {group}) \cup {group \ {User}, {User}}]
  /\ UNCHANGED <<clis, runs, unreadable, lost, swept, registry, config, daemonVars, runVars>>

\* The supervisor starts the daemon again: it reads the configuration anew, and
\* refuses to run without one.
Restart(a) ==
  /\ a \in unit
  /\ daemon' = [daemon EXCEPT ![a] = config[a]]
  /\ UNCHANGED <<clis, runs, fileVars, registry, config, unit, runVars>>

RunStep(a) ==
  \/ WriteConfig(a) \/ ConfigFails(a) \/ Read(a) \/ Write(a) \/ RunCli(a)
  \/ InstallUnit(a) \/ InstallUnitFails(a) \/ RemoveUnit(a) \/ RemoveUnitFails(a)
  \/ RemoveState(a) \/ StepFails(a) \/ Return(a)

Next ==
  \/ \E a \in Agents, job \in Jobs : Begin(a, job)
  \/ \E a \in Agents, d \in Dirs : BeginUninstall(a, d)
  \/ \E a \in Agents : RunStep(a) \/ Crash(a) \/ Restart(a)
  \/ \E f \in Edited : Edit(f) \/ Regroup(f)

Spec == Init /\ [][Next]_vars

-----------------------------------------------------------------------------
(* Properties.                                                             *)

Ports == {DefaultPort} \cup ({job.port : job \in Jobs} \ {None})
Content == [hooks : SUBSET SUBSET Owners, mcp : SUBSET (Owners \X Ports)]

TypeOK ==
  /\ clis \in HostClis
  /\ disk \in [Files -> Content] /\ unreadable \subseteq Files
  /\ lost \subseteq Files /\ swept \subseteq Files
  /\ registry \in [{"claude", "codex"} -> SUBSET (Agents \X Ports)]
  /\ \A a \in Agents : config[a] = None \/ config[a].port \in Ports
  /\ unit \subseteq Agents /\ runs \in 0..MaxRuns
  /\ \A a \in Agents : proc[a].at \in {"idle", "config", "work"}

\* Where an agent's hooks for a platform fire, and its MCP entries are read, in a
\* directory.
HooksSeen(a, p, d) == {f \in {Settings(p, s, d) : s \in Scopes} : HasHook(a, disk[f])}
McpFiles(p, d) ==
  CASE p = "claude" -> {McpJson(d)}
    [] p = "codex" -> {}
    [] p = "gemini" -> {Settings(p, s, d) : s \in Scopes}
McpSeen(a, p, d) ==
  (UNION {{<<f, e[2]>> : e \in {x \in disk[f].mcp : x[1] = a}} : f \in McpFiles(p, d)})
  \cup IF p \in DOMAIN registry THEN {<<"cli", e[2]>> : e \in {x \in registry[p] : x[1] = a}} ELSE {}

McpPlace(p, s, d) ==
  CASE p = "claude" -> IF s = "user" THEN "cli" ELSE McpJson(d)
    [] p = "codex" -> "cli"
    [] p = "gemini" -> Settings(p, s, d)

Configured(a, p, job) ==
  /\ HooksSeen(a, p, job.dir) = {Settings(p, job.scope, job.dir)}
  /\ McpSeen(a, p, job.dir) =
       IF LocallyReachable(config[a].bind)
       THEN {<<McpPlace(p, job.scope, job.dir), config[a].port>>} ELSE {}

Absent(a, p, d) == HooksSeen(a, p, d) = {} /\ McpSeen(a, p, d) = {}

\* The files of a platform that are read in a directory, none of which has been
\* overwritten unseen.
Intact(p, d) ==
  ({Settings(p, s, d) : s \in Scopes} \cup McpFiles(p, d)) \cap lost = {}

\* When a setup has returned and no step of it failed, each selected CLI runs the
\* agent's hooks from exactly one of the files it reads in that directory and, if
\* the daemon can be reached over loopback, has exactly one entry that dials the
\* configured port; a CLI that was not selected has neither.  So it is whatever
\* earlier runs left half done and whatever other agents set up meanwhile.
SetupInstalls ==
  \A a \in Agents :
    last[a] # None /\ last[a].kind = "setup" =>
      \A p \in Platforms : Intact(p, last[a].dir) =>
        /\ p \in Selected(last[a]) => Configured(a, p, last[a])
        /\ last[a].platforms # {} /\ p \notin last[a].platforms => Absent(a, p, last[a].dir)

\* What others have put into the files stays there, unless a file could not be
\* read, was being written by two at once, or its writer was killed.  Only a hook that
\* the user has put into an agent's matcher group goes with that group.
OthersKept ==
  \A f \in Files \ lost :
    <<User, DefaultPort>> \in disk[f].mcp /\ (f \notin swept => HasHook(User, disk[f]))

\* When an uninstall has returned and no step of it failed, the agent has no hook
\* and no entry that is read in that directory, no unit and no configuration,
\* whatever earlier runs left half done.
UninstallCleans ==
  \A a \in Agents :
    last[a] # None /\ last[a].kind = "uninstall" =>
      /\ \A p \in Platforms : Intact(p, last[a].dir) => Absent(a, p, last[a].dir)
      /\ a \notin unit /\ config[a] = None

\* A supervised daemon runs with the configuration that the last setup wrote, if
\* that setup had a CLI to configure and no step of it failed.
DaemonRefreshed ==
  \A a \in Agents :
    last[a] # None /\ last[a].kind = "setup" /\ last[a].autostart /\ Selected(last[a]) # {} =>
      a \in unit /\ daemon[a] = config[a]
=============================================================================
