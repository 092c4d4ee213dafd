---------------------------- MODULE PluginProofs ----------------------------
(***************************************************************************)
(* Proofs about the plugin's two halves: PluginSetup, which writes the     *)
(* CLIs' files, and Capture, the hooks that those files make the CLIs run. *)
(* They share no state.                                                    *)
(*                                                                         *)
(* PluginSetup, for all agents, directories, setups and CLIs and every set *)
(* of faults.  What others have put into a file can go only where the      *)
(* history says that it may: a step changes the entries of its own agent   *)
(* in what it has read, and what it has read holds those of others unless  *)
(* the file was unreadable or has changed since, which is when its write   *)
(* counts as a loss.  The refresh of the daemon is the last step of a      *)
(* setup, and nothing of its configuration changes after it.  The steps of *)
(* a list that concern one spot, a kind of entry in one place, leave it as *)
(* the last of them does: the lists are shown to end in one installation   *)
(* for each selected CLI and none elsewhere, and a run has achieved what   *)
(* the part of its list that it has done promises.                         *)
(*                                                                         *)
(* Capture, for every number of hooks, length of the transcript, limit of  *)
(* the buffer and kind of failure.  The CLI waits for a hook, so the hooks *)
(* before the running one have ended and the offsets file tells its turn;  *)
(* an entry names the one hook that made it; a line that the offset has    *)
(* passed was sent, or was flushed after the hook had read the transcript. *)
(***************************************************************************)
EXTENDS PluginSetup, Capture, SequenceTheorems, FiniteSetTheorems, TLAPS

\* No two agents share a matcher group.
Separate(hooks) ==
  \A group \in hooks : \A a, b \in Agents : a \in group /\ b \in group => a = b

\* A file as the steps know it.
Whole(c) ==
  /\ c = [hooks |-> c.hooks, mcp |-> c.mcp]
  /\ Separate(c.hooks) /\ <<User, DefaultPort>> \in c.mcp

IInv ==
  /\ DOMAIN disk = Files
  /\ \A f \in Files \ lost : Whole(disk[f]) /\ (f \notin swept => HasHook(User, disk[f]))

\* A step on hooks takes the agent's groups, and nothing else.
LEMMA UpdatedHooks ==
  ASSUME NEW a \in Agents, NEW step, step.kind = "hooks", NEW c, Whole(c)
  PROVE  \E h : /\ Updated(a, step, c) = [hooks |-> h, mcp |-> c.mcp]
                /\ h = (c.hooks \ Matching(a, c)) \cup IF step.put THEN {{a}} ELSE {}
<1>1. PICK h : h = (c.hooks \ Matching(a, c)) \cup IF step.put THEN {{a}} ELSE {}
  OBVIOUS
<1>2. Updated(a, step, c) = [c EXCEPT !.hooks = h]
  BY <1>1 DEF Updated
<1>3. Updated(a, step, c) = [hooks |-> h, mcp |-> c.mcp]
  BY <1>2 DEF Whole
<1>. QED
  BY <1>1, <1>3

\* A step leaves the entries of others as it finds them, but for the user's hook in
\* a group of the agent.
LEMMA UpdatedKeeps ==
  ASSUME NEW a \in Agents, NEW step, step.kind \in {"hooks", "mcp"}, NEW c, Whole(c)
  PROVE  /\ Whole(Updated(a, step, c))
         /\ /\ HasHook(User, c)
            /\ step.kind = "hooks" => \A group \in Matching(a, c) : User \notin group
            => HasHook(User, Updated(a, step, c))
<1>1. User # a
  BY SetupAssumption
<1>2. CASE step.kind = "hooks"
  <2>1. PICK h : /\ Updated(a, step, c) = [hooks |-> h, mcp |-> c.mcp]
                 /\ h = (c.hooks \ Matching(a, c)) \cup IF step.put THEN {{a}} ELSE {}
    BY <1>2, UpdatedHooks
  <2>2. Separate(h)
    BY <2>1 DEF Whole, Separate
  <2>3. Whole(Updated(a, step, c))
    BY <2>1, <2>2 DEF Whole
  <2>4. HasHook(User, c) /\ (\A group \in Matching(a, c) : User \notin group)
        => HasHook(User, Updated(a, step, c))
    BY <2>1 DEF HasHook
  <2>. QED
    BY <1>2, <2>3, <2>4
<1>3. CASE step.kind = "mcp"
  <2>1. PICK m : m = {e \in c.mcp : e[1] # a} \cup IF step.put THEN {ProxyEntry(a)} ELSE {}
    OBVIOUS
  <2>2. Updated(a, step, c) = [c EXCEPT !.mcp = m]
    BY <1>3, <2>1 DEF Updated
  <2>3. <<User, DefaultPort>> \in m
    BY <1>1, <2>1 DEF Whole
  <2>4. Updated(a, step, c) = [hooks |-> c.hooks, mcp |-> m]
    BY <2>2 DEF Whole
  <2>. QED
    BY <1>3, <2>3, <2>4 DEF Whole, HasHook
<1>. QED
  BY <1>2, <1>3

LEMMA InitHolds == Init => IInv
<1> SUFFICES ASSUME Init PROVE IInv
  OBVIOUS
<1>1. PICK c : c = [hooks |-> {{User}}, mcp |-> {<<User, DefaultPort>>}]
  OBVIOUS
<1>2. Whole(c) /\ HasHook(User, c)
  <2>1. User \notin Agents
    BY SetupAssumption
  <2>. QED
    BY <1>1, <2>1 DEF Whole, Separate, HasHook
<1>3. disk = [f \in Files |-> c]
  BY <1>1 DEF Init
<1>. QED
  BY <1>2, <1>3 DEF IInv

LEMMA WriteKeeps ==
  ASSUME IInv, NEW a \in Agents, Write(a)
  PROVE  IInv'
<1>1. PICK f : f = Current(a).where
  OBVIOUS
<1>2. PICK old : old = proc[a].read
  OBVIOUS
<1>3. PICK c : c = Updated(a, Current(a), old)
  OBVIOUS
<1>4. /\ disk' = [disk EXCEPT ![f] = c]
      /\ lost' = IF old = disk[f] THEN lost ELSE lost \cup {f}
      /\ swept' = IF Current(a).kind = "hooks" /\ \E group \in Matching(a, old) : User \in group
                  THEN swept \cup {f} ELSE swept
  BY <1>1, <1>2, <1>3 DEF Write
<1>5. Current(a).kind \in {"hooks", "mcp"}
  BY DEF Write, At, Current
<1>6. ASSUME NEW g \in Files \ lost' PROVE Whole(disk'[g]) /\ (g \notin swept' => HasHook(User, disk'[g]))
  <2>1. g \in Files \ lost /\ (g \notin swept' => g \notin swept)
    BY <1>4
  <2>2. CASE g # f
    BY <1>4, <2>1, <2>2 DEF IInv
  <2>3. CASE g = f
    <3>1. old = disk[f]
      BY <1>4, <2>3
    <3>2. Whole(old) /\ (f \notin swept => HasHook(User, old))
      BY <2>1, <2>3, <3>1 DEF IInv
    <3>3. Whole(c)
      BY <1>3, <1>5, <3>2, UpdatedKeeps
    <3>4. f \notin swept' => HasHook(User, c)
      BY <1>3, <1>4, <1>5, <3>2, UpdatedKeeps
    <3>5. disk'[g] = c
      BY <1>4, <2>1, <2>3 DEF IInv
    <3>. QED
      BY <2>3, <3>3, <3>4, <3>5
  <2>. QED
    BY <2>2, <2>3
<1>. QED
  BY <1>4, <1>6 DEF IInv

\* The user's hook moves, and nobody else's.
LEMMA RegroupMoves ==
  ASSUME IInv, NEW f, Regroup(f)
  PROVE  /\ DOMAIN disk' = Files /\ UNCHANGED <<lost, swept>>
         /\ \A g \in Files \ lost :
              /\ Whole(disk'[g]) /\ disk'[g].mcp = disk[g].mcp
              /\ \A o \in Owners : HasHook(o, disk'[g]) <=> HasHook(o, disk[g])
<1>1. PICK group, h :
        /\ group \in disk[f].hooks
        /\ disk' = [disk EXCEPT ![f].hooks = h]
        /\ group # {User}
        /\ \/ {User} \in disk[f].hooks /\ h = (disk[f].hooks \ {group, {User}}) \cup {group \cup {User}}
           \/ User \in group /\ h = (disk[f].hooks \ {group}) \cup {group \ {User}, {User}}
  BY DEF Regroup
<1>2. DOMAIN disk' = Files /\ UNCHANGED <<lost, swept>>
  BY <1>1 DEF IInv, Regroup
<1>3. ASSUME NEW g \in Files \ lost
      PROVE  /\ Whole(disk'[g]) /\ disk'[g].mcp = disk[g].mcp
             /\ \A o \in Owners : HasHook(o, disk'[g]) <=> HasHook(o, disk[g])
  <2>1. Whole(disk[g])
    BY <1>3 DEF IInv
  <2>2. CASE g # f
    BY <1>1, <1>3, <2>1, <2>2 DEF IInv
  <2>3. CASE g = f
    <3>1. PICK c : c = disk[f]
      OBVIOUS
    <3>2. disk'[f] = [c EXCEPT !.hooks = h]
      BY <1>1, <1>3, <2>3, <3>1 DEF IInv
    <3>3. disk'[f] = [hooks |-> h, mcp |-> c.mcp]
      BY <2>1, <2>3, <3>1, <3>2 DEF Whole
    <3>4. User \notin Agents
      BY SetupAssumption
    <3>5. Separate(h)
      BY <1>1, <2>1, <2>3, <3>1, <3>4 DEF Whole, Separate
    <3>6. \A o \in Owners : (\E x \in h : o \in x) <=> (\E x \in c.hooks : o \in x)
      <4>1. CASE {User} \in c.hooks /\ h = (c.hooks \ {group, {User}}) \cup {group \cup {User}}
        <5>1. ASSUME NEW o, NEW x \in h, o \in x  PROVE \E y \in c.hooks : o \in y
          BY <1>1, <3>1, <4>1, <5>1
        <5>2. ASSUME NEW o, NEW x \in c.hooks, o \in x  PROVE \E y \in h : o \in y
          <6>1. group \cup {User} \in h
            BY <4>1
          <6>2. CASE x \in {group, {User}}
            BY <5>2, <6>1, <6>2
          <6>3. CASE x \notin {group, {User}}
            BY <4>1, <5>2, <6>3
          <6>. QED
            BY <6>2, <6>3
        <5>. QED
          BY <5>1, <5>2
      <4>2. CASE User \in group /\ h = (c.hooks \ {group}) \cup {group \ {User}, {User}}
        <5>1. ASSUME NEW o, NEW x \in h, o \in x  PROVE \E y \in c.hooks : o \in y
          BY <1>1, <3>1, <4>2, <5>1
        <5>2. ASSUME NEW o, NEW x \in c.hooks, o \in x  PROVE \E y \in h : o \in y
          <6>1. group \ {User} \in h /\ {User} \in h
            BY <4>2
          <6>2. CASE x = group
            BY <5>2, <6>1, <6>2
          <6>3. CASE x # group
            BY <4>2, <5>2, <6>3
          <6>. QED
            BY <6>2, <6>3
        <5>. QED
          BY <5>1, <5>2
      <4>. QED
        BY <1>1, <3>1, <4>1, <4>2
    <3>7. Whole(disk'[f]) /\ disk'[f].mcp = c.mcp
      BY <2>1, <2>3, <3>1, <3>3, <3>5 DEF Whole
    <3>. QED
      BY <2>3, <3>1, <3>3, <3>6, <3>7 DEF HasHook
  <2>. QED
    BY <2>2, <2>3
<1>. QED
  BY <1>2, <1>3

LEMMA RegroupKeeps ==
  ASSUME IInv, NEW f, Regroup(f)
  PROVE  IInv'
<1>1. User \in Owners
  BY DEF Owners
<1>2. DOMAIN disk' = Files /\ UNCHANGED <<lost, swept>>
  BY RegroupMoves
<1>3. ASSUME NEW g \in Files \ lost' PROVE Whole(disk'[g]) /\ (g \notin swept' => HasHook(User, disk'[g]))
  <2>1. Whole(disk'[g]) /\ (HasHook(User, disk'[g]) <=> HasHook(User, disk[g]))
    BY <1>1, <1>2, <1>3, RegroupMoves
  <2>. QED
    BY <1>2, <1>3, <2>1 DEF IInv
<1>. QED
  BY <1>2, <1>3 DEF IInv

\* A write that is cut off counts as a loss.
LEMMA TornKeeps ==
  ASSUME IInv, NEW a \in Agents, Torn(a)
  PROVE  IInv'
<1>1. PICK f : f = Current(a).where
  OBVIOUS
<1>2. disk' = [disk EXCEPT ![f] = Empty] /\ lost' = lost \cup {f} /\ swept' = swept
  BY <1>1 DEF Torn
<1>. QED
  BY <1>2 DEF IInv

\* Every step but these leaves the files alone.
LEMMA OtherSteps ==
  ASSUME [Next]_vars
  PROVE  \/ \E a \in Agents : Write(a) \/ Torn(a)
         \/ \E f \in Edited : Regroup(f)
         \/ UNCHANGED <<disk, lost, swept>>
<1>1. ASSUME NEW a \in Agents, RunStep(a) PROVE Write(a) \/ Torn(a) \/ UNCHANGED <<disk, lost, swept>>
  BY <1>1 DEF RunStep, WriteConfig, ConfigFails, Read, RunCli, InstallUnit, InstallUnitFails,
       RemoveUnit, RemoveUnitFails, RemoveState, StepFails, Return, fileVars
<1>2. ASSUME NEW a \in Agents, Crash(a) PROVE Torn(a) \/ UNCHANGED <<disk, lost, swept>>
  BY <1>2 DEF Crash, fileVars
<1>3. ASSUME NEW a \in Agents, Restart(a) PROVE UNCHANGED <<disk, lost, swept>>
  BY <1>3 DEF Restart, fileVars
<1>4. ASSUME NEW a \in Agents, NEW job, Begin(a, job) PROVE UNCHANGED <<disk, lost, swept>>
  BY <1>4 DEF Begin, fileVars
<1>5. ASSUME NEW a \in Agents, NEW d, BeginUninstall(a, d) PROVE UNCHANGED <<disk, lost, swept>>
  BY <1>5 DEF BeginUninstall, fileVars
<1>6. ASSUME NEW f, Edit(f) PROVE UNCHANGED <<disk, lost, swept>>
  BY <1>6 DEF Edit
<1>7. CASE UNCHANGED vars
  BY <1>7 DEF vars, fileVars
<1>. QED
  BY <1>1, <1>2, <1>3, <1>4, <1>5, <1>6, <1>7 DEF Next

LEMMA FilesStep == IInv /\ [Next]_vars => IInv'
<1> SUFFICES ASSUME IInv, [Next]_vars PROVE IInv'
  OBVIOUS
<1>1. CASE \E a \in Agents : Write(a)
  BY <1>1, WriteKeeps
<1>2. CASE \E a \in Agents : Torn(a)
  BY <1>2, TornKeeps
<1>3. CASE UNCHANGED <<disk, lost, swept>>
  BY <1>3 DEF IInv
<1>4. CASE \E f \in Edited : Regroup(f)
  BY <1>4, RegroupKeeps
<1>. QED
  BY <1>1, <1>2, <1>3, <1>4, OtherSteps

\* What others have put into the files stays there, unless a file could not be
\* read, was being written by two at once, or its writer was killed.  Only a hook that
\* the user has put into an agent's matcher group goes with that group.
THEOREM OthersAreKept == Spec => []OthersKept
<1>1. IInv => OthersKept
  BY DEF IInv, OthersKept, Whole
<1>. QED
  BY <1>1, InitHolds, FilesStep, PTL DEF Spec

-----------------------------------------------------------------------------
(* The steps of a setup.  The refresh of the unit is the last of them.     *)

Steps ==
  [kind : {"hooks", "mcp"}, where : Files, put : BOOLEAN, must : BOOLEAN]
  \cup [kind : {"cli"}, where : {"claude", "codex"}, put : BOOLEAN, must : BOOLEAN]
  \cup [kind : {"unit"}, where : {None}, put : BOOLEAN, must : BOOLEAN]
UnitStep == Step("unit", None, TRUE, FALSE)

Refreshes(job) == job.kind = "setup" /\ job.autostart /\ Selected(job) # {}

\* What run still has to do ends with the refresh of the unit.
EndsWithUnit(todo) == todo \in Seq(Steps) /\ todo # <<>> /\ todo[Len(todo)] = UnitStep

LEMMA Concatenation ==
  ASSUME NEW S, NEW q \in Seq(S), NEW r \in Seq(S)
  PROVE  q \o r \in Seq(S)
OBVIOUS

LEMMA ShortLists ==
  ASSUME NEW S
  PROVE  /\ <<>> \in Seq(S)
         /\ \A x \in S : <<x>> \in Seq(S)
         /\ \A x, y \in S : <<x, y>> \in Seq(S)
         /\ \A x, y, z \in S : <<x, y, z>> \in Seq(S)
OBVIOUS

LEMMA FileSteps ==
  ASSUME NEW d \in Dirs, NEW p \in Platforms, NEW s \in Scopes, NEW kind \in {"hooks", "mcp"}
  PROVE  Install(kind, p, s, d) \in Seq(Steps) /\ Both(kind, p, d) \in Seq(Steps)
<1>1. OtherScope(s) \in Scopes /\ "user" \in Scopes /\ "project" \in Scopes
  BY DEF OtherScope, Scopes
<1>2. \A t \in Scopes, put, must \in BOOLEAN : Step(kind, Settings(p, t, d), put, must) \in Steps
  BY DEF Step, Steps, Files
<1>3. Both(kind, p, d) \in Seq(Steps)
  BY <1>1, <1>2, ShortLists DEF Both
<1>4. /\ <<Step(kind, Settings(p, s, d), TRUE, TRUE)>> \in Seq(Steps)
      /\ <<Step(kind, Settings(p, OtherScope(s), d), FALSE, TRUE)>> \in Seq(Steps)
      /\ <<>> \in Seq(Steps)
  BY <1>1, <1>2, ShortLists
<1>5. Install(kind, p, s, d) \in Seq(Steps)
  BY <1>4, Concatenation DEF Install
<1>. QED
  BY <1>3, <1>5

LEMMA ConfigureSteps ==
  ASSUME NEW d \in Dirs, NEW p \in Platforms, NEW s \in Scopes
  PROVE  ConfigureHooks(p, s, d) \in Seq(Steps) /\ ConfigureMcp(p, s, d) \in Seq(Steps)
<1>1. p \in {"claude", "codex", "gemini"} /\ s \in {"project", "user"}
  BY DEF Platforms, Scopes
<1>2. \A kind \in {"hooks", "mcp"} : Install(kind, p, s, d) \in Seq(Steps)
  BY FileSteps
<1>3. ConfigureHooks(p, s, d) \in Seq(Steps)
  BY <1>1, <1>2
  DEF ConfigureHooks, ConfigureClaudeHooks, ConfigureCodexHooks, ConfigureGeminiHooks
<1>4. \A cli \in {"claude", "codex"} : Remove(cli) \in Steps /\ Add(cli) \in Steps
  BY DEF Remove, Add, Step, Steps, Files
<1>5. \A put \in BOOLEAN : Step("mcp", McpJson(d), put, TRUE) \in Steps
  BY DEF Step, Steps, Files
<1>6. /\ ConfigureClaudeMcpProject(d) \in Seq(Steps)
      /\ ConfigureClaudeMcpUser(d) \in Seq(Steps)
      /\ ConfigureCodexMcp \in Seq(Steps)
  BY <1>4, <1>5, ShortLists DEF ConfigureClaudeMcpProject, ConfigureClaudeMcpUser, ConfigureCodexMcp
<1>7. ConfigureMcp(p, s, d) \in Seq(Steps)
  BY <1>1, <1>2, <1>6 DEF ConfigureMcp, ConfigureGeminiMcp
<1>. QED
  BY <1>3, <1>7

LEMMA RemoveSteps ==
  ASSUME NEW d \in Dirs, NEW p \in Platforms
  PROVE  RemoveHooks(p, d) \in Seq(Steps) /\ RemoveMcp(p, d) \in Seq(Steps)
<1>1. p \in {"claude", "codex", "gemini"} /\ "user" \in Scopes
  BY DEF Platforms, Scopes
<1>2. \A kind \in {"hooks", "mcp"} : Both(kind, p, d) \in Seq(Steps)
  BY <1>1, FileSteps
<1>3. RemoveHooks(p, d) \in Seq(Steps)
  BY <1>1, <1>2 DEF RemoveHooks, RemoveClaudeHooks, RemoveCodexHooks, RemoveGeminiHooks
<1>4. /\ Remove("claude") \in Steps /\ Remove("codex") \in Steps
      /\ Step("mcp", McpJson(d), FALSE, TRUE) \in Steps
  BY DEF Remove, Step, Steps, Files
<1>5. RemoveClaudeMcp(d) \in Seq(Steps) /\ RemoveCodexMcp \in Seq(Steps)
  BY <1>4, ShortLists DEF RemoveClaudeMcp, RemoveCodexMcp
<1>. QED
  BY <1>1, <1>2, <1>3, <1>5 DEF RemoveMcp, RemoveGeminiMcp

LEMMA RemovePlatformSteps ==
  ASSUME NEW d \in Dirs, NEW p \in Platforms
  PROVE  RemovePlatform(p, d) \in Seq(Steps)
<1>1. PICK q : q = RemoveHooks(p, d) \o RemoveMcp(p, d)
  OBVIOUS
<1>2. q \in Seq(Steps)
  BY <1>1, RemoveSteps, Concatenation
<1>3. \A i \in 1..Len(q) : [q[i] EXCEPT !.must = FALSE] \in Steps
  <2>1. ASSUME NEW s \in Steps  PROVE [s EXCEPT !.must = FALSE] \in Steps
    BY DEF Steps
  <2>. QED
    BY <1>2, <2>1
<1>4. DOMAIN q = 1..Len(q) /\ Len(q) \in Nat
  BY <1>2
<1>5. Lenient(q) \in [1..Len(q) -> Steps]
  BY <1>3, <1>4 DEF Lenient
<1>6. Lenient(q) \in Seq(Steps)
  BY <1>4, <1>5
<1>. QED
  BY <1>1, <1>6 DEF RemovePlatform

LEMMA EachSteps ==
  ASSUME NEW steps, \A p \in Platforms : steps[p] \in Seq(Steps)
  PROVE  Each(steps) \in Seq(Steps)
BY Concatenation DEF Each, Platforms

\* What a setup does platform by platform: clean up, and then configure.
Cleaning(job) ==
  [p \in Platforms |->
     IF job.platforms # {} /\ p \notin job.platforms THEN RemovePlatform(p, job.dir) ELSE <<>>]
Configuring(job, c) ==
  [p \in Platforms |->
     IF p \notin Selected(job) THEN <<>>
     ELSE ConfigureHooks(p, job.scope, job.dir)
          \o IF LocallyReachable(c.bind) THEN ConfigureMcp(p, job.scope, job.dir)
             ELSE RemoveMcp(p, job.dir)]

LEMMA PartsAreSteps ==
  ASSUME NEW job \in Jobs, NEW c
  PROVE  Each(Cleaning(job)) \in Seq(Steps) /\ Each(Configuring(job, c)) \in Seq(Steps)
<1>1. job.scope \in Scopes /\ job.dir \in Dirs
  BY SetupAssumption
<1>2. <<>> \in Seq(Steps)
  OBVIOUS
<1>3. \A p \in Platforms : Cleaning(job)[p] \in Seq(Steps)
  BY <1>1, <1>2, RemovePlatformSteps DEF Cleaning
<1>4. \A p \in Platforms : Configuring(job, c)[p] \in Seq(Steps)
  <2>1. ASSUME NEW p \in Platforms
        PROVE  /\ ConfigureHooks(p, job.scope, job.dir) \in Seq(Steps)
               /\ (IF LocallyReachable(c.bind) THEN ConfigureMcp(p, job.scope, job.dir)
                   ELSE RemoveMcp(p, job.dir)) \in Seq(Steps)
    BY <1>1, ConfigureSteps, RemoveSteps
  <2>. QED
    BY <1>2, <2>1, Concatenation DEF Configuring
<1>. QED
  BY <1>3, <1>4, EachSteps

LEMMA SetupEnds ==
  ASSUME NEW job \in Jobs, NEW c, Refreshes(job)
  PROVE  EndsWithUnit(SetupSteps(job, c))
<1>1. SetupSteps(job, c) = Each(Cleaning(job)) \o (Each(Configuring(job, c)) \o <<UnitStep>>)
  BY DEF SetupSteps, Refreshes, UnitStep, Cleaning, Configuring
<1>2. UnitStep \in Steps
  BY DEF UnitStep, Step, Steps, Files
<1>3. ASSUME NEW q \in Seq(Steps), NEW r \in Seq(Steps), NEW u \in Steps
      PROVE  LET t == q \o (r \o <<u>>) IN t \in Seq(Steps) /\ t # <<>> /\ t[Len(t)] = u
  OBVIOUS
<1>. QED
  BY <1>1, <1>2, <1>3, PartsAreSteps DEF EndsWithUnit

-----------------------------------------------------------------------------
(* The daemon of the last setup.                                           *)

Fresh(a) == a \in unit /\ daemon[a] = config[a]

\* A run that refreshes the daemon has done so, has failed to, or will.
RunInv(a) ==
  /\ proc[a].at = "config" => proc[a].job \in Jobs
  /\ proc[a].at = "work" /\ Refreshes(proc[a].job) =>
       \/ proc[a].todo = <<>> /\ (proc[a].failed \/ Fresh(a))
       \/ EndsWithUnit(proc[a].todo)

\* Nothing touches the daemon's configuration after the last run has returned.
LastInv(a) == last[a] # None => proc[a] = Idle /\ (Refreshes(last[a]) => Fresh(a))

DaemonInv ==
  /\ DOMAIN proc = Agents /\ DOMAIN last = Agents
  /\ DOMAIN daemon = Agents /\ DOMAIN config = Agents
  /\ \A a \in Agents : RunInv(a) /\ LastInv(a)

LEMMA DaemonInit == Init => DaemonInv
BY DEF Init, DaemonInv, RunInv, LastInv, Idle

\* The step of one agent's run leaves the others' daemons alone.
Apart(a) ==
  /\ DOMAIN proc' = Agents /\ DOMAIN last' = Agents
  /\ DOMAIN daemon' = Agents /\ DOMAIN config' = Agents
  /\ clis' = clis
  /\ \A b \in Agents \ {a} :
       /\ proc'[b] = proc[b] /\ last'[b] = last[b] /\ (b \in unit' <=> b \in unit)
       /\ daemon'[b] = daemon[b] /\ config'[b] = config[b]

LEMMA OthersStay ==
  ASSUME DaemonInv, NEW a \in Agents, Apart(a), RunInv(a)', LastInv(a)'
  PROVE  DaemonInv'
<1>1. \A b \in Agents \ {a} : RunInv(b)' /\ LastInv(b)'
  BY DEF Apart, DaemonInv, RunInv, LastInv, Fresh, Refreshes, Selected
<1>. QED
  BY <1>1 DEF Apart, DaemonInv

LEMMA NextStepGoes ==
  ASSUME DaemonInv, NEW a \in Agents, NEW failed \in BOOLEAN, NextStep(a, failed),
         proc[a].at = "work"
  PROVE  /\ DOMAIN proc' = Agents /\ \A b \in Agents \ {a} : proc'[b] = proc[b]
         /\ proc'[a].at = "work" /\ proc'[a].job = proc[a].job
         /\ proc'[a].todo = Tail(proc[a].todo)
         /\ failed => proc'[a].failed
BY DEF DaemonInv, NextStep

LEMMA LastOfTail ==
  ASSUME NEW S, NEW q \in Seq(S), q # <<>>
  PROVE  /\ Tail(q) \in Seq(S)
         /\ \/ Tail(q) = <<>> /\ Head(q) = q[Len(q)]
            \/ Tail(q) # <<>> /\ Tail(q)[Len(Tail(q))] = q[Len(q)]
<1>1. Len(q) \in Nat /\ Len(q) >= 1
  BY EmptySeq
<1>2. /\ Head(q) = q[1] /\ Tail(q) \in Seq(S) /\ Len(Tail(q)) = Len(q) - 1
      /\ \A i \in 1..Len(Tail(q)) : Tail(q)[i] = q[i + 1]
  BY HeadTailProperties
<1>3. PICK t : t = Tail(q)
  OBVIOUS
<1>4. PICK h : h = Head(q)
  OBVIOUS
<1>5. t \in Seq(S) /\ Len(t) = Len(q) - 1 /\ h = q[1] /\ \A i \in 1..Len(t) : t[i] = q[i + 1]
  BY <1>2, <1>3, <1>4
<1>6. (t = <<>> /\ h = q[Len(q)]) \/ (t # <<>> /\ t[Len(t)] = q[Len(q)])
  <2>1. CASE t = <<>>
    <3>1. Len(t) = 0
      BY <2>1
    <3>2. 0 = Len(q) - 1
      BY <1>5, <3>1
    <3>3. Len(q) = 1
      BY <1>1, <3>2
    <3>4. h = q[Len(q)]
      BY <1>5, <3>3
    <3>. QED
      BY <2>1, <3>4
  <2>2. CASE t # <<>>
    <3>1. Len(t) \in Nat \ {0}
      BY <1>5, <2>2, EmptySeq
    <3>2. t[Len(t)] = q[Len(t) + 1] /\ Len(t) + 1 = Len(q)
      BY <1>1, <1>5, <3>1
    <3>. QED
      BY <2>2, <3>2
  <2>. QED
    BY <2>1, <2>2
<1>. QED
  BY <1>3, <1>4, <1>5, <1>6

\* What is left of the list after a step.
LEMMA TailEnds ==
  ASSUME NEW todo, EndsWithUnit(todo)
  PROVE  \/ Tail(todo) = <<>> /\ Head(todo) = UnitStep
         \/ EndsWithUnit(Tail(todo))
<1>1. todo \in Seq(Steps) /\ todo # <<>> /\ todo[Len(todo)] = UnitStep
  BY DEF EndsWithUnit
<1>. QED
  BY <1>1, LastOfTail DEF EndsWithUnit

\* A step other than the refresh is not the last of a run that refreshes.
LEMMA StepGoes ==
  ASSUME DaemonInv, NEW a \in Agents, NEW failed \in BOOLEAN, NextStep(a, failed),
         proc[a].at = "work", proc[a].todo # <<>>, clis' = clis,
         \/ Current(a) # UnitStep
         \/ failed
         \/ Fresh(a)'
  PROVE  RunInv(a)'
<1>1. /\ proc'[a].at = "work" /\ proc'[a].job = proc[a].job
      /\ proc'[a].todo = Tail(proc[a].todo) /\ (failed => proc'[a].failed)
  BY NextStepGoes
<1>2. Refreshes(proc[a].job)' <=> Refreshes(proc[a].job)
  BY <1>1 DEF Refreshes, Selected
<1>3. CASE Refreshes(proc[a].job)
  <2>1. EndsWithUnit(proc[a].todo)
    BY <1>3 DEF DaemonInv, RunInv
  <2>. QED
    BY <1>1, <2>1, TailEnds DEF RunInv, Current
<1>. QED
  BY <1>1, <1>2, <1>3 DEF RunInv

LEMMA RefreshStep ==
  ASSUME DaemonInv, NEW a \in Agents, InstallUnit(a) \/ InstallUnitFails(a)
  PROVE  DaemonInv'
<1>1. PICK failed \in BOOLEAN : NextStep(a, failed) /\ (failed \/ Fresh(a)')
  BY DEF InstallUnit, InstallUnitFails, DaemonInv, Fresh
<1>2. proc[a].at = "work" /\ proc[a].todo # <<>>
  BY DEF InstallUnit, InstallUnitFails, At
<1>3. /\ UNCHANGED <<clis, last, config>> /\ DOMAIN daemon' = Agents
      /\ \A b \in Agents \ {a} : (b \in unit' <=> b \in unit) /\ daemon'[b] = daemon[b]
  BY DEF InstallUnit, InstallUnitFails, DaemonInv, daemonVars
<1>4. RunInv(a)'
  BY <1>1, <1>2, <1>3, StepGoes
<1>5. Apart(a)
  BY <1>1, <1>2, <1>3, NextStepGoes DEF Apart, DaemonInv
<1>6. LastInv(a)'
  BY <1>2, <1>3 DEF DaemonInv, LastInv, Idle
<1>. QED
  BY <1>4, <1>5, <1>6, OthersStay

\* Every other step of the list is not the refresh.
LEMMA ListStep ==
  ASSUME DaemonInv, NEW a \in Agents,
         \/ Read(a) \/ Write(a) \/ RunCli(a) \/ RemoveUnit(a) \/ RemoveUnitFails(a)
         \/ RemoveState(a) \/ StepFails(a)
  PROVE  DaemonInv'
<1>1. /\ proc[a].at = "work" /\ proc[a].todo # <<>>
      /\ Current(a).kind \in {"hooks", "mcp", "cli", "state"} \/ ~Current(a).put
  BY DEF Read, Write, RunCli, RemoveUnit, RemoveUnitFails, RemoveState, StepFails, MayFail, At, Current
<1>2. Current(a) # UnitStep
  BY <1>1 DEF UnitStep, Step
<1>3. /\ UNCHANGED <<clis, last>> /\ DOMAIN daemon' = Agents /\ DOMAIN config' = Agents
      /\ \A b \in Agents \ {a} : /\ (b \in unit' <=> b \in unit)
                               /\ daemon'[b] = daemon[b] /\ config'[b] = config[b]
  <2>1. CASE Read(a) \/ Write(a) \/ RunCli(a) \/ StepFails(a)
    BY <2>1 DEF Read, Write, RunCli, StepFails, DaemonInv, daemonVars
  <2>2. CASE RemoveUnit(a) \/ RemoveUnitFails(a)
    BY <2>2 DEF RemoveUnit, RemoveUnitFails, DaemonInv
  <2>3. CASE RemoveState(a)
    BY <2>3 DEF RemoveState, DaemonInv, daemonVars
  <2>. QED
    BY <2>1, <2>2, <2>3
<1>4. \/ \E failed \in BOOLEAN : NextStep(a, failed)
      \/ proc' = [proc EXCEPT ![a] = Idle]
      \/ \E c : proc' = [proc EXCEPT ![a].read = c]
  <2>1. CASE Read(a)
    <3>1. (Current(a).where \in unreadable) \in BOOLEAN
      OBVIOUS
    <3>2. \/ NextStep(a, Current(a).where \in unreadable)
          \/ proc' = [proc EXCEPT ![a].read = Contents(Current(a).where)]
      BY <2>1 DEF Read
    <3>. QED
      BY <3>1, <3>2
  <2>2. CASE Write(a) \/ RunCli(a) \/ RemoveUnit(a) \/ RemoveState(a)
    <3>1. NextStep(a, FALSE)
      BY <2>2 DEF Write, RunCli, RemoveUnit, RemoveState
    <3>. QED
      BY <3>1
  <2>3. CASE RemoveUnitFails(a) \/ StepFails(a)
    <3>1. NextStep(a, TRUE) \/ proc' = [proc EXCEPT ![a] = Idle]
      BY <2>3 DEF RemoveUnitFails, StepFails
    <3>. QED
      BY <3>1
  <2>. QED
    BY <2>1, <2>2, <2>3
<1>5. LastInv(a)'
  BY <1>1, <1>3 DEF DaemonInv, LastInv, Idle
<1>6. CASE \E failed \in BOOLEAN : NextStep(a, failed)
  <2>1. PICK failed \in BOOLEAN : NextStep(a, failed)
    BY <1>6
  <2>2. RunInv(a)'
    BY <1>1, <1>2, <1>3, <2>1, StepGoes
  <2>3. Apart(a)
    BY <1>1, <1>3, <2>1, NextStepGoes DEF Apart, DaemonInv
  <2>. QED
    BY <1>5, <2>2, <2>3, OthersStay
<1>7. CASE proc' = [proc EXCEPT ![a] = Idle]
  <2>1. RunInv(a)' /\ Apart(a)
    BY <1>3, <1>7 DEF RunInv, Apart, DaemonInv, Idle
  <2>. QED
    BY <1>5, <2>1, OthersStay
<1>8. CASE \E c : proc' = [proc EXCEPT ![a].read = c]
  <2>1. PICK c : proc' = [proc EXCEPT ![a].read = c]
    BY <1>8
  <2>2. /\ proc'[a].at = "work" /\ proc'[a].job = proc[a].job /\ proc'[a].todo = proc[a].todo
        /\ DOMAIN proc' = Agents /\ \A b \in Agents \ {a} : proc'[b] = proc[b]
    BY <1>1, <2>1 DEF DaemonInv
  <2>3. RunInv(a)'
    BY <1>1, <1>3, <2>2 DEF DaemonInv, RunInv, Refreshes, Selected
  <2>4. Apart(a)
    BY <1>3, <2>2 DEF Apart, DaemonInv
  <2>. QED
    BY <1>5, <2>3, <2>4, OthersStay
<1>. QED
  BY <1>4, <1>6, <1>7, <1>8

LEMMA BeginStep ==
  ASSUME DaemonInv, NEW a \in Agents,
         (\E job \in Jobs : Begin(a, job)) \/ (\E d \in Dirs : BeginUninstall(a, d))
  PROVE  DaemonInv'
<1>1. /\ UNCHANGED <<clis, config, unit, daemon>> /\ last' = [last EXCEPT ![a] = None]
  BY DEF Begin, BeginUninstall, daemonVars
<1>2. CASE \E job \in Jobs : Begin(a, job)
  <2>1. PICK job \in Jobs : proc' = [proc EXCEPT ![a] = [at |-> "config", job |-> job]]
    BY <1>2 DEF Begin
  <2>2. RunInv(a)' /\ LastInv(a)' /\ Apart(a)
    BY <1>1, <2>1 DEF DaemonInv, RunInv, LastInv, Apart
  <2>. QED
    BY <2>2, OthersStay
<1>3. CASE \E d \in Dirs : BeginUninstall(a, d)
  <2>1. PICK d \in Dirs :
          proc' = [proc EXCEPT ![a] = Working([kind |-> "uninstall", dir |-> d], UninstallSteps(d))]
    BY <1>3 DEF BeginUninstall
  <2>2. proc'[a].at = "work" /\ proc'[a].job.kind = "uninstall"
    BY <2>1 DEF DaemonInv, Working
  <2>3. RunInv(a)'
    BY <2>2 DEF RunInv, Refreshes
  <2>4. LastInv(a)' /\ Apart(a)
    BY <1>1, <2>1 DEF DaemonInv, LastInv, Apart
  <2>. QED
    BY <2>3, <2>4, OthersStay
<1>. QED
  BY <1>2, <1>3

LEMMA ConfigStep ==
  ASSUME DaemonInv, NEW a \in Agents, WriteConfig(a) \/ ConfigFails(a)
  PROVE  DaemonInv'
<1>1. /\ UNCHANGED <<clis, last, unit, daemon>> /\ proc[a].at = "config" /\ proc[a].job \in Jobs
      /\ DOMAIN config' = Agents /\ \A b \in Agents \ {a} : config'[b] = config[b]
  BY DEF WriteConfig, ConfigFails, TornConfig, daemonVars, DaemonInv, RunInv
<1>2. LastInv(a)'
  BY <1>1 DEF DaemonInv, LastInv, Idle
<1>3. CASE WriteConfig(a)
  <2>1. PICK c : proc' = [proc EXCEPT ![a] = Working(proc[a].job, SetupSteps(proc[a].job, c))]
    BY <1>3 DEF WriteConfig
  <2>2. PICK job \in Jobs : job = proc[a].job
    BY <1>1
  <2>3. /\ proc'[a].at = "work" /\ proc'[a].job = job /\ proc'[a].todo = SetupSteps(job, c)
    BY <2>1, <2>2 DEF DaemonInv, Working
  <2>4. Refreshes(job) => EndsWithUnit(SetupSteps(job, c))
    BY SetupEnds
  <2>5. Refreshes(proc[a].job)' => Refreshes(job)
    BY <1>1, <2>3 DEF Refreshes, Selected
  <2>6. RunInv(a)'
    BY <2>3, <2>4, <2>5 DEF RunInv
  <2>7. Apart(a)
    BY <1>1, <2>1 DEF Apart, DaemonInv
  <2>. QED
    BY <1>2, <2>6, <2>7, OthersStay
<1>4. CASE ConfigFails(a)
  <2>1. proc' = [proc EXCEPT ![a] = Idle]
    BY <1>4 DEF ConfigFails
  <2>2. RunInv(a)' /\ Apart(a)
    BY <1>1, <2>1 DEF RunInv, Apart, DaemonInv, Idle
  <2>. QED
    BY <1>2, <2>2, OthersStay
<1>. QED
  BY <1>3, <1>4

\* A run that returns without a failed step has refreshed the daemon.
LEMMA ReturnStep ==
  ASSUME DaemonInv, NEW a \in Agents, Return(a)
  PROVE  DaemonInv'
<1>1. /\ UNCHANGED <<clis, config, unit, daemon>> /\ proc' = [proc EXCEPT ![a] = Idle]
      /\ last' = [last EXCEPT ![a] = IF proc[a].failed THEN None ELSE proc[a].job]
      /\ proc[a].at = "work" /\ proc[a].todo = <<>>
  BY DEF Return, daemonVars
<1>2. RunInv(a)' /\ Apart(a)
  BY <1>1 DEF RunInv, Apart, DaemonInv, Idle
<1>3. ~proc[a].failed /\ Refreshes(proc[a].job) => Fresh(a)
  BY <1>1 DEF DaemonInv, RunInv, EndsWithUnit
<1>4. LastInv(a)'
  BY <1>1, <1>3 DEF LastInv, DaemonInv, Refreshes, Selected, Fresh
<1>. QED
  BY <1>2, <1>4, OthersStay

LEMMA CrashStep ==
  ASSUME DaemonInv, NEW a \in Agents, Crash(a)
  PROVE  DaemonInv'
<1>1. /\ UNCHANGED <<clis, last, unit, daemon>> /\ proc[a] # Idle /\ proc' = [proc EXCEPT ![a] = Idle]
      /\ DOMAIN config' = Agents /\ \A b \in Agents \ {a} : config'[b] = config[b]
  BY DEF Crash, TornConfig, daemonVars, DaemonInv
<1>2. RunInv(a)' /\ LastInv(a)' /\ Apart(a)
  BY <1>1 DEF RunInv, LastInv, Apart, DaemonInv, Idle
<1>. QED
  BY <1>2, OthersStay

LEMMA RestartStep ==
  ASSUME DaemonInv, NEW a \in Agents, Restart(a)
  PROVE  DaemonInv'
<1>1. /\ UNCHANGED <<clis, last, proc, unit, config>> /\ a \in unit
      /\ daemon' = [daemon EXCEPT ![a] = config[a]]
  BY DEF Restart, runVars
<1>2. Fresh(a)' /\ Apart(a)
  BY <1>1 DEF Fresh, Apart, DaemonInv
<1>3. RunInv(a)' /\ LastInv(a)'
  BY <1>1, <1>2 DEF RunInv, LastInv, DaemonInv, Refreshes, Selected
<1>. QED
  BY <1>2, <1>3, OthersStay

LEMMA DaemonStep == DaemonInv /\ [Next]_vars => DaemonInv'
<1>. SUFFICES ASSUME DaemonInv, [Next]_vars  PROVE DaemonInv'
  OBVIOUS
<1>1. ASSUME NEW a \in Agents, RunStep(a)  PROVE DaemonInv'
  BY <1>1, ConfigStep, ListStep, RefreshStep, ReturnStep DEF RunStep
<1>2. CASE UNCHANGED <<clis, proc, last, unit, daemon, config>>
  BY <1>2 DEF DaemonInv, RunInv, LastInv, Fresh, Refreshes, Selected
<1>3. CASE (\E f \in Edited : Edit(f) \/ Regroup(f)) \/ UNCHANGED vars
  BY <1>2, <1>3 DEF Edit, Regroup, vars, runVars, daemonVars
<1>. QED
  BY <1>1, <1>3, BeginStep, CrashStep, RestartStep DEF Next

\* A supervised daemon runs with the configuration that the last setup wrote, if
\* that setup had a CLI to configure and no step of it failed.
THEOREM DaemonIsRefreshed == Spec => []DaemonRefreshed
<1>1. DaemonInv => DaemonRefreshed
  BY DEF DaemonInv, LastInv, Fresh, Refreshes, DaemonRefreshed
<1>. QED
  BY <1>1, DaemonInit, DaemonStep, PTL DEF Spec

-----------------------------------------------------------------------------
(* What a list of steps promises.  The agent's entries of one kind in one  *)
(* place are as the last step there has left them, whatever came before.   *)

StateStep == Step("state", None, FALSE, FALSE)
Spot(s) == <<s.kind, s.where>>

Settles(q, g, v) ==
  /\ \E i \in DOMAIN q : Spot(q[i]) = g
  /\ \A i \in DOMAIN q : Spot(q[i]) = g /\ q[i].put # v =>
       \E j \in DOMAIN q : j > i /\ Spot(q[j]) = g /\ q[j].put = v
Silent(q, g) == \A i \in DOMAIN q : Spot(q[i]) # g

\* Steps of every kind, and those of an uninstall, which puts nothing.
AllSteps == Steps \cup {StateStep}
Removals == {s \in AllSteps : s.put = FALSE}

LEMMA Joined ==
  ASSUME NEW q \in Seq(AllSteps), NEW r \in Seq(AllSteps)
  PROVE  /\ q \o r \in Seq(AllSteps) /\ DOMAIN (q \o r) = 1..(Len(q) + Len(r))
         /\ DOMAIN q = 1..Len(q) /\ DOMAIN r = 1..Len(r) /\ Len(q) \in Nat /\ Len(r) \in Nat
         /\ \A i \in 1..Len(q) : (q \o r)[i] = q[i]
         /\ \A i \in 1..Len(r) : (q \o r)[Len(q) + i] = r[i]
         /\ \A i \in (1..(Len(q) + Len(r))) \ (1..Len(q)) :
              i - Len(q) \in 1..Len(r) /\ (q \o r)[i] = r[i - Len(q)]
OBVIOUS

\* What comes last decides.
LEMMA SettledByLast ==
  ASSUME NEW q \in Seq(AllSteps), NEW r \in Seq(AllSteps), NEW g, NEW v,
         Settles(r, g, v)
  PROVE  Settles(q \o r, g, v)
<1>1. PICK t : t = q \o r
  OBVIOUS
<1>2. PICK m \in Nat, n \in Nat : m = Len(q) /\ n = Len(r)
  OBVIOUS
<1>3. /\ DOMAIN t = 1..(m + n) /\ DOMAIN q = 1..m /\ DOMAIN r = 1..n
      /\ \A i \in 1..m : t[i] = q[i]
      /\ \A i \in 1..n : t[m + i] = r[i]
      /\ \A i \in (1..(m + n)) \ (1..m) : i - m \in 1..n /\ t[i] = r[i - m]
  BY <1>1, <1>2, Joined
<1>4. \A i \in 1..n : m + i \in 1..(m + n)
  OBVIOUS
<1>5. PICK k \in 1..n : Spot(r[k]) = g
  BY <1>3 DEF Settles
<1>6. \A i \in 1..n : Spot(r[i]) = g /\ r[i].put # v =>
        \E j \in 1..n : j > i /\ Spot(r[j]) = g /\ r[j].put = v
  BY <1>3 DEF Settles
<1>7. PICK e \in 1..n : Spot(r[e]) = g /\ r[e].put = v
  BY <1>5, <1>6
<1>8. m + e \in 1..(m + n) /\ Spot(t[m + e]) = g /\ t[m + e].put = v
  BY <1>3, <1>4, <1>7
<1>9. ASSUME NEW i \in 1..(m + n), Spot(t[i]) = g, t[i].put # v
      PROVE  \E j \in 1..(m + n) : j > i /\ Spot(t[j]) = g /\ t[j].put = v
  <2>1. CASE i \in 1..m
    <3>1. m + e > i
      BY <1>7, <2>1
    <3>. QED
      BY <1>8, <3>1
  <2>2. CASE i \notin 1..m
    <3>1. i - m \in 1..n /\ t[i] = r[i - m]
      BY <1>3, <2>2
    <3>2. PICK j \in 1..n : j > i - m /\ Spot(r[j]) = g /\ r[j].put = v
      BY <1>6, <1>9, <3>1
    <3>3. m + j \in 1..(m + n) /\ m + j > i /\ t[m + j] = r[j]
      BY <1>3, <1>4, <3>2
    <3>. QED
      BY <3>2, <3>3
  <2>. QED
    BY <2>1, <2>2
<1>. QED
  <2>1. \E i \in DOMAIN t : Spot(t[i]) = g
    BY <1>3, <1>8
  <2>2. \A i \in DOMAIN t : Spot(t[i]) = g /\ t[i].put # v =>
          \E j \in DOMAIN t : j > i /\ Spot(t[j]) = g /\ t[j].put = v
    BY <1>3, <1>9
  <2>. QED
    BY <1>1, <2>1, <2>2 DEF Settles

LEMMA SettledBefore ==
  ASSUME NEW q \in Seq(AllSteps), NEW r \in Seq(AllSteps), NEW g, NEW v,
         Settles(q, g, v), Silent(r, g)
  PROVE  Settles(q \o r, g, v)
<1>1. PICK t : t = q \o r
  OBVIOUS
<1>2. PICK m \in Nat, n \in Nat : m = Len(q) /\ n = Len(r)
  OBVIOUS
<1>3. /\ DOMAIN t = 1..(m + n) /\ DOMAIN q = 1..m /\ DOMAIN r = 1..n
      /\ \A i \in 1..m : t[i] = q[i]
      /\ \A i \in (1..(m + n)) \ (1..m) : i - m \in 1..n /\ t[i] = r[i - m]
  BY <1>1, <1>2, Joined
<1>4. \A i \in 1..m : i \in 1..(m + n)
  OBVIOUS
<1>5. \A i \in 1..(m + n) : Spot(t[i]) = g => i \in 1..m
  BY <1>3 DEF Silent
<1>6. \E i \in DOMAIN t : Spot(t[i]) = g
  BY <1>3, <1>4 DEF Settles
<1>7. ASSUME NEW i \in DOMAIN t, Spot(t[i]) = g, t[i].put # v
      PROVE  \E j \in DOMAIN t : j > i /\ Spot(t[j]) = g /\ t[j].put = v
  <2>1. i \in 1..m /\ t[i] = q[i]
    BY <1>3, <1>5, <1>7
  <2>2. PICK j \in 1..m : j > i /\ Spot(q[j]) = g /\ q[j].put = v
    BY <1>3, <1>7, <2>1 DEF Settles
  <2>. QED
    BY <1>3, <1>4, <2>2
<1>. QED
  BY <1>1, <1>6, <1>7 DEF Settles

LEMMA SilentJoined ==
  ASSUME NEW q \in Seq(AllSteps), NEW r \in Seq(AllSteps), NEW g, Silent(q, g), Silent(r, g)
  PROVE  Silent(q \o r, g)
<1>1. PICK t : t = q \o r
  OBVIOUS
<1>2. PICK m \in Nat, n \in Nat : m = Len(q) /\ n = Len(r)
  OBVIOUS
<1>3. /\ DOMAIN t = 1..(m + n) /\ DOMAIN q = 1..m /\ DOMAIN r = 1..n
      /\ \A i \in 1..m : t[i] = q[i]
      /\ \A i \in (1..(m + n)) \ (1..m) : i - m \in 1..n /\ t[i] = r[i - m]
  BY <1>1, <1>2, Joined
<1>. QED
  BY <1>1, <1>3 DEF Silent

\* The other way round: what a list that has grown by one step has settled.
LEMMA SettledSoFar ==
  ASSUME NEW q \in Seq(AllSteps), NEW s \in AllSteps, NEW g, NEW v,
         Settles(q \o <<s>>, g, v)
  PROVE  \/ Spot(s) = g /\ s.put = v
         \/ Spot(s) # g /\ Settles(q, g, v)
<1>1. PICK t : t = q \o <<s>>
  OBVIOUS
<1>2. PICK m \in Nat : m = Len(q)
  OBVIOUS
<1>3. /\ DOMAIN t = 1..(m + 1) /\ DOMAIN q = 1..m /\ t[m + 1] = s
      /\ \A i \in 1..m : t[i] = q[i]
  BY <1>1, <1>2
<1>4. /\ \E i \in 1..(m + 1) : Spot(t[i]) = g
      /\ \A i \in 1..(m + 1) : Spot(t[i]) = g /\ t[i].put # v =>
           \E j \in 1..(m + 1) : j > i /\ Spot(t[j]) = g /\ t[j].put = v
  BY <1>1, <1>3 DEF Settles
<1>5. CASE Spot(s) = g
  <2>1. m + 1 \in 1..(m + 1) /\ ~\E j \in 1..(m + 1) : j > m + 1
    OBVIOUS
  <2>. QED
    BY <1>3, <1>4, <1>5, <2>1
<1>6. CASE Spot(s) # g
  <2>1. \A i \in 1..(m + 1) : Spot(t[i]) = g => i \in 1..m
    BY <1>3, <1>6
  <2>2. \A i \in 1..m : i \in 1..(m + 1)
    OBVIOUS
  <2>3. \E i \in 1..m : Spot(q[i]) = g
    BY <1>3, <1>4, <2>1
  <2>4. ASSUME NEW i \in 1..m, Spot(q[i]) = g, q[i].put # v
        PROVE  \E j \in 1..m : j > i /\ Spot(q[j]) = g /\ q[j].put = v
    <3>1. PICK j \in 1..(m + 1) : j > i /\ Spot(t[j]) = g /\ t[j].put = v
      BY <1>3, <1>4, <2>2, <2>4
    <3>. QED
      BY <1>3, <2>1, <3>1
  <2>. QED
    BY <1>3, <1>6, <2>3, <2>4 DEF Settles
<1>. QED
  BY <1>5, <1>6

\* Short lists.
LEMMA OneStep ==
  ASSUME NEW x \in AllSteps
  PROVE  /\ <<x>> \in Seq(AllSteps)
         /\ Settles(<<x>>, Spot(x), x.put)
         /\ \A g : g # Spot(x) => Silent(<<x>>, g)
<1>1. PICK q : q = <<x>>
  OBVIOUS
<1>2. DOMAIN q = 1..1 /\ q[1] = x /\ q \in Seq(AllSteps)
  BY <1>1
<1>. QED
  BY <1>1, <1>2 DEF Settles, Silent

LEMMA OneMore ==
  ASSUME NEW q \in Seq(AllSteps), NEW x \in AllSteps
  PROVE  /\ Append(q, x) \in Seq(AllSteps)
         /\ Settles(Append(q, x), Spot(x), x.put)
         /\ \A g, v : g # Spot(x) /\ Settles(q, g, v) => Settles(Append(q, x), g, v)
         /\ \A g : g # Spot(x) /\ Silent(q, g) => Silent(Append(q, x), g)
<1>1. PICK r \in Seq(AllSteps) : r = <<x>>
  BY OneStep
<1>2. Append(q, x) = q \o r
  BY <1>1, AppendIsConcat
<1>3. Settles(r, Spot(x), x.put) /\ \A g : g # Spot(x) => Silent(r, g)
  BY <1>1, OneStep
<1>4. Settles(q \o r, Spot(x), x.put)
  BY <1>3, SettledByLast
<1>5. \A g, v : g # Spot(x) /\ Settles(q, g, v) => Settles(q \o r, g, v)
  BY <1>3, SettledBefore
<1>6. \A g : g # Spot(x) /\ Silent(q, g) => Silent(q \o r, g)
  BY <1>3, SilentJoined
<1>7. q \o r \in Seq(AllSteps)
  OBVIOUS
<1>. QED
  BY <1>2, <1>4, <1>5, <1>6, <1>7

LEMMA TwoSteps ==
  ASSUME NEW x \in AllSteps, NEW y \in AllSteps
  PROVE  /\ <<x, y>> \in Seq(AllSteps)
         /\ Settles(<<x, y>>, Spot(y), y.put)
         /\ Spot(x) # Spot(y) => Settles(<<x, y>>, Spot(x), x.put)
         /\ \A g : g # Spot(x) /\ g # Spot(y) => Silent(<<x, y>>, g)
<1>1. PICK q \in Seq(AllSteps) : q = <<x>>
  BY OneStep
<1>2. <<x, y>> = Append(q, y)
  BY <1>1
<1>3. Settles(q, Spot(x), x.put) /\ \A g : g # Spot(x) => Silent(q, g)
  BY <1>1, OneStep
<1>4. /\ Append(q, y) \in Seq(AllSteps)
      /\ Settles(Append(q, y), Spot(y), y.put)
      /\ \A g, v : g # Spot(y) /\ Settles(q, g, v) => Settles(Append(q, y), g, v)
      /\ \A g : g # Spot(y) /\ Silent(q, g) => Silent(Append(q, y), g)
  BY OneMore
<1>. QED
  BY <1>2, <1>3, <1>4

LEMMA ThreeSteps ==
  ASSUME NEW x \in AllSteps, NEW y \in AllSteps, NEW z \in AllSteps
  PROVE  /\ <<x, y, z>> \in Seq(AllSteps)
         /\ Settles(<<x, y, z>>, Spot(z), z.put)
         /\ Spot(y) # Spot(z) => Settles(<<x, y, z>>, Spot(y), y.put)
         /\ \A g : g # Spot(x) /\ g # Spot(y) /\ g # Spot(z) => Silent(<<x, y, z>>, g)
<1>1. PICK q \in Seq(AllSteps) : q = <<x, y>>
  BY TwoSteps
<1>2. <<x, y, z>> = Append(q, z)
  BY <1>1
<1>3. Settles(q, Spot(y), y.put) /\ \A g : g # Spot(x) /\ g # Spot(y) => Silent(q, g)
  BY <1>1, TwoSteps
<1>4. /\ Append(q, z) \in Seq(AllSteps)
      /\ Settles(Append(q, z), Spot(z), z.put)
      /\ \A g, v : g # Spot(z) /\ Settles(q, g, v) => Settles(Append(q, z), g, v)
      /\ \A g : g # Spot(z) /\ Silent(q, g) => Silent(Append(q, z), g)
  BY OneMore
<1>. QED
  BY <1>2, <1>3, <1>4

\* remove_platform does the same steps and ignores their errors.
LEMMA LenientIsTheSame ==
  ASSUME NEW q \in Seq(Steps)
  PROVE  /\ \A g, v : Settles(q, g, v) => Settles(Lenient(q), g, v)
         /\ \A g : Silent(q, g) => Silent(Lenient(q), g)
<1>1. PICK r : r = Lenient(q)
  OBVIOUS
<1>2. \A s \in Steps : LET t == [s EXCEPT !.must = FALSE] IN Spot(t) = Spot(s) /\ t.put = s.put
  BY DEF Steps, Spot
<1>3. DOMAIN r = DOMAIN q /\ \A i \in DOMAIN q : r[i] = [q[i] EXCEPT !.must = FALSE]
  BY <1>1 DEF Lenient
<1>4. \A i \in DOMAIN q : q[i] \in Steps
  OBVIOUS
<1>5. \A i \in DOMAIN q : Spot(r[i]) = Spot(q[i]) /\ r[i].put = q[i].put
  BY <1>2, <1>3, <1>4
<1>. QED
  BY <1>1, <1>3, <1>5 DEF Settles, Silent

-----------------------------------------------------------------------------
(* What the lists of a platform promise.                                   *)

HookSpot(p, s, d) == <<"hooks", Settings(p, s, d)>>
McpSpot(p, s, d) ==
  CASE p = "claude" -> IF s = "user" THEN <<"cli", p>> ELSE <<"mcp", McpJson(d)>>
    [] p = "codex" -> <<"cli", p>>
    [] p = "gemini" -> <<"mcp", Settings(p, s, d)>>
HookSpots(p, d) == {HookSpot(p, s, d) : s \in Scopes}
McpSpots(p, d) == {McpSpot(p, s, d) : s \in Scopes}
SpotsOf(p, d) == HookSpots(p, d) \cup McpSpots(p, d)

\* A list leaves the agent in one of the spots, or in none, and is silent elsewhere.
Clears(q, spots) == \A g \in spots : Settles(q, g, FALSE)
Puts(q, spots, spot) == Settles(q, spot, TRUE) /\ \A g \in spots \ {spot} : Settles(q, g, FALSE)
Within(q, spots) == q \in Seq(AllSteps) /\ \A g : g \notin spots => Silent(q, g)

LEMMA StepsAreSteps == Seq(Steps) \subseteq Seq(AllSteps)
BY DEF AllSteps

LEMMA ShortJoins ==
  ASSUME NEW x \in AllSteps, NEW y \in AllSteps
  PROVE  <<x>> \o <<y>> = <<x, y>> /\ <<x>> \o <<>> = <<x>>
<1>1. <<x>> \in Seq(AllSteps) /\ <<x, y>> = Append(<<x>>, y)
  OBVIOUS
<1>. QED
  BY <1>1, AppendIsConcat, ConcatEmptySeq

LEMMA BothClears ==
  ASSUME NEW d \in Dirs, NEW p \in Platforms, NEW kind \in {"hooks", "mcp"}
  PROVE  LET spots == {<<kind, Settings(p, s, d)>> : s \in Scopes}
         IN  Clears(Both(kind, p, d), spots) /\ Within(Both(kind, p, d), spots)
<1> DEFINE spots == {<<kind, Settings(p, s, d)>> : s \in Scopes}
<1>1. PICK x, y : /\ x = Step(kind, Settings(p, "user", d), FALSE, FALSE)
                  /\ y = Step(kind, Settings(p, "project", d), FALSE, FALSE)
  OBVIOUS
<1>2. x \in AllSteps /\ y \in AllSteps
  BY <1>1 DEF Step, AllSteps, Steps, Files, Scopes
<1>3. /\ Spot(x) = <<kind, Settings(p, "user", d)>> /\ x.put = FALSE
      /\ Spot(y) = <<kind, Settings(p, "project", d)>> /\ y.put = FALSE
  BY <1>1 DEF Step, Spot
<1>4. spots = {Spot(x), Spot(y)}
  BY <1>3 DEF Scopes
<1>5. Both(kind, p, d) = <<x, y>>
  BY <1>1 DEF Both
<1>6. /\ <<x, y>> \in Seq(AllSteps)
      /\ Settles(<<x, y>>, Spot(y), FALSE)
      /\ Spot(x) # Spot(y) => Settles(<<x, y>>, Spot(x), FALSE)
      /\ \A g : g # Spot(x) /\ g # Spot(y) => Silent(<<x, y>>, g)
  BY <1>2, <1>3, TwoSteps
<1>7. Clears(<<x, y>>, {Spot(x), Spot(y)}) /\ Within(<<x, y>>, {Spot(x), Spot(y)})
  BY <1>6 DEF Clears, Within
<1>. QED
  BY <1>4, <1>5, <1>7

LEMMA InstallPuts ==
  ASSUME NEW d \in Dirs, NEW p \in Platforms, NEW s \in Scopes, NEW kind \in {"hooks", "mcp"}
  PROVE  LET spots == {<<kind, Settings(p, t, d)>> : t \in Scopes}
         IN  /\ Puts(Install(kind, p, s, d), spots, <<kind, Settings(p, s, d)>>)
             /\ Within(Install(kind, p, s, d), spots)
<1> DEFINE spots == {<<kind, Settings(p, t, d)>> : t \in Scopes}
<1>1. PICK x, y : /\ x = Step(kind, Settings(p, s, d), TRUE, TRUE)
                  /\ y = Step(kind, Settings(p, OtherScope(s), d), FALSE, TRUE)
  OBVIOUS
<1>2. x \in AllSteps /\ y \in AllSteps
  BY <1>1 DEF Step, AllSteps, Steps, Files, Scopes, OtherScope
<1>3. /\ Spot(x) = <<kind, Settings(p, s, d)>> /\ x.put = TRUE
      /\ Spot(y) = <<kind, Settings(p, OtherScope(s), d)>> /\ y.put = FALSE
  BY <1>1 DEF Step, Spot
<1>4. spots = {Spot(x), Spot(y)}
  BY <1>3 DEF Scopes, OtherScope
<1>5. Spot(x) = Spot(y) <=> Settings(p, OtherScope(s), d) = Settings(p, s, d)
  BY <1>3
<1>6. CASE Spot(x) = Spot(y)
  <2>1. Install(kind, p, s, d) = <<x>>
    BY <1>1, <1>2, <1>5, <1>6, ShortJoins DEF Install
  <2>2. Puts(<<x>>, {Spot(x), Spot(y)}, Spot(x)) /\ Within(<<x>>, {Spot(x), Spot(y)})
    BY <1>2, <1>3, <1>6, OneStep DEF Puts, Within
  <2>. QED
    BY <1>3, <1>4, <2>1, <2>2
<1>7. CASE Spot(x) # Spot(y)
  <2>1. Install(kind, p, s, d) = <<x>> \o <<y>>
    BY <1>1, <1>5, <1>7 DEF Install
  <2>2. <<x>> \o <<y>> = <<x, y>>
    BY <1>2, ShortJoins
  <2>3. Puts(<<x, y>>, {Spot(x), Spot(y)}, Spot(x)) /\ Within(<<x, y>>, {Spot(x), Spot(y)})
    BY <1>2, <1>3, <1>7, TwoSteps DEF Puts, Within
  <2>. QED
    BY <1>3, <1>4, <2>1, <2>2, <2>3
<1>. QED
  BY <1>6, <1>7

LEMMA HooksPut ==
  ASSUME NEW d \in Dirs, NEW p \in Platforms, NEW s \in Scopes
  PROVE  /\ Puts(ConfigureHooks(p, s, d), HookSpots(p, d), HookSpot(p, s, d))
         /\ Within(ConfigureHooks(p, s, d), HookSpots(p, d))
<1>1. ConfigureHooks(p, s, d) = Install("hooks", p, s, d)
  BY DEF ConfigureHooks, ConfigureClaudeHooks, ConfigureCodexHooks, ConfigureGeminiHooks, Platforms
<1>. QED
  BY <1>1, InstallPuts DEF HookSpots, HookSpot

LEMMA HooksCleared ==
  ASSUME NEW d \in Dirs, NEW p \in Platforms
  PROVE  Clears(RemoveHooks(p, d), HookSpots(p, d)) /\ Within(RemoveHooks(p, d), HookSpots(p, d))
<1>1. RemoveHooks(p, d) = Both("hooks", p, d)
  BY DEF RemoveHooks, RemoveClaudeHooks, RemoveCodexHooks, RemoveGeminiHooks, Platforms
<1>. QED
  BY <1>1, BothClears DEF HookSpots, HookSpot

LEMMA CliSpots ==
  ASSUME NEW d \in Dirs, NEW p \in {"claude", "codex"}, NEW put \in BOOLEAN, NEW must \in BOOLEAN
  PROVE  /\ LET x == Step("cli", p, put, must)
            IN  x \in AllSteps /\ Spot(x) = <<"cli", p>> /\ x.put = put
         /\ LET x == Step("mcp", McpJson(d), put, must)
            IN  x \in AllSteps /\ Spot(x) = <<"mcp", McpJson(d)>> /\ x.put = put
BY DEF Step, Spot, AllSteps, Steps, Files

LEMMA ClaudeMcp ==
  ASSUME NEW d \in Dirs, NEW s \in Scopes
  PROVE  /\ Puts(ConfigureMcp("claude", s, d), McpSpots("claude", d), McpSpot("claude", s, d))
         /\ Within(ConfigureMcp("claude", s, d), McpSpots("claude", d))
         /\ Clears(RemoveClaudeMcp(d), McpSpots("claude", d))
         /\ Within(RemoveClaudeMcp(d), McpSpots("claude", d))
<1>1. PICK x, y, z, r :
        /\ x = Remove("claude") /\ y = Step("mcp", McpJson(d), FALSE, TRUE)
        /\ z = Add("claude") /\ r = Step("mcp", McpJson(d), TRUE, TRUE)
  OBVIOUS
<1>2. /\ x \in AllSteps /\ y \in AllSteps /\ z \in AllSteps /\ r \in AllSteps
      /\ Spot(x) = <<"cli", "claude">> /\ Spot(z) = <<"cli", "claude">>
      /\ Spot(y) = <<"mcp", McpJson(d)>> /\ Spot(r) = <<"mcp", McpJson(d)>>
      /\ x.put = FALSE /\ y.put = FALSE /\ z.put = TRUE /\ r.put = TRUE
  BY <1>1, CliSpots DEF Remove, Add
<1>3. McpSpots("claude", d) = {Spot(x), Spot(y)}
  BY <1>2 DEF McpSpots, McpSpot, Scopes
<1>4. Spot(x) # Spot(y)
  BY <1>2
<1>5. Clears(<<x, y>>, {Spot(x), Spot(y)}) /\ Within(<<x, y>>, {Spot(x), Spot(y)})
  <2>1. /\ <<x, y>> \in Seq(AllSteps)
        /\ Settles(<<x, y>>, Spot(y), y.put)
        /\ Spot(x) # Spot(y) => Settles(<<x, y>>, Spot(x), x.put)
        /\ \A g : g # Spot(x) /\ g # Spot(y) => Silent(<<x, y>>, g)
    BY <1>2, TwoSteps
  <2>2. Settles(<<x, y>>, Spot(y), FALSE) /\ Settles(<<x, y>>, Spot(x), FALSE)
    BY <1>2, <1>4, <2>1
  <2>. QED
    BY <2>1, <2>2 DEF Clears, Within
<1>6. RemoveClaudeMcp(d) = <<x, y>>
  BY <1>1 DEF RemoveClaudeMcp
<1>7. CASE s = "user"
  <2>1. Spot(z) = Spot(x) /\ Spot(y) # Spot(z)
    BY <1>2
  <2>2. /\ <<x, y, z>> \in Seq(AllSteps)
        /\ Settles(<<x, y, z>>, Spot(z), z.put)
        /\ Spot(y) # Spot(z) => Settles(<<x, y, z>>, Spot(y), y.put)
        /\ \A g : g # Spot(x) /\ g # Spot(y) /\ g # Spot(z) => Silent(<<x, y, z>>, g)
    BY <1>2, ThreeSteps
  <2>3. Settles(<<x, y, z>>, Spot(x), TRUE) /\ Settles(<<x, y, z>>, Spot(y), FALSE)
    BY <1>2, <2>1, <2>2
  <2>4. Puts(<<x, y, z>>, {Spot(x), Spot(y)}, Spot(x)) /\ Within(<<x, y, z>>, {Spot(x), Spot(y)})
    BY <2>1, <2>2, <2>3 DEF Puts, Within
  <2>5. ConfigureMcp("claude", s, d) = <<x, y, z>> /\ McpSpot("claude", s, d) = Spot(x)
    BY <1>1, <1>2, <1>7 DEF ConfigureMcp, ConfigureClaudeMcpUser, McpSpot
  <2>. QED
    BY <1>3, <1>5, <1>6, <2>4, <2>5
<1>8. CASE s = "project"
  <2>1. Spot(r) = Spot(y) /\ Spot(x) # Spot(r)
    BY <1>2
  <2>2. /\ <<x, r>> \in Seq(AllSteps)
        /\ Settles(<<x, r>>, Spot(r), r.put)
        /\ Spot(x) # Spot(r) => Settles(<<x, r>>, Spot(x), x.put)
        /\ \A g : g # Spot(x) /\ g # Spot(r) => Silent(<<x, r>>, g)
    BY <1>2, TwoSteps
  <2>3. Settles(<<x, r>>, Spot(y), TRUE) /\ Settles(<<x, r>>, Spot(x), FALSE)
    BY <1>2, <2>1, <2>2
  <2>4. Puts(<<x, r>>, {Spot(x), Spot(y)}, Spot(y)) /\ Within(<<x, r>>, {Spot(x), Spot(y)})
    BY <2>1, <2>2, <2>3 DEF Puts, Within
  <2>5. ConfigureMcp("claude", s, d) = <<x, r>> /\ McpSpot("claude", s, d) = Spot(y)
    BY <1>1, <1>2, <1>8 DEF ConfigureMcp, ConfigureClaudeMcpProject, McpSpot
  <2>. QED
    BY <1>3, <1>5, <1>6, <2>4, <2>5
<1>. QED
  BY <1>7, <1>8 DEF Scopes

LEMMA CodexMcp ==
  ASSUME NEW d \in Dirs, NEW s \in Scopes
  PROVE  /\ Puts(ConfigureMcp("codex", s, d), McpSpots("codex", d), McpSpot("codex", s, d))
         /\ Within(ConfigureMcp("codex", s, d), McpSpots("codex", d))
         /\ Clears(RemoveCodexMcp, McpSpots("codex", d))
         /\ Within(RemoveCodexMcp, McpSpots("codex", d))
<1>1. PICK x, z : x = Remove("codex") /\ z = Add("codex")
  OBVIOUS
<1>2. /\ x \in AllSteps /\ z \in AllSteps /\ x.put = FALSE /\ z.put = TRUE
      /\ Spot(x) = <<"cli", "codex">> /\ Spot(z) = <<"cli", "codex">>
  BY <1>1, CliSpots DEF Remove, Add
<1>3. McpSpots("codex", d) = {Spot(x)} /\ McpSpot("codex", s, d) = Spot(x)
  BY <1>2 DEF McpSpots, McpSpot, Scopes
<1>4. Clears(<<x>>, {Spot(x)}) /\ Within(<<x>>, {Spot(x)})
  BY <1>2, OneStep DEF Clears, Within
<1>5. Puts(<<x, z>>, {Spot(x)}, Spot(x)) /\ Within(<<x, z>>, {Spot(x)})
  BY <1>2, TwoSteps DEF Puts, Within
<1>6. ConfigureMcp("codex", s, d) = <<x, z>> /\ RemoveCodexMcp = <<x>>
  BY <1>1 DEF ConfigureMcp, ConfigureCodexMcp, RemoveCodexMcp
<1>. QED
  BY <1>3, <1>4, <1>5, <1>6

LEMMA McpPut ==
  ASSUME NEW d \in Dirs, NEW p \in Platforms, NEW s \in Scopes
  PROVE  /\ Puts(ConfigureMcp(p, s, d), McpSpots(p, d), McpSpot(p, s, d))
         /\ Within(ConfigureMcp(p, s, d), McpSpots(p, d))
         /\ Clears(RemoveMcp(p, d), McpSpots(p, d))
         /\ Within(RemoveMcp(p, d), McpSpots(p, d))
<1>1. CASE p = "claude"
  BY <1>1, ClaudeMcp DEF RemoveMcp
<1>2. CASE p = "codex"
  BY <1>2, CodexMcp DEF RemoveMcp
<1>3. CASE p = "gemini"
  <2>1. /\ ConfigureMcp(p, s, d) = Install("mcp", p, s, d) /\ RemoveMcp(p, d) = Both("mcp", p, d)
    BY <1>3 DEF ConfigureMcp, RemoveMcp, ConfigureGeminiMcp, RemoveGeminiMcp
  <2>2. /\ McpSpots(p, d) = {<<"mcp", Settings(p, t, d)>> : t \in Scopes}
        /\ McpSpot(p, s, d) = <<"mcp", Settings(p, s, d)>>
    BY <1>3 DEF McpSpots, McpSpot
  <2>. QED
    BY <2>1, <2>2, InstallPuts, BothClears
<1>. QED
  BY <1>1, <1>2, <1>3 DEF Platforms

\* Lists that keep to spots of their own do not disturb each other.
LEMMA JoinApart ==
  ASSUME NEW q, NEW r, NEW S, NEW T, Within(q, S), Within(r, T), S \cap T = {}
  PROVE  /\ \A g \in S : \A v : Settles(q, g, v) => Settles(q \o r, g, v)
         /\ \A g \in T : \A v : Settles(r, g, v) => Settles(q \o r, g, v)
         /\ Within(q \o r, S \cup T)
<1>1. q \in Seq(AllSteps) /\ r \in Seq(AllSteps)
  BY DEF Within
<1>2. \A g \in S : \A v : Settles(q, g, v) => Settles(q \o r, g, v)
  <2>1. \A g \in S : Silent(r, g)
    BY DEF Within
  <2>. QED
    BY <1>1, <2>1, SettledBefore
<1>3. \A g \in T : \A v : Settles(r, g, v) => Settles(q \o r, g, v)
  BY <1>1, SettledByLast
<1>4. Within(q \o r, S \cup T)
  <2>1. q \o r \in Seq(AllSteps)
    BY <1>1, Concatenation
  <2>2. \A g : g \notin S \cup T => Silent(q, g) /\ Silent(r, g)
    BY DEF Within
  <2>3. \A g : g \notin S \cup T => Silent(q \o r, g)
    BY <1>1, <2>2, SilentJoined
  <2>. QED
    BY <2>1, <2>3 DEF Within
<1>. QED
  BY <1>2, <1>3, <1>4

LEMMA KindsApart ==
  ASSUME NEW d \in Dirs, NEW p \in Platforms
  PROVE  HookSpots(p, d) \cap McpSpots(p, d) = {}
BY DEF HookSpots, McpSpots, HookSpot, McpSpot, Platforms

\* A platform that is not selected, or that is uninstalled, is left without the agent.
LEMMA PlatformCleared ==
  ASSUME NEW d \in Dirs, NEW p \in Platforms
  PROVE  /\ Clears(RemovePlatform(p, d), SpotsOf(p, d))
         /\ Within(RemovePlatform(p, d), SpotsOf(p, d))
<1>1. PICK q, r : q = RemoveHooks(p, d) /\ r = RemoveMcp(p, d)
  OBVIOUS
<1>2. PICK S, T : S = HookSpots(p, d) /\ T = McpSpots(p, d)
  OBVIOUS
<1>3. "user" \in Scopes
  BY DEF Scopes
<1>4. /\ Clears(q, S) /\ Within(q, S) /\ Clears(r, T) /\ Within(r, T) /\ S \cap T = {}
  BY <1>1, <1>2, <1>3, HooksCleared, McpPut, KindsApart
<1>5. Within(q \o r, S \cup T) /\ Clears(q \o r, S \cup T)
  BY <1>4, JoinApart DEF Clears
<1>6. q \o r \in Seq(Steps)
  BY <1>1, RemoveSteps, Concatenation
<1>7. Within(Lenient(q \o r), S \cup T) /\ Clears(Lenient(q \o r), S \cup T)
  <2>1. Lenient(q \o r) \in Seq(AllSteps)
    BY <1>1, RemovePlatformSteps, StepsAreSteps DEF RemovePlatform
  <2>. QED
    BY <1>5, <1>6, <2>1, LenientIsTheSame DEF Within, Clears
<1>. QED
  BY <1>1, <1>2, <1>7 DEF RemovePlatform, SpotsOf

\* A platform that is selected is left with the agent where the setup puts it.
LEMMA PlatformPut ==
  ASSUME NEW d \in Dirs, NEW p \in Platforms, NEW s \in Scopes, NEW reachable \in BOOLEAN
  PROVE  LET q == ConfigureHooks(p, s, d)
                  \o IF reachable THEN ConfigureMcp(p, s, d) ELSE RemoveMcp(p, d)
         IN  /\ Within(q, SpotsOf(p, d))
             /\ Puts(q, HookSpots(p, d), HookSpot(p, s, d))
             /\ reachable => Puts(q, McpSpots(p, d), McpSpot(p, s, d))
             /\ ~reachable => Clears(q, McpSpots(p, d))
<1>1. PICK q, r : /\ q = ConfigureHooks(p, s, d)
                  /\ r = IF reachable THEN ConfigureMcp(p, s, d) ELSE RemoveMcp(p, d)
  OBVIOUS
<1>2. PICK S, T : S = HookSpots(p, d) /\ T = McpSpots(p, d)
  OBVIOUS
<1>3. PICK g, h : g = HookSpot(p, s, d) /\ h = McpSpot(p, s, d)
  OBVIOUS
<1>4. g \in S /\ h \in T
  BY <1>2, <1>3 DEF HookSpots, McpSpots
<1>5. Within(q, S) /\ Puts(q, S, g)
  BY <1>1, <1>2, <1>3, HooksPut
<1>6. Within(r, T) /\ (reachable => Puts(r, T, h)) /\ (~reachable => Clears(r, T))
  BY <1>1, <1>2, <1>3, McpPut
<1>7. S \cap T = {}
  BY <1>2, KindsApart
<1>8. /\ Within(q \o r, S \cup T)
      /\ \A x \in S : \A v : Settles(q, x, v) => Settles(q \o r, x, v)
      /\ \A x \in T : \A v : Settles(r, x, v) => Settles(q \o r, x, v)
  BY <1>5, <1>6, <1>7, JoinApart
<1>9. Puts(q \o r, S, g)
  BY <1>4, <1>5, <1>8 DEF Puts
<1>10. (reachable => Puts(q \o r, T, h)) /\ (~reachable => Clears(q \o r, T))
  BY <1>4, <1>6, <1>8 DEF Puts, Clears
<1>. QED
  BY <1>1, <1>2, <1>3, <1>8, <1>9, <1>10 DEF SpotsOf

LEMMA PlatformsApart ==
  ASSUME NEW d \in Dirs, NEW p \in Platforms, NEW o \in Platforms, p # o
  PROVE  SpotsOf(p, d) \cap SpotsOf(o, d) = {}
BY DEF SpotsOf, HookSpots, McpSpots, HookSpot, McpSpot, Settings, McpJson, Platforms

-----------------------------------------------------------------------------
(* What a run promises.                                                    *)

UnitSpot == <<"unit", None>>
StateSpot == <<"state", None>>
AllSpots(d) == UNION {SpotsOf(p, d) : p \in Platforms}

LEMMA EmptyList == \A spots : Within(<<>>, spots)
BY DEF Within, Silent

LEMMA EachSettles ==
  ASSUME NEW d \in Dirs, NEW x, \A p \in Platforms : Within(x[p], SpotsOf(p, d))
  PROVE  /\ Within(Each(x), AllSpots(d))
         /\ \A p \in Platforms : \A g \in SpotsOf(p, d) : \A v :
              Settles(x[p], g, v) => Settles(Each(x), g, v)
         /\ \A p \in Platforms : \A g \in SpotsOf(p, d) :
              x[p] = <<>> => Silent(Each(x), g)
<1>1. PICK q, r, t : q = x["claude"] /\ r = x["codex"] /\ t = x["gemini"]
  OBVIOUS
<1>2. PICK Q, R, T : /\ Q = SpotsOf("claude", d) /\ R = SpotsOf("codex", d)
                     /\ T = SpotsOf("gemini", d)
  OBVIOUS
<1>3. Within(q, Q) /\ Within(r, R) /\ Within(t, T)
  BY <1>1, <1>2 DEF Platforms
<1>4. Q \cap R = {} /\ Q \cap T = {} /\ R \cap T = {}
  BY <1>2, PlatformsApart DEF Platforms
<1>5. /\ Within(q \o r, Q \cup R)
      /\ \A g \in Q : \A v : Settles(q, g, v) => Settles(q \o r, g, v)
      /\ \A g \in R : \A v : Settles(r, g, v) => Settles(q \o r, g, v)
  BY <1>3, <1>4, JoinApart
<1>6. (Q \cup R) \cap T = {}
  BY <1>4
<1>7. /\ Within((q \o r) \o t, (Q \cup R) \cup T)
      /\ \A g \in Q \cup R : \A v : Settles(q \o r, g, v) => Settles((q \o r) \o t, g, v)
      /\ \A g \in T : \A v : Settles(t, g, v) => Settles((q \o r) \o t, g, v)
  BY <1>3, <1>5, <1>6, JoinApart
<1>8. Each(x) = (q \o r) \o t
  BY <1>1 DEF Each
<1>9. AllSpots(d) = (Q \cup R) \cup T
  BY <1>2 DEF AllSpots, Platforms
<1>10. ASSUME NEW p \in Platforms, NEW g \in SpotsOf(p, d), NEW v, Settles(x[p], g, v)
       PROVE  Settles(Each(x), g, v)
  BY <1>1, <1>2, <1>5, <1>7, <1>8, <1>10 DEF Platforms
<1>11. ASSUME NEW p \in Platforms, NEW g \in SpotsOf(p, d), x[p] = <<>>
       PROVE  Silent(Each(x), g)
  <2>1. ASSUME NEW o \in Platforms PROVE Silent(x[o], g)
    <3>1. CASE o = p
      BY <1>11, <3>1 DEF Silent
    <3>2. CASE o # p
      <4>1. g \notin SpotsOf(o, d)
        BY <3>2, PlatformsApart
      <4>. QED
        BY <4>1 DEF Within
    <3>. QED
      BY <3>1, <3>2
  <2>2. Silent(q, g) /\ Silent(r, g) /\ Silent(t, g)
    BY <1>1, <2>1 DEF Platforms
  <2>3. q \in Seq(AllSteps) /\ r \in Seq(AllSteps) /\ t \in Seq(AllSteps) /\ q \o r \in Seq(AllSteps)
    BY <1>3, <1>5 DEF Within
  <2>4. Silent(q \o r, g)
    BY <2>2, <2>3, SilentJoined
  <2>. QED
    BY <1>8, <2>2, <2>3, <2>4, SilentJoined
<1>. QED
  BY <1>7, <1>8, <1>9, <1>10, <1>11

LEMMA PlatformLists ==
  ASSUME NEW job \in Jobs, NEW c, NEW p \in Platforms
  PROVE  /\ Within(Cleaning(job)[p], SpotsOf(p, job.dir))
         /\ Within(Configuring(job, c)[p], SpotsOf(p, job.dir))
         /\ p \in Selected(job) =>
              /\ Puts(Configuring(job, c)[p], HookSpots(p, job.dir), HookSpot(p, job.scope, job.dir))
              /\ IF LocallyReachable(c.bind)
                 THEN Puts(Configuring(job, c)[p], McpSpots(p, job.dir),
                           McpSpot(p, job.scope, job.dir))
                 ELSE Clears(Configuring(job, c)[p], McpSpots(p, job.dir))
         /\ job.platforms # {} /\ p \notin job.platforms =>
              Clears(Cleaning(job)[p], SpotsOf(p, job.dir)) /\ Configuring(job, c)[p] = <<>>
<1>1. job.scope \in Scopes /\ job.dir \in Dirs
  BY SetupAssumption
<1>2. PICK reachable \in BOOLEAN : reachable <=> LocallyReachable(c.bind)
  OBVIOUS
<1>3. PICK d \in Dirs, s \in Scopes : d = job.dir /\ s = job.scope
  BY <1>1
<1>4. Within(Cleaning(job)[p], SpotsOf(p, d))
  BY <1>3, EmptyList, PlatformCleared DEF Cleaning
<1>5. CASE p \in Selected(job)
  <2>1. PICK q : q = ConfigureHooks(p, s, d)
                     \o IF reachable THEN ConfigureMcp(p, s, d) ELSE RemoveMcp(p, d)
    OBVIOUS
  <2>2. Configuring(job, c)[p] = q
    BY <1>2, <1>3, <1>5, <2>1 DEF Configuring
  <2>3. /\ Within(q, SpotsOf(p, d))
        /\ Puts(q, HookSpots(p, d), HookSpot(p, s, d))
        /\ reachable => Puts(q, McpSpots(p, d), McpSpot(p, s, d))
        /\ ~reachable => Clears(q, McpSpots(p, d))
    BY <2>1, PlatformPut
  <2>4. ~(job.platforms # {} /\ p \notin job.platforms)
    BY <1>5 DEF Selected
  <2>. QED
    BY <1>2, <1>3, <1>4, <1>5, <2>2, <2>3, <2>4
<1>6. CASE p \notin Selected(job)
  <2>1. Configuring(job, c)[p] = <<>>
    BY <1>6 DEF Configuring
  <2>2. job.platforms # {} /\ p \notin job.platforms => Cleaning(job)[p] = RemovePlatform(p, d)
    BY <1>3 DEF Cleaning
  <2>. QED
    BY <1>3, <1>4, <1>6, <2>1, <2>2, EmptyList, PlatformCleared
<1>. QED
  BY <1>5, <1>6

\* The steps of a setup leave the agent in one place on each selected platform and
\* in none on those that the job leaves out.
LEMMA SetupSettles ==
  ASSUME NEW job \in Jobs, NEW c, NEW p \in Platforms
  PROVE  /\ SetupSteps(job, c) \in Seq(Steps)
         /\ p \in Selected(job) =>
              /\ Puts(SetupSteps(job, c), HookSpots(p, job.dir), HookSpot(p, job.scope, job.dir))
              /\ IF LocallyReachable(c.bind)
                 THEN Puts(SetupSteps(job, c), McpSpots(p, job.dir), McpSpot(p, job.scope, job.dir))
                 ELSE Clears(SetupSteps(job, c), McpSpots(p, job.dir))
         /\ job.platforms # {} /\ p \notin job.platforms =>
              Clears(SetupSteps(job, c), SpotsOf(p, job.dir))
<1>1. job.scope \in Scopes /\ job.dir \in Dirs
  BY SetupAssumption
<1>2. PICK d, clean, work, steps :
        /\ d = job.dir /\ clean = Cleaning(job) /\ work = Configuring(job, c)
        /\ steps = SetupSteps(job, c)
  OBVIOUS
<1>3. PICK u : u = IF job.autostart THEN <<UnitStep>> ELSE <<>>
  OBVIOUS
<1>4. IF Selected(job) = {} THEN steps = Each(clean) \o <<>>
      ELSE steps = Each(clean) \o (Each(work) \o u)
  BY <1>2, <1>3 DEF SetupSteps, Cleaning, Configuring, UnitStep
<1>5. Each(clean) \in Seq(Steps) /\ Each(work) \in Seq(Steps)
  BY <1>2, PartsAreSteps
<1>6. u \in Seq(Steps) /\ \A g : g # UnitSpot => Silent(u, g)
  <2>1. UnitStep \in Steps /\ UnitStep \in AllSteps /\ Spot(UnitStep) = UnitSpot
    BY DEF UnitStep, Step, Steps, AllSteps, Spot, UnitSpot
  <2>2. <<UnitStep>> \in Seq(Steps) /\ \A g : g # UnitSpot => Silent(<<UnitStep>>, g)
    BY <2>1, OneStep
  <2>3. <<>> \in Seq(Steps) /\ \A g : Silent(<<>>, g)
    BY DEF Silent
  <2>. QED
    BY <1>3, <2>2, <2>3
<1>7. steps \in Seq(Steps)
  <2>1. Each(work) \o u \in Seq(Steps) /\ <<>> \in Seq(Steps)
    BY <1>5, <1>6, Concatenation
  <2>. QED
    BY <1>4, <1>5, <2>1, Concatenation
<1>8. /\ \A o \in Platforms : Within(clean[o], SpotsOf(o, d))
      /\ \A o \in Platforms : Within(work[o], SpotsOf(o, d))
  BY <1>2, PlatformLists
<1>9. \A g \in SpotsOf(p, d) : g # UnitSpot
  BY DEF SpotsOf, HookSpots, McpSpots, HookSpot, McpSpot, UnitSpot, Platforms
<1>10. Each(clean) \in Seq(AllSteps) /\ Each(work) \in Seq(AllSteps) /\ u \in Seq(AllSteps)
       /\ Each(work) \o u \in Seq(AllSteps)
  BY <1>5, <1>6, StepsAreSteps, Concatenation
\* What the configuration of a platform settles stays settled to the end.
<1>11. ASSUME NEW g \in SpotsOf(p, d), NEW v, Settles(work[p], g, v), Selected(job) # {}
       PROVE  Settles(steps, g, v)
  <2>1. Settles(Each(work), g, v)
    BY <1>1, <1>2, <1>8, <1>11, EachSettles
  <2>2. Settles(Each(work) \o u, g, v)
    BY <1>6, <1>9, <1>10, <2>1, SettledBefore
  <2>. QED
    BY <1>4, <1>10, <1>11, <2>2, SettledByLast
\* So does the cleaning of a platform that is not configured.
<1>12. ASSUME NEW g \in SpotsOf(p, d), NEW v, Settles(clean[p], g, v), work[p] = <<>>
       PROVE  Settles(steps, g, v)
  <2>1. Settles(Each(clean), g, v)
    BY <1>1, <1>2, <1>8, <1>12, EachSettles
  <2>2. Silent(Each(work), g)
    BY <1>1, <1>2, <1>8, <1>12, EachSettles
  <2>3. Silent(Each(work) \o u, g)
    BY <1>6, <1>9, <1>10, <2>2, SilentJoined
  <2>4. Silent(<<>>, g) /\ <<>> \in Seq(AllSteps)
    BY DEF Silent
  <2>. QED
    BY <1>4, <1>10, <2>1, <2>3, <2>4, SettledBefore
<1>13. CASE p \in Selected(job)
  <2>1. Selected(job) # {} /\ ~(job.platforms # {} /\ p \notin job.platforms)
    BY <1>13 DEF Selected
  <2>2. /\ Puts(work[p], HookSpots(p, d), HookSpot(p, job.scope, d))
        /\ IF LocallyReachable(c.bind) THEN Puts(work[p], McpSpots(p, d), McpSpot(p, job.scope, d))
           ELSE Clears(work[p], McpSpots(p, d))
    BY <1>2, <1>13, PlatformLists
  <2>3. /\ HookSpots(p, d) \subseteq SpotsOf(p, d) /\ McpSpots(p, d) \subseteq SpotsOf(p, d)
        /\ HookSpot(p, job.scope, d) \in SpotsOf(p, d) /\ McpSpot(p, job.scope, d) \in SpotsOf(p, d)
    BY <1>1 DEF SpotsOf, HookSpots, McpSpots
  <2>4. Puts(steps, HookSpots(p, d), HookSpot(p, job.scope, d))
    BY <1>11, <2>1, <2>2, <2>3 DEF Puts
  <2>5. IF LocallyReachable(c.bind) THEN Puts(steps, McpSpots(p, d), McpSpot(p, job.scope, d))
        ELSE Clears(steps, McpSpots(p, d))
    BY <1>11, <2>1, <2>2, <2>3 DEF Puts, Clears
  <2>. QED
    BY <1>2, <1>7, <2>1, <2>4, <2>5
<1>14. CASE job.platforms # {} /\ p \notin job.platforms
  <2>1. Clears(clean[p], SpotsOf(p, d)) /\ work[p] = <<>>
    BY <1>2, <1>14, PlatformLists
  <2>2. Clears(steps, SpotsOf(p, d))
    BY <1>12, <2>1 DEF Clears
  <2>3. p \notin Selected(job)
    BY <1>14 DEF Selected
  <2>. QED
    BY <1>2, <1>7, <1>14, <2>2, <2>3
<1>. QED
  BY <1>2, <1>7, <1>13, <1>14

\* The steps of an uninstall take everything away.
LEMMA RemovalLists ==
  ASSUME NEW d \in Dirs, NEW p \in Platforms
  PROVE  RemovePlatform(p, d) \in Seq(Removals)
<1>1. PICK q, r : q = RemoveHooks(p, d) /\ r = RemoveMcp(p, d)
  OBVIOUS
<1>2. \A kind \in {"hooks", "mcp"} : Both(kind, p, d) \in Seq(Removals)
  <2>1. \A kind \in {"hooks", "mcp"}, s \in Scopes :
          Step(kind, Settings(p, s, d), FALSE, FALSE) \in Removals
    BY DEF Step, Removals, AllSteps, Steps, Files
  <2>. QED
    BY <2>1, ShortLists DEF Both, Scopes
<1>3. \A cli \in {"claude", "codex"} : Remove(cli) \in Removals
  BY DEF Remove, Step, Removals, AllSteps, Steps
<1>4. Step("mcp", McpJson(d), FALSE, TRUE) \in Removals
  BY DEF Step, Removals, AllSteps, Steps, Files
<1>5. q \in Seq(Removals)
  BY <1>1, <1>2
  DEF RemoveHooks, RemoveClaudeHooks, RemoveCodexHooks, RemoveGeminiHooks, Platforms
<1>6. RemoveClaudeMcp(d) \in Seq(Removals) /\ RemoveCodexMcp \in Seq(Removals)
  BY <1>3, <1>4, ShortLists DEF RemoveClaudeMcp, RemoveCodexMcp
<1>7. r \in Seq(Removals)
  BY <1>1, <1>2, <1>6 DEF RemoveMcp, RemoveGeminiMcp, Platforms
<1>8. q \o r \in Seq(Removals) /\ q \o r \in Seq(Steps)
  BY <1>1, <1>5, <1>7, RemoveSteps, Concatenation
<1>9. PICK t \in Seq(Removals) \cap Seq(Steps) : t = q \o r
  BY <1>8
<1>10. \A s \in Removals \cap Steps : [s EXCEPT !.must = FALSE] \in Removals
  BY DEF Removals, AllSteps, Steps
<1>11. Lenient(t) \in [1..Len(t) -> Removals] /\ Len(t) \in Nat
  BY <1>10 DEF Lenient
<1>12. Lenient(t) \in Seq(Removals)
  BY <1>11
<1>. QED
  BY <1>1, <1>9, <1>12 DEF RemovePlatform

LEMMA UninstallSettles ==
  ASSUME NEW d \in Dirs
  PROVE  /\ UninstallSteps(d) \in Seq(Removals)
         /\ \A p \in Platforms : Clears(UninstallSteps(d), SpotsOf(p, d))
         /\ Settles(UninstallSteps(d), UnitSpot, FALSE)
         /\ Settles(UninstallSteps(d), StateSpot, FALSE)
<1>1. PICK x : x = [p \in Platforms |-> RemovePlatform(p, d)]
  OBVIOUS
<1>2. PICK u, s : u = Step("unit", None, FALSE, FALSE) /\ s = StateStep
  OBVIOUS
<1>3. /\ u \in AllSteps /\ Spot(u) = UnitSpot /\ u.put = FALSE
      /\ s \in AllSteps /\ Spot(s) = StateSpot /\ s.put = FALSE
  BY <1>2 DEF Step, StateStep, AllSteps, Steps, Spot, UnitSpot, StateSpot
<1>4. /\ <<u>> \in Seq(AllSteps) /\ Settles(<<u>>, UnitSpot, FALSE)
      /\ <<s>> \in Seq(AllSteps) /\ Settles(<<s>>, StateSpot, FALSE)
      /\ \A g : g # StateSpot => Silent(<<s>>, g)
  BY <1>3, OneStep
<1>5. \A p \in Platforms : x[p] = RemovePlatform(p, d)
  BY <1>1
<1>6. \A p \in Platforms : Within(x[p], SpotsOf(p, d)) /\ Clears(x[p], SpotsOf(p, d))
  BY <1>5, PlatformCleared
<1>7. Within(Each(x), AllSpots(d)) /\ \A p \in Platforms : Clears(Each(x), SpotsOf(p, d))
  BY <1>6, EachSettles DEF Clears
<1>8. \A g \in AllSpots(d) : g # UnitSpot /\ g # StateSpot
  BY DEF AllSpots, SpotsOf, HookSpots, McpSpots, HookSpot, McpSpot, UnitSpot, StateSpot, Platforms
<1>9. PICK e \in Seq(AllSteps) : e = Each(x)
  BY <1>7 DEF Within
<1>10. UninstallSteps(d) = (<<u>> \o e) \o <<s>> /\ <<u>> \o e \in Seq(AllSteps)
  BY <1>1, <1>2, <1>4, <1>9, Concatenation DEF UninstallSteps, StateStep
<1>11. \A p \in Platforms : Clears(UninstallSteps(d), SpotsOf(p, d))
  <2>1. ASSUME NEW p \in Platforms, NEW g \in SpotsOf(p, d)
        PROVE  Settles((<<u>> \o e) \o <<s>>, g, FALSE)
    <3>1. Settles(e, g, FALSE)
      BY <1>7, <1>9 DEF Clears
    <3>2. Settles(<<u>> \o e, g, FALSE)
      BY <1>4, <3>1, SettledByLast
    <3>3. g # StateSpot
      BY <1>8 DEF AllSpots
    <3>. QED
      BY <1>4, <1>10, <3>2, <3>3, SettledBefore
  <2>. QED
    BY <1>10, <2>1 DEF Clears
<1>12. Settles(UninstallSteps(d), UnitSpot, FALSE)
  <2>1. Silent(e, UnitSpot) /\ UnitSpot # StateSpot
    BY <1>7, <1>8, <1>9 DEF Within, UnitSpot, StateSpot
  <2>2. Settles(<<u>> \o e, UnitSpot, FALSE)
    BY <1>4, <2>1, SettledBefore
  <2>. QED
    BY <1>4, <1>10, <2>1, <2>2, SettledBefore
<1>13. Settles(UninstallSteps(d), StateSpot, FALSE)
  BY <1>4, <1>10, SettledByLast
<1>14. UninstallSteps(d) \in Seq(Removals)
  <2>1. \A p \in Platforms : x[p] \in Seq(Removals)
    BY <1>5, RemovalLists
  <2>2. Each(x) \in Seq(Removals)
    BY <2>1, Concatenation DEF Each, Platforms
  <2>3. <<u>> \in Seq(Removals) /\ <<s>> \in Seq(Removals)
    BY <1>3 DEF Removals
  <2>4. <<u>> \o e \in Seq(Removals)
    BY <1>9, <2>2, <2>3, Concatenation
  <2>. QED
    BY <1>10, <2>3, <2>4, Concatenation
<1>. QED
  BY <1>11, <1>12, <1>13, <1>14

-----------------------------------------------------------------------------
(* What a run has done.                                                    *)

EntriesOf(a, m) == {e \in m : e[1] = a}
Entered(a, m, put) == EntriesOf(a, m) = IF put THEN {ProxyEntry(a)} ELSE {}
Has(a, c, kind, put) ==
  /\ kind = "hooks" => (HasHook(a, c) <=> put)
  /\ kind = "mcp" => Entered(a, c.mcp, put)

\* What a step is for is so, unless it is about a file that was overwritten unseen.
Achieved(a, s) ==
  /\ s.kind \in {"hooks", "mcp"} => s.where \in lost \/ Has(a, disk[s.where], s.kind, s.put)
  /\ s.kind = "cli" => Entered(a, registry[s.where], s.put)
  /\ s.kind = "unit" => (a \in unit <=> s.put)
  /\ s.kind = "state" => config[a] = None

Holds(a, q) == \A s \in AllSteps : Settles(q, Spot(s), s.put) => Achieved(a, s)

Uninstalls == [kind : {"uninstall"}, dir : Dirs]
StepsOf(a, job) ==
  IF job.kind = "setup" THEN SetupSteps(job, config[a]) ELSE UninstallSteps(job.dir)

\* The steps that a run has done, and those that it still has to do.
Done(a, q) ==
  /\ q \in Seq(AllSteps) /\ proc[a].todo \in Seq(AllSteps)
  /\ q \o proc[a].todo = StepsOf(a, proc[a].job)
  /\ ~proc[a].failed => Holds(a, q)
Worked(a) ==
  proc[a].at = "work" => proc[a].job \in Jobs \cup Uninstalls /\ \E q : Done(a, q)

\* What the last run has done is still so.
Finished(a) ==
  last[a] # None => last[a] \in Jobs \cup Uninstalls /\ Holds(a, StepsOf(a, last[a]))

PlacesInv ==
  /\ DOMAIN registry = {"claude", "codex"}
  /\ \A a \in Agents : Worked(a) /\ Finished(a)

SetupInv == IInv /\ DaemonInv /\ PlacesInv

LEMMA StepTypes ==
  \A s \in AllSteps :
    /\ s.kind \in {"hooks", "mcp", "cli", "unit", "state"}
    /\ s.kind \in {"hooks", "mcp"} => s.where \in Files
    /\ s.kind = "cli" => s.where \in {"claude", "codex"}
    /\ s.kind \in {"unit", "state"} => s.where = None
    /\ s.kind = "state" => s \notin Steps /\ s.put = FALSE
BY DEF AllSteps, Steps, StateStep, Step

\* What an agent finds undisturbed still holds.
Undisturbed(a) ==
  /\ lost \subseteq lost' /\ config'[a] = config[a] /\ (a \in unit' <=> a \in unit)
  /\ \A f \in Files \ lost' :
       /\ HasHook(a, disk'[f]) <=> HasHook(a, disk[f])
       /\ EntriesOf(a, disk'[f].mcp) = EntriesOf(a, disk[f].mcp)
  /\ \A p \in {"claude", "codex"} : EntriesOf(a, registry'[p]) = EntriesOf(a, registry[p])

LEMMA AchievedStays ==
  ASSUME NEW a, Undisturbed(a), NEW s \in AllSteps, Achieved(a, s)
  PROVE  Achieved(a, s)'
<1>1. ProxyEntry(a)' = ProxyEntry(a)
  BY DEF Undisturbed, ProxyEntry
<1>2. CASE s.kind \in {"hooks", "mcp"}
  <2>1. s.where \in Files
    BY <1>2, StepTypes
  <2>2. CASE s.where \in lost'
    BY <1>2, <2>2 DEF Achieved
  <2>3. CASE s.where \notin lost'
    <3>1. s.where \notin lost
      BY <2>3 DEF Undisturbed
    <3>2. Has(a, disk[s.where], s.kind, s.put)
      BY <1>2, <3>1 DEF Achieved
    <3>3. /\ HasHook(a, disk'[s.where]) <=> HasHook(a, disk[s.where])
          /\ EntriesOf(a, disk'[s.where].mcp) = EntriesOf(a, disk[s.where].mcp)
      BY <2>1, <2>3 DEF Undisturbed
    <3>4. Has(a, disk[s.where], s.kind, s.put)'
      BY <1>1, <3>2, <3>3 DEF Has, HasHook, Entered
    <3>. QED
      BY <1>2, <3>4 DEF Achieved
  <2>. QED
    BY <2>2, <2>3
<1>3. CASE s.kind = "cli"
  <2>1. s.where \in {"claude", "codex"}
    BY <1>3, StepTypes
  <2>2. EntriesOf(a, registry'[s.where]) = EntriesOf(a, registry[s.where])
    BY <2>1 DEF Undisturbed
  <2>. QED
    BY <1>1, <1>3, <2>2 DEF Achieved, Entered
<1>4. CASE s.kind \in {"unit", "state"}
  BY <1>4 DEF Achieved, Undisturbed
<1>. QED
  BY <1>2, <1>3, <1>4, StepTypes

LEMMA HoldsStays ==
  ASSUME NEW a, Undisturbed(a), NEW q, Holds(a, q)
  PROVE  Holds(a, q)'
BY AchievedStays DEF Holds

\* The lists themselves change only with the agent's configuration.
LEMMA ListsStay ==
  ASSUME NEW a, NEW job, clis' = clis, job.kind # "setup" \/ config'[a] = config[a]
  PROVE  StepsOf(a, job)' = StepsOf(a, job)
BY DEF StepsOf, SetupSteps, Selected

LEMMA ListTypes ==
  ASSUME NEW a, NEW job \in Jobs \cup Uninstalls
  PROVE  /\ StepsOf(a, job) \in Seq(AllSteps)
         /\ job.kind = "setup" => StepsOf(a, job) \in Seq(Steps)
         /\ job.kind # "setup" => StepsOf(a, job) \in Seq(Removals)
<1>1. CASE job \in Jobs
  <2>1. "claude" \in Platforms /\ job.kind = "setup"
    BY <1>1, SetupAssumption DEF Platforms
  <2>2. SetupSteps(job, config[a]) \in Seq(Steps)
    BY <1>1, <2>1, SetupSettles
  <2>. QED
    BY <2>1, <2>2, StepsAreSteps DEF StepsOf
<1>2. CASE job \in Uninstalls
  <2>1. job.kind # "setup" /\ job.dir \in Dirs
    BY <1>2 DEF Uninstalls
  <2>2. UninstallSteps(job.dir) \in Seq(Removals)
    BY <2>1, UninstallSettles
  <2>3. Seq(Removals) \subseteq Seq(AllSteps)
    BY DEF Removals
  <2>. QED
    BY <2>1, <2>2, <2>3 DEF StepsOf
<1>. QED
  BY <1>1, <1>2

\* An agent that is undisturbed and whose run has not moved is as it was.
LEMMA AgentStays ==
  ASSUME NEW a \in Agents, PlacesInv, clis' = clis, Undisturbed(a),
         proc'[a] = proc[a], last'[a] = last[a]
  PROVE  Worked(a)' /\ Finished(a)'
<1>1. \A job : StepsOf(a, job)' = StepsOf(a, job)
  BY ListsStay DEF Undisturbed
<1>2. \A q : Done(a, q) => Done(a, q)'
  BY <1>1, HoldsStays DEF Done
<1>3. Worked(a)'
  BY <1>2 DEF PlacesInv, Worked
<1>4. Finished(a)'
  BY <1>1, HoldsStays DEF PlacesInv, Finished
<1>. QED
  BY <1>3, <1>4

\* What a step does to the file that it has read.
LEMMA UpdatedHas ==
  ASSUME NEW b \in Agents, NEW x \in AllSteps, x.kind \in {"hooks", "mcp"}, NEW c, Whole(c)
  PROVE  /\ Has(b, Updated(b, x, c), x.kind, x.put)
         /\ x.kind = "hooks" => Updated(b, x, c).mcp = c.mcp
         /\ x.kind = "mcp" => Updated(b, x, c).hooks = c.hooks
         /\ \A a \in Agents \ {b} :
              /\ HasHook(a, Updated(b, x, c)) <=> HasHook(a, c)
              /\ EntriesOf(a, Updated(b, x, c).mcp) = EntriesOf(a, c.mcp)
<1>1. CASE x.kind = "hooks"
  <2>1. PICK h : /\ Updated(b, x, c) = [hooks |-> h, mcp |-> c.mcp]
                 /\ h = (c.hooks \ Matching(b, c)) \cup IF x.put THEN {{b}} ELSE {}
    BY <1>1, UpdatedHooks
  <2>2. (\E group \in h : b \in group) <=> x.put
    BY <2>1 DEF Matching
  <2>3. ASSUME NEW a \in Agents \ {b}
        PROVE  (\E group \in h : a \in group) <=> (\E group \in c.hooks : a \in group)
    <3>1. \A group \in Matching(b, c) : a \notin group
      BY DEF Matching, Whole, Separate
    <3>. QED
      BY <2>1, <3>1
  <2>. QED
    BY <1>1, <2>1, <2>2, <2>3 DEF Has, HasHook
<1>2. CASE x.kind = "mcp"
  <2>1. PICK m : m = {e \in c.mcp : e[1] # b} \cup IF x.put THEN {ProxyEntry(b)} ELSE {}
    OBVIOUS
  <2>2. Updated(b, x, c) = [c EXCEPT !.mcp = m]
    BY <1>2, <2>1 DEF Updated
  <2>3. Updated(b, x, c).hooks = c.hooks /\ Updated(b, x, c).mcp = m
    BY <2>2 DEF Whole
  <2>4. ProxyEntry(b)[1] = b
    BY DEF ProxyEntry
  <2>5. /\ EntriesOf(b, m) = IF x.put THEN {ProxyEntry(b)} ELSE {}
        /\ \A a \in Agents \ {b} : EntriesOf(a, m) = EntriesOf(a, c.mcp)
    BY <2>1, <2>4 DEF EntriesOf
  <2>. QED
    BY <1>2, <2>3, <2>5 DEF Has, HasHook, Entered
<1>. QED
  BY <1>1, <1>2

\* A step of b that succeeds has achieved what it is for, and has disturbed nothing
\* else that b has achieved, nor anything that others have.
Effect(b, x) ==
  /\ \A s \in AllSteps : Spot(s) = Spot(x) /\ s.put = x.put => Achieved(b, s)'
  /\ \A s \in AllSteps :
       /\ Spot(s) # Spot(x) /\ Achieved(b, s)
       /\ s.put = FALSE \/ config'[b] = config[b]
       => Achieved(b, s)'
Others(b) == \A a \in Agents \ {b} : Undisturbed(a)

LEMMA SpotsDiffer ==
  ASSUME NEW x, NEW s
  PROVE  Spot(s) = Spot(x) <=> s.kind = x.kind /\ s.where = x.where
BY DEF Spot

LEMMA ReadEffect ==
  ASSUME IInv, NEW b \in Agents, NEW x \in AllSteps, x = Current(b), Read(b),
         NextStep(b, x.where \in unreadable), x.where \notin unreadable,
         ~x.put, Updated(b, x, Contents(x.where)) = Contents(x.where)
  PROVE  Effect(b, x)
<1>1. /\ x.kind \in {"hooks", "mcp"} /\ x.where \in Files
      /\ UNCHANGED <<disk, lost, registry, config, unit>>
  BY StepTypes DEF Read, At, Current, fileVars, daemonVars
<1>2. PICK c : c = disk[x.where]
  OBVIOUS
<1>3. Updated(b, x, c) = c
  BY <1>2 DEF Contents
<1>4. CASE x.where \in lost
  BY <1>1, <1>4, SpotsDiffer, StepTypes DEF Effect, Achieved, Has, HasHook, Entered, ProxyEntry
<1>5. CASE x.where \notin lost
  <2>1. Whole(c)
    BY <1>1, <1>2, <1>5 DEF IInv
  <2>2. Has(b, c, x.kind, x.put)
    BY <1>1, <1>3, <2>1, UpdatedHas
  <2>. QED
    BY <1>1, <1>2, <2>2, SpotsDiffer, StepTypes DEF Effect, Achieved, Has, HasHook, Entered, ProxyEntry
<1>. QED
  BY <1>4, <1>5

LEMMA WriteEffect ==
  ASSUME IInv, NEW b \in Agents, NEW x \in AllSteps, x = Current(b), Write(b)
  PROVE  Effect(b, x) /\ Others(b)
<1>1. PICK f, c : f = x.where /\ c = Updated(b, x, proc[b].read)
  OBVIOUS
<1>2. /\ x.kind \in {"hooks", "mcp"} /\ f \in Files
      /\ disk' = [disk EXCEPT ![f] = c]
      /\ lost' = IF proc[b].read = disk[f] THEN lost ELSE lost \cup {f}
      /\ UNCHANGED <<registry, config, unit>>
  BY <1>1, StepTypes DEF Write, At, Current, daemonVars
<1>3. lost \subseteq lost' /\ DOMAIN disk = Files /\ disk'[f] = c
  BY <1>2 DEF IInv
<1>4. \A g \in Files \ {f} : disk'[g] = disk[g]
  BY <1>2, <1>3
<1>5. ASSUME f \notin lost'
      PROVE  /\ Has(b, c, x.kind, x.put)
             /\ x.kind = "hooks" => c.mcp = disk[f].mcp
             /\ x.kind = "mcp" => c.hooks = disk[f].hooks
             /\ \A a \in Agents \ {b} :
                  /\ HasHook(a, c) <=> HasHook(a, disk[f])
                  /\ EntriesOf(a, c.mcp) = EntriesOf(a, disk[f].mcp)
  <2>1. f \notin lost /\ proc[b].read = disk[f]
    BY <1>2, <1>5
  <2>2. PICK old : old = disk[f]
    OBVIOUS
  <2>3. Whole(old) /\ c = Updated(b, x, old)
    BY <1>1, <1>2, <2>1, <2>2 DEF IInv
  <2>. QED
    BY <1>2, <2>2, <2>3, UpdatedHas
<1>6. Others(b)
  <2>1. ASSUME NEW a \in Agents \ {b}, NEW g \in Files \ lost'
        PROVE  /\ HasHook(a, disk'[g]) <=> HasHook(a, disk[g])
               /\ EntriesOf(a, disk'[g].mcp) = EntriesOf(a, disk[g].mcp)
    BY <1>3, <1>4, <1>5
  <2>. QED
    BY <1>2, <1>3, <2>1 DEF Others, Undisturbed
<1>7. \A s \in AllSteps : Spot(s) = Spot(x) /\ s.put = x.put => Achieved(b, s)'
  <2>1. ASSUME NEW s \in AllSteps, s.kind = x.kind, s.where = f, s.put = x.put
        PROVE  Achieved(b, s)'
    <3>1. f \notin lost' => Has(b, disk[f], x.kind, x.put)'
      <4>1. Has(b, c, x.kind, x.put)' <=> Has(b, c, x.kind, x.put)
        BY <1>2 DEF Has, HasHook, Entered, ProxyEntry
      <4>. QED
        BY <1>3, <1>5, <4>1 DEF Has, HasHook, Entered
    <3>. QED
      BY <1>2, <2>1, <3>1 DEF Achieved
  <2>. QED
    BY <1>1, <2>1, SpotsDiffer
<1>8. ASSUME NEW s \in AllSteps, Spot(s) # Spot(x), Achieved(b, s)
      PROVE  Achieved(b, s)'
  <2>1. ProxyEntry(b)' = ProxyEntry(b)
    BY <1>2 DEF ProxyEntry
  <2>2. CASE s.kind \in {"hooks", "mcp"}
    <3>1. s.where \in Files
      BY <2>2, StepTypes
    <3>2. CASE s.where \in lost'
      BY <2>2, <3>2 DEF Achieved
    <3>3. CASE s.where \notin lost'
      <4>1. Has(b, disk[s.where], s.kind, s.put)
        BY <1>3, <1>8, <2>2, <3>3 DEF Achieved
      <4>2. CASE s.where # f
        BY <1>4, <2>1, <2>2, <3>1, <4>1, <4>2 DEF Achieved, Has, HasHook, Entered
      <4>3. CASE s.where = f
        <5>1. s.kind # x.kind
          BY <1>1, <1>8, <4>3, SpotsDiffer
        <5>2. /\ s.kind = "mcp" => c.mcp = disk[f].mcp
              /\ s.kind = "hooks" => c.hooks = disk[f].hooks
          BY <1>2, <1>5, <2>2, <3>3, <4>3, <5>1
        <5>3. Has(b, disk[f], s.kind, s.put)'
          BY <1>3, <2>1, <4>1, <4>3, <5>2 DEF Has, HasHook, Entered
        <5>. QED
          BY <2>2, <4>3, <5>3 DEF Achieved
      <4>. QED
        BY <4>2, <4>3
    <3>. QED
      BY <3>2, <3>3
  <2>3. CASE s.kind \notin {"hooks", "mcp"}
    BY <1>2, <1>8, <2>1, <2>3 DEF Achieved, Entered
  <2>. QED
    BY <2>2, <2>3
<1>. QED
  BY <1>6, <1>7, <1>8 DEF Effect

LEMMA RunCliEffect ==
  ASSUME PlacesInv, NEW b \in Agents, NEW x \in AllSteps, x = Current(b), RunCli(b)
  PROVE  Effect(b, x) /\ Others(b)
<1>1. PICK p, m :
        /\ p = x.where
        /\ m = {e \in registry[p] : e[1] # b} \cup IF x.put THEN {ProxyEntry(b)} ELSE {}
  OBVIOUS
<1>2. /\ x.kind = "cli" /\ p \in {"claude", "codex"}
      /\ registry' = [registry EXCEPT ![p] = m]
      /\ UNCHANGED <<disk, lost, config, unit>>
  BY <1>1, StepTypes DEF RunCli, At, Current, fileVars, daemonVars
<1>3. registry'[p] = m /\ \A o \in {"claude", "codex"} \ {p} : registry'[o] = registry[o]
  BY <1>2 DEF PlacesInv
<1>4. ProxyEntry(b)[1] = b /\ ProxyEntry(b)' = ProxyEntry(b)
  BY <1>2 DEF ProxyEntry
<1>5. /\ EntriesOf(b, m) = IF x.put THEN {ProxyEntry(b)} ELSE {}
      /\ \A a \in Agents \ {b} : EntriesOf(a, m) = EntriesOf(a, registry[p])
  BY <1>1, <1>4 DEF EntriesOf
<1>6. Others(b)
  BY <1>2, <1>3, <1>5 DEF Others, Undisturbed
<1>7. ASSUME NEW s \in AllSteps, Spot(s) = Spot(x), s.put = x.put  PROVE Achieved(b, s)'
  <2>1. s.kind = "cli" /\ s.where = p
    BY <1>1, <1>2, <1>7, SpotsDiffer
  <2>. QED
    BY <1>3, <1>4, <1>5, <1>7, <2>1 DEF Achieved, Entered
<1>8. ASSUME NEW s \in AllSteps, Spot(s) # Spot(x), Achieved(b, s)  PROVE Achieved(b, s)'
  <2>1. CASE s.kind = "cli"
    <3>1. s.where \in {"claude", "codex"} \ {p}
      BY <1>1, <1>2, <1>8, <2>1, SpotsDiffer, StepTypes
    <3>. QED
      BY <1>3, <1>4, <1>8, <2>1, <3>1 DEF Achieved, Entered
  <2>2. CASE s.kind # "cli"
    BY <1>2, <1>4, <1>8, <2>2 DEF Achieved, Has, HasHook, Entered
  <2>. QED
    BY <2>1, <2>2
<1>. QED
  BY <1>6, <1>7, <1>8 DEF Effect

LEMMA UnitEffect ==
  ASSUME NEW b \in Agents, NEW x \in AllSteps, x = Current(b), InstallUnit(b) \/ RemoveUnit(b)
  PROVE  Effect(b, x) /\ Others(b)
<1>1. /\ x.kind = "unit" /\ UNCHANGED <<disk, lost, registry, config>>
      /\ b \in unit' <=> x.put
      /\ \A a \in Agents \ {b} : a \in unit' <=> a \in unit
  BY DEF InstallUnit, RemoveUnit, At, Current, fileVars
<1>2. ProxyEntry(b)' = ProxyEntry(b)
  BY <1>1 DEF ProxyEntry
<1>3. Others(b)
  BY <1>1 DEF Others, Undisturbed
<1>4. ASSUME NEW s \in AllSteps, Spot(s) = Spot(x), s.put = x.put  PROVE Achieved(b, s)'
  BY <1>1, <1>4, SpotsDiffer DEF Achieved
<1>5. ASSUME NEW s \in AllSteps, Spot(s) # Spot(x), Achieved(b, s)  PROVE Achieved(b, s)'
  <2>1. s.kind # "unit"
    BY <1>1, <1>5, SpotsDiffer, StepTypes
  <2>. QED
    BY <1>1, <1>2, <1>5, <2>1 DEF Achieved, Has, HasHook, Entered
<1>. QED
  BY <1>3, <1>4, <1>5 DEF Effect

LEMMA StateEffect ==
  ASSUME DaemonInv, NEW b \in Agents, NEW x \in AllSteps, x = Current(b), RemoveState(b)
  PROVE  Effect(b, x) /\ Others(b)
<1>1. /\ x.kind = "state" /\ UNCHANGED <<disk, lost, registry, unit>>
      /\ config' = [config EXCEPT ![b] = None]
  BY DEF RemoveState, At, Current, fileVars, daemonVars
<1>2. config'[b] = None /\ \A a \in Agents \ {b} : config'[a] = config[a]
  BY <1>1 DEF DaemonInv
<1>3. Others(b)
  BY <1>1, <1>2 DEF Others, Undisturbed
<1>4. ASSUME NEW s \in AllSteps, Spot(s) = Spot(x)  PROVE Achieved(b, s)'
  BY <1>1, <1>2, <1>4, SpotsDiffer DEF Achieved
<1>5. ASSUME NEW s \in AllSteps, Spot(s) # Spot(x), Achieved(b, s),
             s.put = FALSE \/ config'[b] = config[b]
      PROVE  Achieved(b, s)'
  <2>1. s.put = FALSE \/ ProxyEntry(b)' = ProxyEntry(b)
    BY <1>5 DEF ProxyEntry
  <2>. QED
    BY <1>1, <1>2, <1>5, <2>1 DEF Achieved, Has, HasHook, Entered
<1>. QED
  BY <1>3, <1>4, <1>5 DEF Effect

-----------------------------------------------------------------------------
(* The steps of a run.                                                     *)

LEMMA HeadAndTail ==
  ASSUME NEW S, NEW q \in Seq(S), NEW r \in Seq(S), r # <<>>
  PROVE  /\ Head(r) \in S /\ Tail(r) \in Seq(S) /\ <<Head(r)>> \in Seq(S)
         /\ q \o r = (q \o <<Head(r)>>) \o Tail(r)
<1>1. Len(r) \in Nat /\ Len(r) >= 1
  BY EmptySeq
<1>2. PICK h, t : h = Head(r) /\ t = Tail(r)
  OBVIOUS
<1>3. h = r[1] /\ t \in Seq(S) /\ Len(t) = Len(r) - 1 /\ \A i \in 1..Len(t) : t[i] = r[i + 1]
  BY <1>2, HeadTailProperties
<1>4. h \in S
  BY <1>1, <1>3
<1>5. PICK o : o = <<h>>
  OBVIOUS
<1>6. o \in Seq(S) /\ Len(o) = 1 /\ o[1] = h
  BY <1>4, <1>5
<1>7. o \o t = r
  <2>1. /\ o \o t \in Seq(S) /\ Len(o \o t) = 1 + Len(t)
        /\ \A i \in 1..(1 + Len(t)) : (o \o t)[i] = IF i <= 1 THEN o[i] ELSE t[i - 1]
    <3>1. ASSUME NEW x \in Seq(S), NEW y \in Seq(S), Len(x) = 1
          PROVE  /\ x \o y \in Seq(S) /\ Len(x \o y) = 1 + Len(y)
                 /\ \A i \in 1..(1 + Len(y)) : (x \o y)[i] = IF i <= 1 THEN x[i] ELSE y[i - 1]
      <4>1. /\ x \o y \in Seq(S) /\ Len(x \o y) = Len(x) + Len(y)
            /\ \A i \in 1..(Len(x) + Len(y)) :
                 (x \o y)[i] = IF i <= Len(x) THEN x[i] ELSE y[i - Len(x)]
        BY ConcatProperties
      <4>. QED
        BY <3>1, <4>1
    <3>. QED
      BY <1>3, <1>6, <3>1
  <2>2. Len(o \o t) = Len(r) /\ Len(t) \in Nat
    BY <1>1, <1>3, <2>1
  <2>3. ASSUME NEW i \in 1..Len(r)  PROVE (o \o t)[i] = r[i]
    <3>1. CASE i = 1
      BY <1>1, <1>3, <1>6, <2>1, <2>2, <3>1
    <3>2. CASE i # 1
      <4>1. i - 1 \in 1..Len(t) /\ ~(i <= 1) /\ i \in 1..(1 + Len(t)) /\ (i - 1) + 1 = i
        BY <1>1, <1>3, <2>2, <3>2
      <4>2. (o \o t)[i] = t[i - 1] /\ t[i - 1] = r[i]
        BY <1>3, <2>1, <4>1
      <4>. QED
        BY <4>2
    <3>. QED
      BY <3>1, <3>2
  <2>. QED
    BY <2>1, <2>2, <2>3, SeqEqual
<1>8. q \o (o \o t) = (q \o o) \o t
  <2>1. ASSUME NEW x \in Seq(S), NEW y \in Seq(S)  PROVE q \o (x \o y) = (q \o x) \o y
    BY ConcatAssociative
  <2>. QED
    BY <1>3, <1>6, <2>1
<1>. QED
  BY <1>2, <1>3, <1>4, <1>5, <1>7, <1>8

\* A part of a list of removals is one.
LEMMA PrefixOf ==
  ASSUME NEW S, NEW T, NEW q \in Seq(T), NEW r \in Seq(T), q \o r \in Seq(S)
  PROVE  q \in Seq(S) /\ r \in Seq(S)
<1>1. PICK t \in Seq(S) : t = q \o r
  OBVIOUS
<1>2. PICK m \in Nat, n \in Nat : m = Len(q) /\ n = Len(r)
  OBVIOUS
<1>3. /\ Len(t) = m + n
      /\ \A i \in 1..(m + n) : t[i] = IF i <= m THEN q[i] ELSE r[i - m]
  BY <1>1, <1>2, ConcatProperties
<1>4. \A i \in 1..(m + n) : t[i] \in S
  BY <1>3
<1>5. \A i \in 1..m : i \in 1..(m + n) /\ i <= m
  OBVIOUS
<1>6. \A i \in 1..n : m + i \in 1..(m + n) /\ ~(m + i <= m) /\ (m + i) - m = i
  OBVIOUS
<1>7. \A i \in 1..m : q[i] \in S
  BY <1>3, <1>4, <1>5
<1>8. \A i \in 1..n : r[i] \in S
  BY <1>3, <1>4, <1>6
<1>9. q \in [1..m -> S] /\ r \in [1..n -> S]
  BY <1>2, <1>7, <1>8
<1>. QED
  BY <1>9

\* What removals settle is settled without the agent.
LEMMA RemovalsSettle ==
  ASSUME NEW q \in Seq(Removals), NEW s, NEW put, Settles(q, Spot(s), put)
  PROVE  put = FALSE
<1>1. \A i \in DOMAIN q : q[i].put = FALSE
  BY DEF Removals
<1>. QED
  BY <1>1 DEF Settles

\* A run that goes on to its next step.
LEMMA RunMoves ==
  ASSUME DaemonInv, NEW b \in Agents, proc[b].at = "work", NEW failed \in BOOLEAN,
         NextStep(b, failed)
  PROVE  /\ proc'[b].at = "work" /\ proc'[b].job = proc[b].job
         /\ proc'[b].todo = Tail(proc[b].todo)
         /\ ~proc'[b].failed => ~proc[b].failed /\ ~failed
         /\ \A a \in Agents \ {b} : proc'[a] = proc[a]
<1>1. DOMAIN proc = Agents
  BY DEF DaemonInv
<1>2. PICK f : f = (proc[b].failed \/ failed)
  OBVIOUS
<1>3. proc' = [proc EXCEPT ![b].todo = Tail(@), ![b].read = None, ![b].failed = f]
  BY <1>2 DEF NextStep
<1>4. proc'[b].at = "work" /\ proc'[b].job = proc[b].job
  BY <1>1, <1>3
<1>5. proc'[b].todo = Tail(proc[b].todo) /\ \A a \in Agents \ {b} : proc'[a] = proc[a]
  BY <1>1, <1>3
<1>6. proc'[b].failed = f
  BY <1>1, <1>3
<1>. QED
  BY <1>2, <1>4, <1>5, <1>6

\* The step of b's run leaves the runs of others alone, and what they have done.
Besides(b) ==
  /\ DOMAIN registry' = {"claude", "codex"} /\ clis' = clis /\ Others(b)
  /\ \A a \in Agents \ {b} : proc'[a] = proc[a] /\ last'[a] = last[a]

LEMMA PlacesKept ==
  ASSUME PlacesInv, NEW b \in Agents, Besides(b), Worked(b)', Finished(b)'
  PROVE  PlacesInv'
<1>1. \A a \in Agents \ {b} : Worked(a)' /\ Finished(a)'
  BY AgentStays DEF Besides, Others
<1>. QED
  BY <1>1 DEF Besides, PlacesInv

LEMMA QuietStays ==
  ASSUME UNCHANGED <<disk, lost, registry, config, unit>>
  PROVE  \A a : Undisturbed(a)
BY DEF Undisturbed

\* An agent whose run is under way has no last run, as neither has one that begins.
LEMMA NotFinished ==
  ASSUME DaemonInv, NEW b \in Agents, last'[b] = last[b], proc[b].at # "idle"
  PROVE  Finished(b)'
BY DEF DaemonInv, LastInv, Idle, Finished

LEMMA CurrentStep ==
  ASSUME PlacesInv, NEW b \in Agents, proc[b].at = "work", proc[b].todo # <<>>
  PROVE  Current(b) \in AllSteps
BY HeadAndTail DEF PlacesInv, Worked, Done, Current

\* After a step that has succeeded, or has failed and counts as failed, the run has
\* done one step more.
LEMMA StepDone ==
  ASSUME PlacesInv, DaemonInv, NEW b \in Agents, proc[b].at = "work", proc[b].todo # <<>>,
         clis' = clis, NEW failed \in BOOLEAN, NextStep(b, failed),
         NEW x \in AllSteps, x = Current(b),
         config'[b] = config[b] \/ x.kind = "state",
         ~failed => Effect(b, x)
  PROVE  Worked(b)'
<1>1. PICK q : proc[b].job \in Jobs \cup Uninstalls /\ Done(b, q)
  BY DEF PlacesInv, Worked
<1>2. PICK job, todo, steps, t :
        /\ job = proc[b].job /\ todo = proc[b].todo /\ steps = StepsOf(b, job) /\ t = Tail(todo)
  OBVIOUS
<1>3. /\ q \in Seq(AllSteps) /\ todo \in Seq(AllSteps) /\ q \o todo = steps
      /\ ~proc[b].failed => Holds(b, q)
  BY <1>1, <1>2 DEF Done
<1>4. /\ proc'[b].at = "work" /\ proc'[b].job = job /\ proc'[b].todo = t
      /\ ~proc'[b].failed => ~proc[b].failed /\ ~failed
  BY <1>2, RunMoves
<1>5. x = Head(todo) /\ todo # <<>>
  BY <1>2 DEF Current
<1>6. PICK r : r = q \o <<x>>
  OBVIOUS
<1>7. r \in Seq(AllSteps) /\ t \in Seq(AllSteps) /\ r \o t = steps
  <2>1. /\ <<Head(todo)>> \in Seq(AllSteps) /\ Tail(todo) \in Seq(AllSteps)
        /\ q \o todo = (q \o <<Head(todo)>>) \o Tail(todo)
    BY <1>3, <1>5, HeadAndTail
  <2>2. r \in Seq(AllSteps)
    BY <1>3, <1>5, <1>6, <2>1, Concatenation
  <2>. QED
    BY <1>2, <1>3, <1>5, <1>6, <2>1, <2>2
<1>8. /\ job.kind = "setup" => steps \in Seq(Steps)
      /\ job.kind # "setup" => steps \in Seq(Removals)
  BY <1>1, <1>2, ListTypes
<1>9. job.kind # "setup" \/ config'[b] = config[b]
  <2>1. SUFFICES ASSUME job.kind = "setup"  PROVE x.kind # "state"
    OBVIOUS
  <2>2. todo \in Seq(Steps)
    BY <1>3, <1>8, <2>1, PrefixOf
  <2>3. x \in Steps
    BY <1>5, <2>2, HeadAndTail
  <2>. QED
    BY <2>3, StepTypes
<1>10. StepsOf(b, job)' = steps
  BY <1>2, <1>9, ListsStay
<1>11. ASSUME Holds(b, q), Effect(b, x), NEW s \in AllSteps, Settles(r, Spot(s), s.put)
       PROVE  Achieved(b, s)'
  <2>1. CASE Spot(x) = Spot(s) /\ x.put = s.put
    BY <1>11, <2>1 DEF Effect
  <2>2. CASE Spot(x) # Spot(s) /\ Settles(q, Spot(s), s.put)
    <3>1. Achieved(b, s)
      BY <1>11, <2>2 DEF Holds
    <3>2. s.put = FALSE \/ config'[b] = config[b]
      <4>1. SUFFICES ASSUME job.kind # "setup"  PROVE s.put = FALSE
        BY <1>9
      <4>2. q \in Seq(Removals)
        BY <1>3, <1>8, <4>1, PrefixOf
      <4>. QED
        BY <2>2, <4>2, RemovalsSettle
    <3>. QED
      BY <1>11, <2>2, <3>1, <3>2 DEF Effect
  <2>3. \/ Spot(x) = Spot(s) /\ x.put = s.put
        \/ Spot(x) # Spot(s) /\ Settles(q, Spot(s), s.put)
    BY <1>3, <1>6, <1>11, SettledSoFar
  <2>. QED
    BY <2>1, <2>2, <2>3
<1>12. ~proc'[b].failed => Holds(b, r)'
  BY <1>3, <1>4, <1>11 DEF Holds
<1>13. Done(b, r)'
  BY <1>4, <1>7, <1>10, <1>12 DEF Done
<1>. QED
  BY <1>1, <1>2, <1>4, <1>13 DEF Worked

LEMMA SuccessfulStep ==
  ASSUME SetupInv, NEW b \in Agents,
         Write(b) \/ RunCli(b) \/ InstallUnit(b) \/ RemoveUnit(b) \/ RemoveState(b)
  PROVE  PlacesInv'
<1>1. /\ proc[b].at = "work" /\ proc[b].todo # <<>> /\ NextStep(b, FALSE)
      /\ UNCHANGED <<clis, last>>
  BY DEF Write, RunCli, InstallUnit, RemoveUnit, RemoveState, At
<1>2. PICK x \in AllSteps : x = Current(b)
  BY <1>1, CurrentStep DEF SetupInv
<1>3. Effect(b, x) /\ Others(b)
  BY <1>2, WriteEffect, RunCliEffect, UnitEffect, StateEffect DEF SetupInv
<1>4. config'[b] = config[b] \/ x.kind = "state"
  BY <1>2 DEF Write, RunCli, InstallUnit, RemoveUnit, RemoveState, At, Current
<1>5. Worked(b)'
  BY <1>1, <1>2, <1>3, <1>4, StepDone DEF SetupInv
<1>6. Finished(b)'
  BY <1>1, NotFinished DEF SetupInv
<1>7. DOMAIN registry' = {"claude", "codex"}
  BY DEF Write, RunCli, InstallUnit, RemoveUnit, RemoveState, SetupInv, PlacesInv
<1>8. Besides(b)
  BY <1>1, <1>3, <1>7, RunMoves DEF Besides, SetupInv
<1>. QED
  BY <1>5, <1>6, <1>8, PlacesKept DEF SetupInv

\* A read that finds nothing to remove is all of its step.
LEMMA ReadStep ==
  ASSUME SetupInv, NEW b \in Agents, Read(b)
  PROVE  PlacesInv'
<1>1. /\ proc[b].at = "work" /\ proc[b].todo # <<>>
      /\ UNCHANGED <<clis, last, disk, lost, registry, config, unit>>
  BY DEF Read, At, fileVars, daemonVars
<1>2. PICK x \in AllSteps : x = Current(b)
  BY <1>1, CurrentStep DEF SetupInv
<1>3. Others(b) /\ Undisturbed(b) /\ Finished(b)'
  BY <1>1, QuietStays, NotFinished DEF SetupInv, Others
<1>4. CASE x.put \/ Updated(b, x, Contents(x.where)) # Contents(x.where)
  <2>1. PICK c : c = Contents(x.where)
    OBVIOUS
  <2>2. proc' = [proc EXCEPT ![b].read = c]
    BY <1>2, <1>4, <2>1 DEF Read
  <2>3. /\ proc'[b].at = "work" /\ proc'[b].job = proc[b].job /\ proc'[b].todo = proc[b].todo
        /\ proc'[b].failed = proc[b].failed
        /\ \A a \in Agents \ {b} : proc'[a] = proc[a]
    BY <1>1, <2>2 DEF SetupInv, DaemonInv
  <2>4. \A job : StepsOf(b, job)' = StepsOf(b, job)
    BY <1>1, ListsStay
  <2>5. \A q : Done(b, q) => Done(b, q)'
    BY <1>3, <2>3, <2>4, HoldsStays DEF Done
  <2>6. Worked(b)'
    BY <1>1, <2>3, <2>5 DEF SetupInv, PlacesInv, Worked
  <2>7. Besides(b)
    BY <1>1, <1>3, <2>3 DEF Besides, SetupInv, PlacesInv
  <2>. QED
    BY <1>3, <2>6, <2>7, PlacesKept DEF SetupInv
<1>5. CASE ~x.put /\ Updated(b, x, Contents(x.where)) = Contents(x.where)
  <2>1. NextStep(b, x.where \in unreadable)
    BY <1>2, <1>5 DEF Read
  <2>2. PICK failed \in BOOLEAN : failed <=> x.where \in unreadable
    OBVIOUS
  <2>3. NextStep(b, failed)
    BY <2>1, <2>2 DEF NextStep
  <2>4. ~failed => Effect(b, x)
    BY <1>2, <1>5, <2>1, <2>2, ReadEffect DEF SetupInv
  <2>5. Worked(b)'
    BY <1>1, <1>2, <2>3, <2>4, StepDone DEF SetupInv
  <2>6. Besides(b)
    BY <1>1, <1>3, <2>3, RunMoves DEF Besides, SetupInv, PlacesInv
  <2>. QED
    BY <1>3, <2>5, <2>6, PlacesKept DEF SetupInv
<1>. QED
  BY <1>4, <1>5

\* A step that fails counts as failed, or ends the run; what others have is as it was
\* but for a file whose write was cut off.
LEMMA TornStays ==
  ASSUME IInv, NEW b \in Agents, Torn(b) \/ UNCHANGED fileVars, UNCHANGED <<registry, unit>>,
         DOMAIN config = Agents, \A a \in Agents \ {b} : config'[a] = config[a]
  PROVE  Others(b)
<1>1. CASE Torn(b)
  <2>1. PICK f : f = Current(b).where
    OBVIOUS
  <2>2. disk' = [disk EXCEPT ![f] = Empty] /\ lost' = lost \cup {f}
    BY <1>1, <2>1 DEF Torn
  <2>3. \A g \in Files \ lost' : disk'[g] = disk[g]
    BY <2>2 DEF IInv
  <2>. QED
    BY <2>2, <2>3 DEF Others, Undisturbed
<1>2. CASE UNCHANGED fileVars
  BY <1>2 DEF Others, Undisturbed, fileVars
<1>. QED
  BY <1>1, <1>2

LEMMA Stopped ==
  ASSUME SetupInv, NEW b \in Agents, proc' = [proc EXCEPT ![b] = Idle]
  PROVE  Worked(b)' /\ \A a \in Agents \ {b} : proc'[a] = proc[a]
BY DEF SetupInv, DaemonInv, Worked, Idle

LEMMA FailedStep ==
  ASSUME SetupInv, NEW b \in Agents,
         StepFails(b) \/ InstallUnitFails(b) \/ RemoveUnitFails(b)
  PROVE  PlacesInv'
<1>1. /\ proc[b].at = "work" /\ proc[b].todo # <<>>
      /\ UNCHANGED <<clis, last, registry, config>>
      /\ NextStep(b, TRUE) \/ proc' = [proc EXCEPT ![b] = Idle]
  BY DEF StepFails, InstallUnitFails, RemoveUnitFails, MayFail, At
<1>2. PICK x \in AllSteps : x = Current(b)
  BY <1>1, CurrentStep DEF SetupInv
<1>3. Others(b)
  <2>1. CASE StepFails(b)
    <3>1. (Torn(b) \/ UNCHANGED fileVars) /\ UNCHANGED <<registry, unit, config>>
      BY <2>1 DEF StepFails, daemonVars
    <3>. QED
      BY <3>1, TornStays DEF SetupInv, DaemonInv
  <2>2. CASE InstallUnitFails(b) \/ RemoveUnitFails(b)
    <3>1. /\ UNCHANGED <<disk, lost, registry, config>>
          /\ \A a \in Agents \ {b} : a \in unit' <=> a \in unit
      BY <2>2 DEF InstallUnitFails, RemoveUnitFails, fileVars, daemonVars
    <3>. QED
      BY <3>1 DEF Others, Undisturbed
  <2>. QED
    BY <2>1, <2>2
<1>4. Finished(b)'
  BY <1>1, NotFinished DEF SetupInv
<1>5. CASE NextStep(b, TRUE)
  <2>1. PICK failed \in BOOLEAN : failed = TRUE
    OBVIOUS
  <2>2. NextStep(b, failed)
    BY <1>5, <2>1
  <2>3. Worked(b)'
    BY <1>1, <1>2, <2>1, <2>2, StepDone DEF SetupInv
  <2>4. Besides(b)
    BY <1>1, <1>3, <2>2, RunMoves DEF Besides, SetupInv, PlacesInv
  <2>. QED
    BY <1>4, <2>3, <2>4, PlacesKept DEF SetupInv
<1>6. CASE proc' = [proc EXCEPT ![b] = Idle]
  <2>1. Worked(b)' /\ Besides(b)
    BY <1>1, <1>3, <1>6, Stopped DEF Besides, SetupInv, PlacesInv
  <2>. QED
    BY <1>4, <2>1, PlacesKept DEF SetupInv
<1>. QED
  BY <1>1, <1>5, <1>6

\* A run that has its list before it has done nothing of it.
LEMMA NothingDone ==
  ASSUME NEW b \in Agents, NEW job \in Jobs \cup Uninstalls, NEW steps \in Seq(AllSteps),
         proc'[b] = Working(job, steps), StepsOf(b, job)' = steps
  PROVE  Worked(b)'
<1>1. /\ proc'[b].at = "work" /\ proc'[b].job = job /\ proc'[b].todo = steps
  BY DEF Working
<1>2. PICK q : q = <<>>
  OBVIOUS
<1>3. q \in Seq(AllSteps) /\ q \o steps = steps
  BY <1>2, ConcatEmptySeq
<1>4. \A g, v : ~Settles(q, g, v)
  BY <1>2 DEF Settles
<1>5. Holds(b, q)'
  BY <1>4 DEF Holds
<1>6. Done(b, q)'
  BY <1>1, <1>3, <1>5 DEF Done
<1>. QED
  BY <1>1, <1>6 DEF Worked

LEMMA BeginsStep ==
  ASSUME SetupInv, NEW b \in Agents,
         (\E job \in Jobs : Begin(b, job)) \/ (\E d \in Dirs : BeginUninstall(b, d))
  PROVE  PlacesInv'
<1>1. /\ UNCHANGED <<clis, disk, lost, registry, config, unit>>
      /\ last' = [last EXCEPT ![b] = None]
  BY DEF Begin, BeginUninstall, fileVars, daemonVars
<1>2. Finished(b)' /\ Others(b) /\ \A a \in Agents \ {b} : last'[a] = last[a]
  BY <1>1, QuietStays DEF SetupInv, DaemonInv, Finished, Others
<1>3. CASE \E job \in Jobs : Begin(b, job)
  <2>1. PICK job \in Jobs : proc' = [proc EXCEPT ![b] = [at |-> "config", job |-> job]]
    BY <1>3 DEF Begin
  <2>2. Worked(b)' /\ Besides(b)
    BY <1>1, <1>2, <2>1 DEF SetupInv, DaemonInv, PlacesInv, Worked, Besides
  <2>. QED
    BY <1>2, <2>2, PlacesKept DEF SetupInv
<1>4. CASE \E d \in Dirs : BeginUninstall(b, d)
  <2>1. PICK d \in Dirs :
          proc' = [proc EXCEPT ![b] = Working([kind |-> "uninstall", dir |-> d], UninstallSteps(d))]
    BY <1>4 DEF BeginUninstall
  <2>2. PICK job : job = [kind |-> "uninstall", dir |-> d]
    OBVIOUS
  <2>3. PICK steps : steps = UninstallSteps(d)
    OBVIOUS
  <2>4. StepsOf(b, job) = steps /\ job.kind # "setup" /\ job \in Uninstalls
    BY <2>2, <2>3 DEF StepsOf, Uninstalls
  <2>5. StepsOf(b, job)' = steps /\ steps \in Seq(AllSteps)
    <3>1. StepsOf(b, job) \in Seq(AllSteps) /\ StepsOf(b, job)' = StepsOf(b, job)
      BY <1>1, <2>4, ListsStay, ListTypes
    <3>. QED
      BY <2>4, <3>1
  <2>6. proc'[b] = Working(job, steps) /\ \A a \in Agents \ {b} : proc'[a] = proc[a]
    BY <2>1, <2>2, <2>3 DEF SetupInv, DaemonInv
  <2>7. Worked(b)'
    BY <2>4, <2>5, <2>6, NothingDone
  <2>8. Besides(b)
    BY <1>1, <1>2, <2>6 DEF SetupInv, PlacesInv, Besides
  <2>. QED
    BY <1>2, <2>7, <2>8, PlacesKept DEF SetupInv
<1>. QED
  BY <1>3, <1>4

LEMMA ConfigWritten ==
  ASSUME SetupInv, NEW b \in Agents, WriteConfig(b) \/ ConfigFails(b)
  PROVE  PlacesInv'
<1>1. /\ UNCHANGED <<clis, last, disk, lost, registry, unit>>
      /\ proc[b].at = "config" /\ proc[b].job \in Jobs
      /\ \A a \in Agents \ {b} : config'[a] = config[a]
  BY DEF WriteConfig, ConfigFails, TornConfig, fileVars, daemonVars, SetupInv, DaemonInv, RunInv
<1>2. Others(b) /\ Finished(b)'
  BY <1>1, NotFinished DEF SetupInv, Others, Undisturbed
<1>3. CASE WriteConfig(b)
  <2>0. PICK job \in Jobs : job = proc[b].job
    BY <1>1
  <2>1. PICK c : /\ c = Patched(b, job)
                 /\ config' = [config EXCEPT ![b] = c]
                 /\ proc' = [proc EXCEPT ![b] = Working(job, SetupSteps(job, c))]
    BY <1>3, <2>0 DEF WriteConfig
  <2>2. PICK steps : steps = SetupSteps(job, c)
    OBVIOUS
  <2>3. config'[b] = c
    BY <2>1 DEF SetupInv, DaemonInv
  <2>4. job.kind = "setup"
    BY SetupAssumption
  <2>5. SetupSteps(job, c)' = SetupSteps(job, c)
    BY <1>1 DEF SetupSteps, Selected
  <2>6. StepsOf(b, job)' = steps
    BY <2>2, <2>3, <2>4, <2>5 DEF StepsOf
  <2>7. "claude" \in Platforms
    BY DEF Platforms
  <2>8. steps \in Seq(AllSteps)
    BY <2>2, <2>7, SetupSettles, StepsAreSteps
  <2>9. proc'[b] = Working(job, steps) /\ \A a \in Agents \ {b} : proc'[a] = proc[a]
    BY <2>1, <2>2 DEF SetupInv, DaemonInv
  <2>10. Worked(b)'
    BY <2>6, <2>8, <2>9, NothingDone
  <2>11. Besides(b)
    BY <1>1, <1>2, <2>9 DEF SetupInv, PlacesInv, Besides
  <2>. QED
    BY <1>2, <2>10, <2>11, PlacesKept DEF SetupInv
<1>4. CASE ConfigFails(b)
  <2>1. Worked(b)' /\ Besides(b)
    BY <1>1, <1>2, <1>4, Stopped DEF ConfigFails, SetupInv, PlacesInv, Besides
  <2>. QED
    BY <1>2, <2>1, PlacesKept DEF SetupInv
<1>. QED
  BY <1>3, <1>4

\* A run that returns without a failed step has done all of its list.
LEMMA Returns ==
  ASSUME SetupInv, NEW b \in Agents, Return(b)
  PROVE  PlacesInv'
<1>1. /\ UNCHANGED <<clis, disk, lost, registry, config, unit>> /\ proc' = [proc EXCEPT ![b] = Idle]
      /\ last' = [last EXCEPT ![b] = IF proc[b].failed THEN None ELSE proc[b].job]
      /\ proc[b].at = "work" /\ proc[b].todo = <<>>
  BY DEF Return, fileVars, daemonVars
<1>2. PICK q, job : proc[b].job \in Jobs \cup Uninstalls /\ Done(b, q) /\ job = proc[b].job
  BY <1>1 DEF SetupInv, PlacesInv, Worked
<1>3. q = StepsOf(b, job) /\ (~proc[b].failed => Holds(b, q))
  BY <1>1, <1>2, ConcatEmptySeq DEF Done
<1>4. Undisturbed(b) /\ Others(b)
  BY <1>1, QuietStays DEF Others
<1>5. /\ last'[b] = IF proc[b].failed THEN None ELSE job
      /\ \A a \in Agents \ {b} : last'[a] = last[a]
  BY <1>1, <1>2 DEF SetupInv, DaemonInv
<1>6. StepsOf(b, job)' = q
  BY <1>1, <1>3, ListsStay
<1>7. ~proc[b].failed => Holds(b, q)'
  BY <1>3, <1>4, HoldsStays
<1>8. Finished(b)'
  BY <1>2, <1>5, <1>6, <1>7 DEF Finished
<1>9. Worked(b)' /\ Besides(b)
  BY <1>1, <1>4, <1>5, Stopped DEF SetupInv, PlacesInv, Besides
<1>. QED
  BY <1>8, <1>9, PlacesKept DEF SetupInv

LEMMA Killed ==
  ASSUME SetupInv, NEW b \in Agents, Crash(b)
  PROVE  PlacesInv'
<1>1. /\ UNCHANGED <<clis, last, registry, unit>> /\ proc[b] # Idle
      /\ proc' = [proc EXCEPT ![b] = Idle] /\ (Torn(b) \/ UNCHANGED fileVars)
      /\ \A a \in Agents \ {b} : config'[a] = config[a]
  BY DEF Crash, TornConfig, daemonVars, SetupInv, DaemonInv
<1>2. Others(b)
  BY <1>1, TornStays DEF SetupInv, DaemonInv
<1>3. Finished(b)'
  BY <1>1 DEF SetupInv, DaemonInv, LastInv, Finished
<1>4. Worked(b)' /\ Besides(b)
  BY <1>1, <1>2, Stopped DEF SetupInv, PlacesInv, Besides
<1>. QED
  BY <1>3, <1>4, PlacesKept DEF SetupInv

LEMMA PlacesInit == Init => PlacesInv
BY DEF Init, PlacesInv, Worked, Finished, Idle

LEMMA PlacesStep == SetupInv /\ [Next]_vars => PlacesInv'
<1>. SUFFICES ASSUME SetupInv, [Next]_vars  PROVE PlacesInv'
  OBVIOUS
<1>1. ASSUME NEW a \in Agents, RunStep(a)  PROVE PlacesInv'
  BY <1>1, ConfigWritten, ReadStep, SuccessfulStep, FailedStep, Returns DEF RunStep
<1>2. CASE UNCHANGED <<clis, proc, last, disk, lost, registry, unit, config>>
  <2>1. \A a \in Agents : Worked(a)' /\ Finished(a)'
    BY <1>2, QuietStays, AgentStays DEF SetupInv
  <2>. QED
    BY <1>2, <2>1 DEF SetupInv, PlacesInv
<1>3. ASSUME NEW a \in Agents, Restart(a)  PROVE PlacesInv'
  BY <1>2, <1>3 DEF Restart, runVars, fileVars
<1>4. CASE (\E f \in Edited : Edit(f)) \/ UNCHANGED vars
  BY <1>2, <1>4 DEF Edit, vars, runVars, daemonVars, fileVars
<1>5. ASSUME NEW f, Regroup(f)  PROVE PlacesInv'
  <2>1. /\ UNCHANGED <<clis, proc, last, lost, registry, unit, config>>
        /\ \A a \in Agents : a \in Owners
    BY <1>5 DEF Regroup, runVars, daemonVars, Owners
  <2>2. \A a \in Agents : Undisturbed(a)
    BY <1>5, <2>1, RegroupMoves DEF SetupInv, Undisturbed
  <2>3. \A a \in Agents : Worked(a)' /\ Finished(a)'
    BY <2>1, <2>2, AgentStays DEF SetupInv
  <2>. QED
    BY <2>1, <2>3 DEF SetupInv, PlacesInv
<1>. QED
  BY <1>1, <1>3, <1>4, <1>5, BeginsStep, Killed DEF Next

LEMMA SetupInvariance == Spec => []SetupInv
<1>1. Init => SetupInv
  BY InitHolds, DaemonInit, PlacesInit DEF SetupInv
<1>2. SetupInv /\ [Next]_vars => SetupInv'
  BY FilesStep, DaemonStep, PlacesStep DEF SetupInv
<1>. QED
  BY <1>1, <1>2, PTL DEF Spec

-----------------------------------------------------------------------------
(* What setup and uninstall promise.                                       *)

\* An agent's hooks and entries in the files and registries of a platform.
LEMMA Cleared ==
  ASSUME NEW a \in Agents, NEW p \in Platforms, NEW d \in Dirs, NEW q,
         Holds(a, q), Intact(p, d), Clears(q, HookSpots(p, d))
  PROVE  HooksSeen(a, p, d) = {}
<1>1. ASSUME NEW s \in Scopes  PROVE ~HasHook(a, disk[Settings(p, s, d)])
  <2>1. PICK x : x = Step("hooks", Settings(p, s, d), FALSE, FALSE)
    OBVIOUS
  <2>2. /\ x \in AllSteps /\ x.kind = "hooks" /\ x.where = Settings(p, s, d) /\ x.put = FALSE
        /\ Spot(x) = HookSpot(p, s, d)
    BY <2>1 DEF Step, AllSteps, Steps, Files, Spot, HookSpot
  <2>3. Settles(q, Spot(x), x.put)
    BY <2>2 DEF Clears, HookSpots
  <2>4. Achieved(a, x)
    BY <2>2, <2>3 DEF Holds
  <2>5. Settings(p, s, d) \notin lost
    BY DEF Intact
  <2>. QED
    BY <2>2, <2>4, <2>5 DEF Achieved, Has, HasHook
<1>. QED
  BY <1>1 DEF HooksSeen

LEMMA Hooked ==
  ASSUME NEW a \in Agents, NEW p \in Platforms, NEW d \in Dirs, NEW q, NEW s \in Scopes,
         Holds(a, q), Intact(p, d), Puts(q, HookSpots(p, d), HookSpot(p, s, d))
  PROVE  HooksSeen(a, p, d) = {Settings(p, s, d)}
<1>1. ASSUME NEW t \in Scopes
      PROVE  HasHook(a, disk[Settings(p, t, d)]) <=> Settings(p, t, d) = Settings(p, s, d)
  <2>1. PICK put \in BOOLEAN : put <=> Settings(p, t, d) = Settings(p, s, d)
    OBVIOUS
  <2>2. PICK x : x = Step("hooks", Settings(p, t, d), put, FALSE)
    OBVIOUS
  <2>3. /\ x \in AllSteps /\ x.kind = "hooks" /\ x.where = Settings(p, t, d) /\ x.put = put
        /\ Spot(x) = HookSpot(p, t, d)
    BY <2>2 DEF Step, AllSteps, Steps, Files, Spot, HookSpot
  <2>4. HookSpot(p, t, d) = HookSpot(p, s, d) <=> Settings(p, t, d) = Settings(p, s, d)
    BY DEF HookSpot
  <2>5. Settles(q, Spot(x), x.put)
    <3>1. CASE put = TRUE
      BY <2>1, <2>3, <2>4, <3>1 DEF Puts
    <3>2. CASE put = FALSE
      <4>1. HookSpot(p, t, d) \in HookSpots(p, d) \ {HookSpot(p, s, d)}
        BY <2>1, <2>4, <3>2 DEF HookSpots
      <4>. QED
        BY <2>3, <3>2, <4>1 DEF Puts
    <3>. QED
      BY <3>1, <3>2
  <2>6. Achieved(a, x)
    BY <2>3, <2>5 DEF Holds
  <2>7. Settings(p, t, d) \notin lost
    BY DEF Intact
  <2>. QED
    BY <2>1, <2>3, <2>6, <2>7 DEF Achieved, Has, HasHook
<1>. QED
  BY <1>1 DEF HooksSeen

\* A spot for an entry, as a step.
LEMMA McpSteps ==
  ASSUME NEW d \in Dirs, NEW p \in Platforms, NEW g \in McpSpots(p, d), NEW put \in BOOLEAN
  PROVE  \E x \in AllSteps :
           /\ Spot(x) = g /\ x.kind = g[1] /\ x.where = g[2] /\ x.put = put
           /\ \/ g[1] = "mcp" /\ g[2] \in McpFiles(p, d)
              \/ g = <<"cli", p>>
<1>1. PICK s \in Scopes : g = McpSpot(p, s, d)
  BY DEF McpSpots
<1>2. PICK x : x = Step(g[1], g[2], put, FALSE)
  OBVIOUS
<1>3. ASSUME g = <<"cli", p>>, p \in {"claude", "codex"}
      PROVE  x \in AllSteps /\ Spot(x) = g
  BY <1>2, <1>3 DEF Step, AllSteps, Steps, Spot
<1>4. ASSUME g = <<"mcp", McpJson(d)>>, p = "claude"
      PROVE  x \in AllSteps /\ Spot(x) = g /\ g[1] = "mcp" /\ g[2] \in McpFiles(p, d)
  BY <1>2, <1>4 DEF Step, AllSteps, Steps, Spot, Files, McpFiles
<1>5. ASSUME g = <<"mcp", Settings(p, s, d)>>, p = "gemini"
      PROVE  x \in AllSteps /\ Spot(x) = g /\ g[1] = "mcp" /\ g[2] \in McpFiles(p, d)
  BY <1>2, <1>5 DEF Step, AllSteps, Steps, Spot, Files, McpFiles
<1>6. \/ g = <<"cli", p>> /\ p \in {"claude", "codex"}
      \/ g = <<"mcp", McpJson(d)>> /\ p = "claude"
      \/ g = <<"mcp", Settings(p, s, d)>> /\ p = "gemini"
  BY <1>1 DEF McpSpot, Platforms
<1>7. x.kind = g[1] /\ x.where = g[2] /\ x.put = put
  BY <1>2 DEF Step
<1>8. /\ x \in AllSteps /\ Spot(x) = g
      /\ \/ g[1] = "mcp" /\ g[2] \in McpFiles(p, d)
         \/ g = <<"cli", p>>
  BY <1>3, <1>4, <1>5, <1>6
<1>. QED
  BY <1>7, <1>8

\* What the agent has at a spot.
EntriesAt(a, g) ==
  IF g[1] = "cli" THEN EntriesOf(a, registry[g[2]]) ELSE EntriesOf(a, disk[g[2]].mcp)

LEMMA EntriesSettled ==
  ASSUME NEW a \in Agents, NEW p \in Platforms, NEW d \in Dirs, NEW q, NEW put \in BOOLEAN,
         NEW g \in McpSpots(p, d), Holds(a, q), Intact(p, d), Settles(q, g, put)
  PROVE  EntriesAt(a, g) = IF put THEN {ProxyEntry(a)} ELSE {}
<1>1. \E x \in AllSteps :
        /\ Spot(x) = g /\ x.kind = g[1] /\ x.where = g[2] /\ x.put = put
        /\ \/ g[1] = "mcp" /\ g[2] \in McpFiles(p, d)
           \/ g = <<"cli", p>>
  BY McpSteps
<1>2. PICK x \in AllSteps :
        /\ Spot(x) = g /\ x.kind = g[1] /\ x.where = g[2] /\ x.put = put
        /\ \/ g[1] = "mcp" /\ g[2] \in McpFiles(p, d)
           \/ g = <<"cli", p>>
  BY <1>1
<1>3. Achieved(a, x)
  BY <1>2 DEF Holds
<1>4. CASE g[1] = "mcp" /\ g[2] \in McpFiles(p, d)
  <2>1. g[2] \notin lost
    BY <1>4 DEF Intact
  <2>. QED
    BY <1>2, <1>3, <1>4, <2>1 DEF Achieved, Has, HasHook, Entered, EntriesAt
<1>5. CASE g = <<"cli", p>>
  <2>1. g[1] = "cli"
    BY <1>5
  <2>. QED
    BY <1>2, <1>3, <2>1 DEF Achieved, Entered, EntriesAt
<1>. QED
  BY <1>2, <1>4, <1>5

\* What is read of the agent's entries in a directory is what is at these spots.
Label(g) == IF g[1] = "cli" THEN "cli" ELSE g[2]

LEMMA McpSeenIn ==
  ASSUME NEW a, NEW p, NEW d, NEW y
  PROVE  y \in McpSeen(a, p, d) <=>
           \/ \E f \in McpFiles(p, d) : \E e \in EntriesOf(a, disk[f].mcp) : y = <<f, e[2]>>
           \/ p \in DOMAIN registry /\ \E e \in EntriesOf(a, registry[p]) : y = <<"cli", e[2]>>
  BY DEF McpSeen, EntriesOf

LEMMA McpSeenAt ==
  ASSUME NEW a \in Agents, NEW p \in Platforms, NEW d \in Dirs,
         DOMAIN registry = {"claude", "codex"}
  PROVE  \A y : y \in McpSeen(a, p, d) <=>
           \E g \in McpSpots(p, d) : \E e \in EntriesAt(a, g) : y = <<Label(g), e[2]>>
<1>1. Scopes = {"user", "project"}
  BY DEF Scopes
<1>2. \A f : EntriesAt(a, <<"mcp", f>>) = EntriesOf(a, disk[f].mcp) /\ Label(<<"mcp", f>>) = f
  BY DEF EntriesAt, Label
<1>3. EntriesAt(a, <<"cli", p>>) = EntriesOf(a, registry[p]) /\ Label(<<"cli", p>>) = "cli"
  BY DEF EntriesAt, Label
<1>4. PICK C, J : C = <<"cli", p>> /\ J = <<"mcp", McpJson(d)>>
  OBVIOUS
<1>5. CASE p = "claude"
  <2>1. McpSpots(p, d) = {C, J}
    BY <1>1, <1>4, <1>5 DEF McpSpots, McpSpot
  <2>2. McpFiles(p, d) = {McpJson(d)} /\ p \in DOMAIN registry
    BY <1>5 DEF McpFiles
  <2>. QED
    BY <1>2, <1>3, <1>4, <2>1, <2>2, McpSeenIn
<1>6. CASE p = "codex"
  <2>1. McpSpots(p, d) = {C}
    BY <1>1, <1>4, <1>6 DEF McpSpots, McpSpot
  <2>2. McpFiles(p, d) = {} /\ p \in DOMAIN registry
    BY <1>6 DEF McpFiles
  <2>. QED
    BY <1>3, <1>4, <2>1, <2>2, McpSeenIn
<1>7. CASE p = "gemini"
  <2>1. /\ \A s \in Scopes : <<"mcp", Settings(p, s, d)>> \in McpSpots(p, d)
        /\ \A g \in McpSpots(p, d) : \E s \in Scopes : g = <<"mcp", Settings(p, s, d)>>
    BY <1>7 DEF McpSpots, McpSpot
  <2>2. McpFiles(p, d) = {Settings(p, s, d) : s \in Scopes} /\ p \notin DOMAIN registry
    BY <1>7 DEF McpFiles
  <2>3. ASSUME NEW y
        PROVE  y \in McpSeen(a, p, d) <=>
                 \E s \in Scopes : \E e \in EntriesAt(a, <<"mcp", Settings(p, s, d)>>) :
                   y = <<Label(<<"mcp", Settings(p, s, d)>>), e[2]>>
    <3>1. y \in McpSeen(a, p, d) <=>
            \E f \in McpFiles(p, d) : \E e \in EntriesOf(a, disk[f].mcp) : y = <<f, e[2]>>
      BY <2>2, McpSeenIn
    <3>. QED
      BY <1>2, <2>2, <3>1
  <2>4. ASSUME NEW y
        PROVE  y \in McpSeen(a, p, d) <=>
                 \E g \in McpSpots(p, d) : \E e \in EntriesAt(a, g) : y = <<Label(g), e[2]>>
    <3>. DEFINE Is(g) == \E e \in EntriesAt(a, g) : y = <<Label(g), e[2]>>
    <3>1. y \in McpSeen(a, p, d) <=> \E s \in Scopes : Is(<<"mcp", Settings(p, s, d)>>)
      BY <2>3
    <3>. HIDE DEF Is
    <3>2. (\E s \in Scopes : Is(<<"mcp", Settings(p, s, d)>>)) <=> \E g \in McpSpots(p, d) : Is(g)
      BY <2>1
    <3>3. y \in McpSeen(a, p, d) <=> \E g \in McpSpots(p, d) : Is(g)
      BY <3>1, <3>2
    <3>. QED
      BY <3>3 DEF Is
  <2>. QED
    BY <2>4
<1>. QED
  BY <1>5, <1>6, <1>7 DEF Platforms

LEMMA EntriesCleared ==
  ASSUME NEW a \in Agents, NEW p \in Platforms, NEW d \in Dirs, NEW q,
         DOMAIN registry = {"claude", "codex"},
         Holds(a, q), Intact(p, d), Clears(q, McpSpots(p, d))
  PROVE  McpSeen(a, p, d) = {}
<1>1. \A g \in McpSpots(p, d) : EntriesAt(a, g) = {}
  BY EntriesSettled DEF Clears
<1>. QED
  BY <1>1, McpSeenAt

LEMMA EntryPut ==
  ASSUME NEW a \in Agents, NEW p \in Platforms, NEW d \in Dirs, NEW q, NEW s \in Scopes,
         DOMAIN registry = {"claude", "codex"},
         Holds(a, q), Intact(p, d), Puts(q, McpSpots(p, d), McpSpot(p, s, d))
  PROVE  McpSeen(a, p, d) = {<<McpPlace(p, s, d), config[a].port>>}
<1>1. PICK h \in McpSpots(p, d) : h = McpSpot(p, s, d)
  BY DEF McpSpots
<1>2. EntriesAt(a, h) = {ProxyEntry(a)}
  BY <1>1, EntriesSettled DEF Puts
<1>3. \A g \in McpSpots(p, d) \ {h} : EntriesAt(a, g) = {}
  BY <1>1, EntriesSettled DEF Puts
<1>4. Label(h) = McpPlace(p, s, d)
  BY <1>1 DEF Label, McpSpot, McpPlace, Platforms
<1>5. ProxyEntry(a)[2] = config[a].port
  BY DEF ProxyEntry
<1>6. \A y : y \in McpSeen(a, p, d) <=> y = <<McpPlace(p, s, d), config[a].port>>
  BY <1>2, <1>3, <1>4, <1>5, McpSeenAt
<1>. QED
  BY <1>6

\* When a setup has returned and no step of it failed, each selected CLI runs the
\* agent's hooks from exactly one of the files it reads in that directory and, if
\* the daemon can be reached over loopback, has exactly one entry that dials the
\* configured port; a CLI that was not selected has neither.
THEOREM SetupDoesInstall == Spec => []SetupInstalls
<1>1. ASSUME SetupInv  PROVE SetupInstalls
  <2>1. SUFFICES ASSUME NEW a \in Agents, last[a] # None, last[a].kind = "setup",
                        NEW p \in Platforms, Intact(p, last[a].dir)
                 PROVE  /\ p \in Selected(last[a]) => Configured(a, p, last[a])
                        /\ last[a].platforms # {} /\ p \notin last[a].platforms =>
                             Absent(a, p, last[a].dir)
    BY DEF SetupInstalls
  <2>2. PICK job : job = last[a]
    OBVIOUS
  <2>3. job \in Jobs /\ Holds(a, StepsOf(a, job)) /\ DOMAIN registry = {"claude", "codex"}
    BY <1>1, <2>1, <2>2 DEF SetupInv, PlacesInv, Finished, Uninstalls
  <2>4. job.scope \in Scopes /\ job.dir \in Dirs
    BY <2>3, SetupAssumption
  <2>5. PICK q, c, d, s : /\ q = SetupSteps(job, c) /\ c = config[a]
                          /\ d = job.dir /\ s = job.scope
    OBVIOUS
  <2>6. Holds(a, q) /\ Intact(p, d) /\ d \in Dirs /\ s \in Scopes
    BY <2>1, <2>2, <2>3, <2>4, <2>5 DEF StepsOf
  <2>7. CASE p \in Selected(job)
    <3>1. /\ Puts(q, HookSpots(p, d), HookSpot(p, s, d))
          /\ IF LocallyReachable(c.bind) THEN Puts(q, McpSpots(p, d), McpSpot(p, s, d))
             ELSE Clears(q, McpSpots(p, d))
      BY <2>3, <2>5, <2>7, SetupSettles
    <3>2. HooksSeen(a, p, d) = {Settings(p, s, d)}
      BY <2>6, <3>1, Hooked
    <3>3. McpSeen(a, p, d) = IF LocallyReachable(c.bind) THEN {<<McpPlace(p, s, d), c.port>>} ELSE {}
      BY <2>3, <2>5, <2>6, <3>1, EntryPut, EntriesCleared
    <3>4. Configured(a, p, job)
      BY <2>5, <3>2, <3>3 DEF Configured
    <3>. QED
      BY <2>2, <2>7, <3>4 DEF Selected
  <2>8. CASE job.platforms # {} /\ p \notin job.platforms
    <3>1. Clears(q, HookSpots(p, d)) /\ Clears(q, McpSpots(p, d))
      BY <2>3, <2>5, <2>8, SetupSettles DEF Clears, SpotsOf
    <3>2. Absent(a, p, d)
      BY <2>3, <2>6, <3>1, Cleared, EntriesCleared DEF Absent
    <3>. QED
      BY <2>2, <2>5, <2>8, <3>2 DEF Selected
  <2>. QED
    BY <2>2, <2>7, <2>8
<1>. QED
  BY <1>1, SetupInvariance, PTL

\* When an uninstall has returned and no step of it failed, the agent has no hook
\* and no entry that is read in that directory, no unit and no configuration,
\* whatever earlier runs left half done.
THEOREM UninstallDoesClean == Spec => []UninstallCleans
<1>1. ASSUME SetupInv  PROVE UninstallCleans
  <2>1. SUFFICES ASSUME NEW a \in Agents, last[a] # None, last[a].kind = "uninstall"
                 PROVE  /\ \A p \in Platforms : Intact(p, last[a].dir) => Absent(a, p, last[a].dir)
                        /\ a \notin unit /\ config[a] = None
    BY DEF UninstallCleans
  <2>2. PICK job : job = last[a]
    OBVIOUS
  <2>3. /\ job \in Jobs \cup Uninstalls /\ Holds(a, StepsOf(a, job))
        /\ DOMAIN registry = {"claude", "codex"}
    BY <1>1, <2>1, <2>2 DEF SetupInv, PlacesInv, Finished
  <2>4. job.kind = "uninstall" /\ job \in Uninstalls /\ job.dir \in Dirs
    BY <2>1, <2>2, <2>3, SetupAssumption DEF Uninstalls
  <2>5. PICK q, d : q = UninstallSteps(d) /\ d = job.dir
    OBVIOUS
  <2>6. Holds(a, q) /\ d \in Dirs
    BY <2>3, <2>4, <2>5 DEF StepsOf
  <2>7. /\ \A p \in Platforms : Clears(q, SpotsOf(p, d))
        /\ Settles(q, UnitSpot, FALSE) /\ Settles(q, StateSpot, FALSE)
    BY <2>5, <2>6, UninstallSettles
  <2>8. ASSUME NEW p \in Platforms, Intact(p, d)  PROVE Absent(a, p, d)
    <3>1. Clears(q, HookSpots(p, d)) /\ Clears(q, McpSpots(p, d))
      BY <2>7 DEF Clears, SpotsOf
    <3>. QED
      BY <2>3, <2>6, <2>8, <3>1, Cleared, EntriesCleared DEF Absent
  <2>9. a \notin unit
    <3>1. PICK x : x = Step("unit", None, FALSE, FALSE)
      OBVIOUS
    <3>2. x \in AllSteps /\ Spot(x) = UnitSpot /\ x.put = FALSE /\ x.kind = "unit"
      BY <3>1 DEF Step, AllSteps, Steps, Spot, UnitSpot
    <3>3. Achieved(a, x)
      BY <2>6, <2>7, <3>2 DEF Holds
    <3>. QED
      BY <3>2, <3>3 DEF Achieved
  <2>10. config[a] = None
    <3>1. StateStep \in AllSteps /\ Spot(StateStep) = StateSpot
          /\ StateStep.put = FALSE /\ StateStep.kind = "state"
      BY DEF AllSteps, StateStep, Step, Spot, StateSpot
    <3>2. Achieved(a, StateStep)
      BY <2>6, <2>7, <3>1 DEF Holds
    <3>. QED
      BY <3>1, <3>2 DEF Achieved
  <2>. QED
    BY <2>2, <2>5, <2>8, <2>9, <2>10
<1>. QED
  BY <1>1, SetupInvariance, PTL

-----------------------------------------------------------------------------
(* Capture: the invariant.                                                 *)

\* The points of a hook that has sent its entry, and the turn of a hook.
Past == {"save", "enqueue", "save_turn", "ended"}
Turn(p) == (p + 1) \div 2

\* The CLI waits for a hook: those before this one have ended.
Alone(p) == \A q \in 1..(p - 1) : hook[q].at = "ended"

HookOrder(p) ==
  /\ hook[p].at = "new" => hook[p] = NewHook
  /\ hook[p].at # "new" => Alone(p)

\* What a hook has loaded is still what the offsets file says.
HookTurn(p) ==
  /\ hook[p].at \in {"send", "save", "enqueue", "save_turn"} => hook[p].turn = Turn(p)
  /\ hook[p].at = "ended" => hook[p].turn = Turn(p) \/ hook[p].content = NoContent
  /\ hook[p].at # "ended" /\ Alone(p) => offset.turn = p \div 2

\* What a response has taken begins where the offset is, and what it has not taken
\* was flushed since.
HookLines(p) ==
  /\ Event(p) = "prompt" => hook[p].content.lines = {}
  /\ Running(p) =>
       /\ hook[p].content.lines \subseteq (offset.byte + 1)..transcript
       /\ Event(p) = "response" =>
            (offset.byte + 1)..transcript \subseteq hook[p].content.lines \cup flushed
  /\ hook[p].at \in {"send", "save", "enqueue", "save_turn"} /\ Event(p) = "prompt" =>
       hook[p].byte = offset.byte
  /\ hook[p].at = "save_turn" => Event(p) = "prompt"
  /\ hook[p].at = "save" => Entry(p) \in memory

HooksInv == \A p \in Hooks : HookOrder(p) /\ HookTurn(p) /\ HookLines(p)

\* An entry is of one hook, which has sent it.
Owned(e) ==
  \E p \in Hooks : hook[p].at \in Past /\ hook[p].turn = Turn(p) /\ e = Entry(p)
OwnersInv == \A e \in memory \cup queued : Owned(e)

\* A replay has in hand, or has brought to memory, what it has read; what came
\* later it does not know.
QueueInv ==
  /\ Elements(buffer) \subseteq queued
  /\ Elements(replay.todo) \subseteq queued /\ Elements(replay.failed) \subseteq queued
  /\ replay.at = "sending" =>
       Elements(buffer) \subseteq
         Elements(replay.todo) \cup Elements(replay.failed) \cup memory \cup raced

\* The offset passes a line when it is in memory.
OffsetInv ==
  /\ offset.byte <= transcript
  /\ \A line \in (1..offset.byte) \ flushed : \E e \in memory : line \in e.content.lines
  /\ \A e \in memory \ queued :
       \/ e.content.lines \subseteq 1..offset.byte
       \/ \E p \in Hooks : hook[p].at \in {"save", "enqueue"} /\ e = Entry(p)

CaptureInv ==
  /\ CaptureTypeOK /\ HooksInv /\ OwnersInv /\ QueueInv /\ OffsetInv
  /\ CapturesKept /\ NoLineTwice

-----------------------------------------------------------------------------
(* Capture: sequences and hooks.                                           *)

LEMMA ElementsOfAppend ==
  ASSUME NEW X, NEW s \in Seq(X), NEW x \in X
  PROVE  Append(s, x) \in Seq(X) /\ Elements(Append(s, x)) = Elements(s) \cup {x}
<1> DEFINE t == Append(s, x)
<1>1. /\ t \in Seq(X) /\ Len(s) \in Nat /\ Len(t) = Len(s) + 1
      /\ \A i \in 1..Len(s) : t[i] = s[i]
      /\ t[Len(s) + 1] = x
  OBVIOUS
<1>2. DOMAIN s = 1..Len(s) /\ DOMAIN t = 1..(Len(s) + 1)
  BY <1>1
<1>3. 1..(Len(s) + 1) = 1..Len(s) \cup {Len(s) + 1}
  BY <1>1
<1> HIDE DEF t
<1>4. Elements(t) = Elements(s) \cup {x}
  BY <1>1, <1>2, <1>3 DEF Elements
<1> QED  BY <1>1, <1>4 DEF t

LEMMA ElementsOfTail ==
  ASSUME NEW X, NEW s \in Seq(X), s # <<>>
  PROVE  /\ Head(s) \in X /\ Tail(s) \in Seq(X)
         /\ Elements(s) = {Head(s)} \cup Elements(Tail(s))
<1> DEFINE t == Tail(s)
<1>1. /\ t \in Seq(X) /\ Len(s) \in Nat \ {0} /\ Len(t) = Len(s) - 1
      /\ \A i \in 1..Len(t) : t[i] = s[i + 1]
      /\ Head(s) = s[1] /\ Head(s) \in X
  OBVIOUS
<1>2. DOMAIN s = 1..Len(s) /\ DOMAIN t = 1..(Len(s) - 1)
  BY <1>1
<1>3. \A i \in 1..Len(s) : i = 1 \/ (i - 1 \in 1..(Len(s) - 1) /\ s[i] = t[i - 1])
  BY <1>1
<1>4. \A i \in 1..(Len(s) - 1) : i + 1 \in 1..Len(s) /\ 1 \in 1..Len(s)
  BY <1>1
<1>5. 1 \in 1..Len(s)
  BY <1>1
<1> HIDE DEF t
<1>6. Elements(s) = {Head(s)} \cup Elements(t)
  <2>1. \A x \in Elements(s) : x = Head(s) \/ x \in Elements(t)
    <3>1. \A i \in DOMAIN s : s[i] = Head(s) \/ \E j \in DOMAIN t : s[i] = t[j]
      BY <1>1, <1>2, <1>3
    <3> QED  BY <3>1 DEF Elements
  <2>2. \A x \in Elements(t) : x \in Elements(s)
    BY <1>1, <1>2, <1>4 DEF Elements
  <2>3. Head(s) \in Elements(s)
    BY <1>1, <1>2, <1>5 DEF Elements
  <2> QED  BY <2>1, <2>2, <2>3
<1> QED  BY <1>1, <1>6 DEF t

LEMMA ElementsOfTruncated ==
  ASSUME NEW X, NEW b \in Seq(X)
  PROVE  Truncated(b) \in Seq(X) /\ Elements(Truncated(b)) \subseteq Elements(b)
<1> DEFINE n == Len(b)
           m == n \div 2 + 1
           t == SubSeq(b, m, n)
<1>1. n \in Nat /\ m \in Nat \ {0} /\ m <= n + 1
  OBVIOUS
<1> HIDE DEF m
<1>2. t \in Seq(X) /\ Len(t) = n - m + 1 /\ \A i \in 1..Len(t) : t[i] = b[m + i - 1]
  BY <1>1
<1>3. DOMAIN b = 1..n /\ DOMAIN t = 1..(n - m + 1)
  BY <1>1, <1>2
<1>4. \A i \in 1..(n - m + 1) : m + i - 1 \in 1..n
  BY <1>1
<1>5. Truncated(b) = b \/ Truncated(b) = t
  BY DEF Truncated, m
<1> HIDE DEF t, n
<1>6. Elements(t) \subseteq Elements(b)
  BY <1>2, <1>3, <1>4 DEF Elements
<1> QED  BY <1>2, <1>5, <1>6

LEMMA ElementsAre ==
  ASSUME NEW X, NEW s \in Seq(X)
  PROVE  Elements(s) \subseteq X
BY DEF Elements

LEMMA NoElements == Elements(<<>>) = {}
BY DEF Elements

LEMMA HooksAre ==
  /\ Cardinality(Hooks) \in Nat
  /\ \A p : p \in Hooks <=> p \in Nat /\ 1 <= p /\ p <= Cardinality(Hooks)
BY CaptureAssumption, FS_CardinalityType

\* Prompt and response of a turn, and which hooks they are.
LEMMA Turns ==
  ASSUME NEW p \in Hooks
  PROVE  /\ Turn(p) \in 1..Cardinality(Hooks) /\ Event(p) \in Events
         /\ Event(p) = "prompt" => Turn(p) = p \div 2 + 1
         /\ Event(p) = "response" => Turn(p) = p \div 2
         /\ \A q \in Hooks : Turn(p) = Turn(q) /\ Event(p) = Event(q) => p = q
         /\ (p + 1) \div 2 = Turn(p)
<1>1. p \in Nat /\ 1 <= p /\ p <= Cardinality(Hooks) /\ Cardinality(Hooks) \in Nat
  BY HooksAre
<1>2. ASSUME NEW q \in Nat
      PROVE  q % 2 \in 0..1 /\ q = (2 * (q \div 2)) + (q % 2) /\ q \div 2 \in Nat
             /\ (q % 2 = 1 => (q + 1) \div 2 = q \div 2 + 1)
             /\ (q % 2 = 0 => (q + 1) \div 2 = q \div 2)
  OBVIOUS
<1>3. ASSUME NEW q \in Hooks, Turn(p) = Turn(q), Event(p) = Event(q)
      PROVE  p = q
  <2>1. q \in Nat
    BY HooksAre
  <2> QED  BY <1>1, <1>2, <1>3, <2>1 DEF Turn, Event
<1> QED  BY <1>1, <1>2, <1>3 DEF Turn, Event, Events

\* A hook that can move is the only one: those before it have ended, and those
\* after it have not begun.
LEMMA OtherHooks ==
  ASSUME CaptureInv, NEW p \in Hooks, hook[p].at # "ended"
  PROVE  \A q \in Hooks \ {p} :
           \/ q < p /\ (Alone(p) => hook[q].at = "ended")
           \/ q > p /\ hook[q] = NewHook
<1> SUFFICES ASSUME NEW q \in Hooks \ {p}
             PROVE  \/ q < p /\ (Alone(p) => hook[q].at = "ended")
                    \/ q > p /\ hook[q] = NewHook
  OBVIOUS
<1>1. p \in Nat /\ q \in Nat /\ 1 <= q /\ 1 <= p
  BY HooksAre
<1>2. HookOrder(q)
  BY DEF CaptureInv, HooksInv
<1> QED  BY <1>1, <1>2 DEF HookOrder, Alone

LEMMA RunningAlone ==
  ASSUME CaptureInv, NEW p \in Hooks, Running(p)
  PROVE  Alone(p)
BY DEF CaptureInv, HooksInv, HookOrder, Running

LEMMA StartingAlone ==
  ASSUME CaptureInv, NEW p \in Hooks, MayStart(p)
  PROVE  Alone(p) /\ hook[p] = NewHook
<1>1. HookOrder(p)
  BY DEF CaptureInv, HooksInv
<1>2. p \in Nat /\ 1 <= p /\ p <= Cardinality(Hooks) /\ Cardinality(Hooks) \in Nat
  BY HooksAre
<1>3. CASE p = 1
  BY <1>1, <1>3 DEF MayStart, HookOrder, Alone
<1>4. CASE p # 1
  <2>1. p - 1 \in Hooks
    BY <1>2, <1>4, HooksAre
  <2>2. hook[p - 1].at = "ended"
    BY <2>1 DEF MayStart, Running
  <2>3. Alone(p - 1)
    BY <2>1, <2>2 DEF CaptureInv, HooksInv, HookOrder
  <2> QED  BY <1>1, <1>2, <2>2, <2>3 DEF MayStart, HookOrder, Alone
<1> QED  BY <1>3, <1>4

\* A step of one hook.
Moves(p) ==
  /\ hook' \in [Hooks -> HookStates]
  /\ \A q \in Hooks \ {p} : hook'[q] = hook[q]

\* What a hook's move has to keep of its own.
LEMMA HooksStep ==
  ASSUME CaptureInv, NEW p \in Hooks, Alone(p), hook[p].at # "ended",
         Moves(p), hook'[p].at # "new",
         hook'[p].at \in {"send", "save", "enqueue", "save_turn"} => hook'[p].turn = Turn(p),
         hook'[p].at = "ended" => hook'[p].turn = Turn(p) \/ hook'[p].content = NoContent,
         IF hook'[p].at = "ended" THEN offset'.turn = Turn(p) ELSE UNCHANGED offset,
         HookLines(p)'
  PROVE  HooksInv'
<1>1. p \in Nat /\ 1 <= p /\ \A q \in Hooks \ {p} : hook'[q] = hook[q]
  BY HooksAre DEF Moves
<1>2. \A q \in Hooks \ {p} :
        (q < p /\ hook[q].at = "ended") \/ (q > p /\ hook[q] = NewHook)
  BY OtherHooks
<1>3. \A q \in Hooks : HookOrder(q) /\ HookTurn(q) /\ HookLines(q)
  BY DEF CaptureInv, HooksInv
<1>4. \A q \in Hooks : q <= p => Alone(q)'
  BY <1>1, <1>2, HooksAre DEF Alone
<1>5. HookOrder(p)' /\ HookTurn(p)'
  BY <1>1, <1>3, <1>4 DEF HookOrder, HookTurn
<1>6. ASSUME NEW q \in Hooks, q < p
      PROVE  HookOrder(q)' /\ HookTurn(q)' /\ HookLines(q)'
  <2>1. q # p /\ hook'[q] = hook[q] /\ hook[q].at = "ended"
    BY <1>1, <1>2, <1>6, HooksAre
  <2>2. Alone(q)'
    BY <1>1, <1>4, <1>6, HooksAre
  <2> QED  BY <1>3, <2>1, <2>2 DEF HookOrder, HookTurn, HookLines, Running, Event
<1>7. ASSUME NEW q \in Hooks, q > p
      PROVE  HookOrder(q)' /\ HookTurn(q)' /\ HookLines(q)'
  <2>1. q # p /\ hook'[q] = NewHook
    BY <1>1, <1>2, <1>7, HooksAre
  <2>2. Alone(q)' => hook'[p].at = "ended" /\ q = p + 1
    <3> SUFFICES ASSUME Alone(q)'  PROVE hook'[p].at = "ended" /\ q = p + 1
      OBVIOUS
    <3>1. q \in Nat /\ q <= Cardinality(Hooks) /\ Cardinality(Hooks) \in Nat
      BY HooksAre
    <3>2. hook'[p].at = "ended"
      BY <1>1, <1>7, <3>1 DEF Alone
    <3>3. CASE q # p + 1
      <4>1. p + 1 \in Hooks /\ p + 1 \in 1..(q - 1) /\ p + 1 # p
        BY <1>1, <1>7, <3>1, <3>3, HooksAre
      <4>2. hook'[p + 1] = NewHook
        BY <1>1, <1>2, <4>1, HooksAre
      <4> QED  BY <4>1, <4>2 DEF Alone, NewHook
    <3> QED  BY <3>2, <3>3
  <2>3. HookTurn(q)'
    BY <2>1, <2>2 DEF HookTurn, NewHook, Turn
  <2> QED  BY <2>1, <2>3 DEF HookOrder, HookLines, NewHook, Running, NoContent
<1>8. \A q \in Hooks : q = p \/ q < p \/ q > p
  BY <1>1, HooksAre
<1> QED  BY <1>5, <1>6, <1>7, <1>8 DEF HooksInv

\* An entry keeps its owner.
LEMMA OwnersStay ==
  ASSUME NEW e, Owned(e),
         \A p \in Hooks : hook[p].at \in Past =>
           hook'[p].at \in Past /\ hook'[p].turn = hook[p].turn
           /\ hook'[p].content = hook[p].content
  PROVE  Owned(e)'
BY DEF Owned, Entry

\* A hook that begins, or loads, changes nothing that others see.
LEMMA QuietStep ==
  ASSUME CaptureInv, NEW p \in Hooks, hook[p].at \in {"new", "load"},
         Moves(p),
         \/ hook'[p].at \in {"load", "send"}
         \/ hook'[p].at = "ended" /\ hook'[p].content = NoContent,
         UNCHANGED <<transcript, offset, buffer, memory, replay, histVars>>
  PROVE  OwnersInv' /\ QueueInv' /\ OffsetInv' /\ CapturesKept' /\ NoLineTwice'
<1>1. \A q \in Hooks \ {p} : hook'[q] = hook[q]
  BY DEF Moves
<1>2. \A q \in Hooks \ {p} : Entry(q)' = Entry(q)
  BY <1>1 DEF Entry
<1>3. \A e : Owned(e) => Owned(e)'
  BY <1>1, OwnersStay DEF Past
<1>4. OwnersInv' /\ QueueInv' /\ NoLineTwice'
  BY <1>3 DEF CaptureInv, OwnersInv, QueueInv, NoLineTwice, histVars, Elements
<1>5. OffsetInv'
  BY <1>1, <1>2 DEF CaptureInv, OffsetInv, histVars
<1>6. CapturesKept'
  BY <1>1, <1>2 DEF CaptureInv, CapturesKept, Kept, histVars, Elements
<1> QED  BY <1>4, <1>5, <1>6

-----------------------------------------------------------------------------
(* Capture: every step keeps the invariant.                                *)

LEMMA CaptureStarts == CaptureInit => CaptureInv
<1> SUFFICES ASSUME CaptureInit  PROVE CaptureInv
  OBVIOUS
<1> USE DEF CaptureInit
<1>1. CaptureTypeOK
  <2>1. NewHook \in HookStates
    BY CaptureAssumption, HooksAre DEF NewHook, HookStates, Captures, NoContent
  <2>2. NoReplay \in [at : {"idle", "sending"}, todo : Seq(Entries), failed : Seq(Entries)]
    BY DEF NoReplay
  <2> QED  BY <2>1, <2>2, CaptureAssumption, HooksAre DEF CaptureTypeOK
<1>2. HooksInv
  <2> SUFFICES ASSUME NEW p \in Hooks  PROVE HookOrder(p) /\ HookTurn(p) /\ HookLines(p)
    BY DEF HooksInv
  <2>1. p \in Nat /\ 1 <= p /\ (p # 1 => 1 \in Hooks /\ 1 \in 1..(p - 1))
    BY HooksAre
  <2>2. Alone(p) => p \div 2 = 0
    <3>1. Alone(p) => p = 1
      BY <2>1 DEF Alone, NewHook
    <3> QED  BY <3>1
  <2> QED  BY <2>2 DEF HookOrder, HookTurn, HookLines, NewHook, NoContent, Running
<1>3. OwnersInv /\ QueueInv
  BY NoElements DEF OwnersInv, QueueInv, NoReplay
<1>4. OffsetInv /\ CapturesKept /\ NoLineTwice
  BY DEF OffsetInv, CapturesKept, NoLineTwice, NewHook
<1> QED  BY <1>1, <1>2, <1>3, <1>4 DEF CaptureInv

LEMMA HookShape ==
  ASSUME CaptureTypeOK, NEW p \in Hooks
  PROVE  /\ hook[p] \in HookStates /\ hook[p].content \in Captures
         /\ hook[p].content.lines \subseteq 1..MaxLines
         /\ hook[p].turn \in 0..Cardinality(Hooks) /\ hook[p].byte \in 0..MaxLines
         /\ Entry(p) \in Entries
<1>1. hook[p] \in HookStates
  BY DEF CaptureTypeOK
<1>2. hook[p].content \in Captures
  BY <1>1 DEF HookStates
<1>3. Entry(p) \in Entries
  BY <1>1, <1>2, Turns DEF Entry, Entries, HookStates
<1> QED  BY <1>1, <1>2, <1>3 DEF Captures, HookStates

LEMMA StartPromptStep ==
  ASSUME CaptureInv, NEW p \in Hooks, StartPrompt(p)
  PROVE  CaptureInv'
<1> DEFINE c == [prompt |-> p, lines |-> {}]
<1>1. /\ CaptureTypeOK /\ Alone(p) /\ hook[p] = NewHook /\ Event(p) = "prompt"
      /\ UNCHANGED <<transcript, offset, buffer, memory, replay, histVars>>
      /\ hook' = [hook EXCEPT ![p].at = "load", ![p].content = c]
  BY StartingAlone DEF CaptureInv, StartPrompt
<1>2. c \in Captures /\ c.lines = {}
  BY DEF Captures
<1> HIDE DEF c
<1>3. Moves(p) /\ hook'[p].at = "load" /\ hook'[p].content = c
  BY <1>1, <1>2 DEF CaptureTypeOK, HookStates, Moves
<1>4. CaptureTypeOK'
  BY <1>1, <1>3 DEF CaptureTypeOK, Moves, histVars
<1>5. HookLines(p)'
  BY <1>1, <1>2, <1>3 DEF HookLines, Event
<1>6. hook[p].at = "new"
  BY <1>1 DEF NewHook
<1>7. HooksInv'
  BY <1>1, <1>3, <1>5, <1>6, HooksStep
<1>8. OwnersInv' /\ QueueInv' /\ OffsetInv' /\ CapturesKept' /\ NoLineTwice'
  BY <1>1, <1>3, <1>6, QuietStep
<1> QED  BY <1>4, <1>7, <1>8 DEF CaptureInv

LEMMA StartResponseStep ==
  ASSUME CaptureInv, NEW p \in Hooks, StartResponse(p)
  PROVE  CaptureInv'
<1> DEFINE c == [prompt |-> 0, lines |-> NewLines]
           at == IF NewLines = {} THEN "ended" ELSE "load"
<1>1. /\ CaptureTypeOK /\ Alone(p) /\ hook[p] = NewHook /\ Event(p) = "response"
      /\ UNCHANGED <<transcript, offset, buffer, memory, replay, histVars>>
      /\ hook' = [hook EXCEPT ![p].at = at, ![p].content = c]
  BY StartingAlone DEF CaptureInv, StartResponse
<1>2. /\ offset.byte \in Nat /\ transcript \in 0..MaxLines /\ MaxLines \in Nat
      /\ offset.byte <= transcript
  BY <1>1, CaptureAssumption DEF CaptureInv, CaptureTypeOK, OffsetInv
<1>3. NewLines \subseteq 1..MaxLines /\ NewLines = (offset.byte + 1)..transcript
  BY <1>2 DEF NewLines
<1>4. /\ c \in Captures /\ c.lines = (offset.byte + 1)..transcript
      /\ at \in {"load", "ended"} /\ (at = "ended" => c = NoContent)
  BY <1>3 DEF Captures, NoContent
<1> HIDE DEF c, at
<1>5. Moves(p) /\ hook'[p].at = at /\ hook'[p].content = c
  BY <1>1, <1>4 DEF CaptureTypeOK, HookStates, Moves
<1>6. CaptureTypeOK'
  BY <1>1, <1>5 DEF CaptureTypeOK, Moves, histVars
<1>7. HookLines(p)'
  BY <1>1, <1>4, <1>5 DEF HookLines, Event
<1>8. at = "ended" => offset'.turn = Turn(p)
  BY <1>1, Turns DEF CaptureInv, HooksInv, HookTurn, NewHook
<1>9. hook[p].at = "new"
  BY <1>1 DEF NewHook
<1>10. HooksInv'
  BY <1>1, <1>4, <1>5, <1>7, <1>8, <1>9, HooksStep
<1>11. OwnersInv' /\ QueueInv' /\ OffsetInv' /\ CapturesKept' /\ NoLineTwice'
  BY <1>1, <1>4, <1>5, <1>9, QuietStep
<1> QED  BY <1>6, <1>10, <1>11 DEF CaptureInv

LEMMA LoadStep ==
  ASSUME CaptureInv, NEW p \in Hooks, Load(p)
  PROVE  CaptureInv'
<1>1. /\ CaptureTypeOK /\ hook[p].at = "load" /\ Alone(p)
      /\ UNCHANGED <<transcript, offset, buffer, memory, replay, histVars>>
  BY RunningAlone DEF CaptureInv, Load, Running
<1>2. offset.turn = p \div 2 /\ HookLines(p)
  BY <1>1 DEF CaptureInv, HooksInv, HookTurn
<1>3. (IF Event(p) = "prompt" THEN offset.turn + 1 ELSE offset.turn) = Turn(p)
  BY <1>2, Turns DEF Event
<1>4. hook' = [hook EXCEPT ![p].at = "send", ![p].byte = offset.byte, ![p].turn = Turn(p)]
  BY <1>3 DEF Load
<1>5. Turn(p) \in 0..Cardinality(Hooks) /\ offset.byte \in 0..MaxLines
  BY <1>1, Turns, HooksAre DEF CaptureTypeOK
<1>6. /\ Moves(p) /\ hook'[p].at = "send" /\ hook'[p].content = hook[p].content
      /\ hook'[p].byte = offset.byte /\ hook'[p].turn = Turn(p)
  BY <1>1, <1>4, <1>5 DEF CaptureTypeOK, HookStates, Moves
<1>7. CaptureTypeOK'
  BY <1>1, <1>6 DEF CaptureTypeOK, Moves, histVars
<1>8. HookLines(p)'
  BY <1>1, <1>2, <1>6 DEF HookLines, Event, Running, histVars
<1>9. HooksInv'
  BY <1>1, <1>6, <1>8, HooksStep
<1>10. OwnersInv' /\ QueueInv' /\ OffsetInv' /\ CapturesKept' /\ NoLineTwice'
  BY <1>1, <1>6, QuietStep
<1> QED  BY <1>7, <1>9, <1>10 DEF CaptureInv

\* The one hook that runs is at send; what it sends is new, and its lines too.
LEMMA SendStep ==
  ASSUME CaptureInv, NEW p \in Hooks, Send(p)
  PROVE  CaptureInv'
<1> DEFINE x == Entry(p)
<1>1. /\ CaptureTypeOK /\ hook[p].at = "send" /\ Alone(p)
      /\ UNCHANGED <<transcript, offset, buffer, replay, histVars>>
      /\ hook[p].turn = Turn(p) /\ HookLines(p)
  BY RunningAlone DEF CaptureInv, Send, Running, HooksInv, HookTurn
<1>2. /\ Moves(p) /\ hook'[p].content = hook[p].content
      /\ hook'[p].byte = hook[p].byte /\ hook'[p].turn = Turn(p)
      /\ \/ hook'[p].at = "save" /\ memory' = memory \cup {x}
         \/ hook'[p].at = "enqueue" /\ (memory' = memory \cup {x} \/ UNCHANGED memory)
  <2>1. \/ hook' = [hook EXCEPT ![p].at = "save"] /\ memory' = memory \cup {x}
        \/ /\ hook' = [hook EXCEPT ![p].at = "enqueue"]
           /\ memory' = memory \cup {x} \/ UNCHANGED memory
    BY DEF Send
  <2>2. ASSUME NEW at \in {"save", "enqueue"}, hook' = [hook EXCEPT ![p].at = at]
        PROVE  /\ Moves(p) /\ hook'[p].at = at /\ hook'[p].content = hook[p].content
               /\ hook'[p].byte = hook[p].byte /\ hook'[p].turn = hook[p].turn
    BY <1>1, <2>2 DEF CaptureTypeOK, HookStates, Moves
  <2> HIDE DEF x
  <2> QED  BY <1>1, <2>1, <2>2
<1>3. x \in Entries /\ x' = x /\ \A q \in Hooks \ {p} : hook'[q] = hook[q] /\ Entry(q)' = Entry(q)
  BY <1>1, <1>2, HookShape DEF Entry, Moves, Event
<1>4. x.content.lines = hook[p].content.lines
  BY DEF Entry
<1>5. CaptureTypeOK'
  BY <1>1, <1>2, <1>3 DEF CaptureTypeOK, Moves, histVars
<1>6. HookLines(p)'
  BY <1>1, <1>2, <1>3 DEF HookLines, Event, Running, histVars
<1>7. HooksInv'
  BY <1>1, <1>2, <1>6, HooksStep
<1>8. Owned(x)'
  BY <1>2, <1>3 DEF Owned, Past
<1>9. \A e : Owned(e) => Owned(e)'
  BY <1>1, <1>2, <1>3, OwnersStay DEF Past
<1> HIDE DEF x
<1>10. OwnersInv'
  BY <1>1, <1>2, <1>3, <1>8, <1>9 DEF CaptureInv, OwnersInv, histVars
<1>11. QueueInv'
  BY <1>1, <1>2 DEF CaptureInv, QueueInv, histVars, Elements
<1>12. \A e \in memory \ queued : e.content.lines \subseteq 1..offset.byte
  <2>1. \A q \in Hooks : hook[q].at \notin {"save", "enqueue"}
    BY <1>1, OtherHooks DEF NewHook
  <2> QED  BY <2>1 DEF CaptureInv, OffsetInv
<1>13. OffsetInv'
  BY <1>1, <1>2, <1>3, <1>12, <1>4 DEF CaptureInv, OffsetInv, histVars, x
<1>14. CapturesKept'
  BY <1>1, <1>2, <1>3 DEF CaptureInv, CapturesKept, Kept, histVars, Elements, x
<1>15. NoLineTwice'
  <2>1. x.content.lines \cap (1..offset.byte) = {}
    <3>1. hook[p].content.lines \subseteq (offset.byte + 1)..transcript
      BY <1>1 DEF HookLines, Running
    <3>2. offset.byte \in Nat /\ transcript \in Nat
      BY <1>1, CaptureAssumption DEF CaptureTypeOK
    <3> QED  BY <1>4, <3>1, <3>2
  <2>2. memory' \ queued' \subseteq (memory \ queued) \cup {x}
    BY <1>1, <1>2 DEF histVars
  <2> QED  BY <1>12, <2>1, <2>2 DEF CaptureInv, NoLineTwice
<1> QED  BY <1>5, <1>7, <1>10, <1>11, <1>13, <1>14, <1>15 DEF CaptureInv

LEMMA SaveStep ==
  ASSUME CaptureInv, NEW p \in Hooks, Save(p)
  PROVE  CaptureInv'
<1> DEFINE b == IF Event(p) = "response" THEN transcript ELSE hook[p].byte
<1>1. /\ CaptureTypeOK /\ hook[p].at \in {"save", "save_turn"} /\ Alone(p)
      /\ UNCHANGED <<transcript, buffer, memory, replay, histVars>>
      /\ hook[p].turn = Turn(p) /\ HookLines(p) /\ Running(p)
      /\ offset' = [byte |-> b, turn |-> Turn(p)]
  BY RunningAlone DEF CaptureInv, Save, Running, HooksInv, HookTurn
<1>2. /\ Moves(p) /\ hook'[p].content = hook[p].content /\ hook'[p].turn = Turn(p)
      /\ hook'[p].byte = hook[p].byte /\ hook'[p].at = "ended"
  BY <1>1 DEF Save, CaptureTypeOK, HookStates, Moves
<1>3. \A q \in Hooks : Entry(q)' = Entry(q) /\ (q # p => hook'[q] = hook[q])
  BY <1>1, <1>2 DEF Entry, Moves, Event
<1>4. /\ offset.byte \in Nat /\ transcript \in 0..MaxLines /\ MaxLines \in Nat
      /\ offset.byte <= transcript
  BY <1>1, CaptureAssumption DEF CaptureInv, CaptureTypeOK, OffsetInv
<1>5. /\ b \in 0..MaxLines /\ offset.byte <= b /\ b <= transcript
      /\ Event(p) = "prompt" => b = offset.byte
      /\ Event(p) = "response" => b = transcript
  BY <1>1, <1>4, Turns DEF HookLines, Events
<1>6. hook[p].content.lines \subseteq 1..b
  BY <1>1, <1>4, <1>5, Turns DEF HookLines, Events
<1>7. (offset.byte + 1)..b \subseteq flushed \cup hook[p].content.lines
      /\ (Event(p) = "response" => Entry(p) \in memory)
  <2>1. CASE Event(p) = "prompt"
    BY <1>4, <1>5, <2>1
  <2>2. CASE Event(p) = "response"
    BY <1>1, <1>5, <2>2 DEF HookLines
  <2> QED  BY <2>1, <2>2, Turns DEF Events
<1> HIDE DEF b
<1>8. offset'.byte = b /\ offset'.turn = Turn(p)
  BY <1>1
<1>9. CaptureTypeOK'
  BY <1>1, <1>2, <1>5, Turns, HooksAre DEF CaptureTypeOK, Moves, histVars
<1>10. HookLines(p)'
  BY <1>1, <1>2 DEF HookLines, Event, Running
<1>11. HooksInv'
  BY <1>1, <1>2, <1>8, <1>10, HooksStep
<1>12. OwnersInv' /\ QueueInv' /\ CapturesKept' /\ NoLineTwice'
  <2>1. \A e : Owned(e) => Owned(e)'
    BY <1>1, <1>2, <1>3, OwnersStay DEF Past
  <2>2. OwnersInv' /\ QueueInv' /\ NoLineTwice'
    BY <1>1, <2>1 DEF CaptureInv, OwnersInv, QueueInv, NoLineTwice, histVars, Elements
  <2>3. CapturesKept'
    BY <1>1, <1>2, <1>3 DEF CaptureInv, CapturesKept, Kept, histVars, Elements
  <2> QED  BY <2>2, <2>3
<1>13. OffsetInv'
  <2>1. \A line \in (1..b) \ flushed : \E e \in memory : line \in e.content.lines
    <3> SUFFICES ASSUME NEW line \in (1..b) \ flushed
                 PROVE  \E e \in memory : line \in e.content.lines
      OBVIOUS
    <3>1. CASE line \in 1..offset.byte
      BY <3>1 DEF CaptureInv, OffsetInv
    <3>2. CASE line \notin 1..offset.byte
      <4>1. line \in (offset.byte + 1)..b
        BY <1>4, <1>5, <3>2
      <4>2. line \in hook[p].content.lines /\ Event(p) = "response"
        BY <1>1, <1>5, <1>7, <4>1, <1>4, Turns DEF Events
      <4>3. line \in Entry(p).content.lines
        BY <4>2 DEF Entry
      <4> QED  BY <1>7, <4>2, <4>3
    <3> QED  BY <3>1, <3>2
  <2>2. \A e \in memory \ queued : e.content.lines \subseteq 1..b
    <3> SUFFICES ASSUME NEW e \in memory \ queued  PROVE e.content.lines \subseteq 1..b
      OBVIOUS
    <3>1. CASE e.content.lines \subseteq 1..offset.byte
      BY <1>4, <1>5, <3>1
    <3>2. CASE \E q \in Hooks : hook[q].at \in {"save", "enqueue"} /\ e = Entry(q)
      <4>1. e = Entry(p)
        BY <1>1, <3>2, OtherHooks DEF NewHook
      <4> QED  BY <1>6, <4>1 DEF Entry
    <3> QED  BY <3>1, <3>2 DEF CaptureInv, OffsetInv
  <2> QED  BY <1>1, <1>5, <1>8, <2>1, <2>2 DEF OffsetInv, histVars
<1> QED  BY <1>9, <1>11, <1>12, <1>13 DEF CaptureInv

\* What cannot be sent is put into the buffer, which may lose its older half.
LEMMA EnqueueStep ==
  ASSUME CaptureInv, NEW p \in Hooks, Enqueue(p)
  PROVE  CaptureInv'
<1> DEFINE x == Entry(p)
           at == IF Event(p) = "prompt" THEN "save_turn" ELSE "ended"
           gone == Elements(buffer) \ Elements(Truncated(buffer))
<1>1. /\ CaptureTypeOK /\ hook[p].at = "enqueue" /\ Alone(p)
      /\ UNCHANGED <<transcript, offset, memory, replay, flushed>>
      /\ hook[p].turn = Turn(p) /\ HookLines(p)
      /\ offset.turn = p \div 2
  BY RunningAlone DEF CaptureInv, Enqueue, Running, HooksInv, HookTurn
<1>2. /\ hook' = [hook EXCEPT ![p].at = at]
      /\ buffer' = Append(Truncated(buffer), x)
      /\ truncated' = truncated \cup gone
      /\ queued' = queued \cup {x}
      /\ raced' = IF replay.at = "sending" THEN raced \cup {x} ELSE raced
  BY DEF Enqueue
<1>3. /\ Moves(p) /\ hook'[p].content = hook[p].content /\ hook'[p].turn = Turn(p)
      /\ hook'[p].byte = hook[p].byte /\ hook'[p].at = at
  <2>1. at \in {"save_turn", "ended"}
    OBVIOUS
  <2> HIDE DEF at
  <2> QED  BY <1>1, <1>2, <2>1 DEF CaptureTypeOK, HookStates, Moves
<1>4. /\ at \in {"save_turn", "ended"} /\ (at = "save_turn" => Event(p) = "prompt")
      /\ at = "ended" => Event(p) = "response"
  BY Turns DEF Events
<1>5. x \in Entries /\ \A q \in Hooks : Entry(q)' = Entry(q) /\ (q # p => hook'[q] = hook[q])
  BY <1>1, <1>3, HookShape DEF Entry, Moves, Event
<1>6. /\ Truncated(buffer) \in Seq(Entries) /\ buffer' \in Seq(Entries)
      /\ Elements(Truncated(buffer)) \subseteq Elements(buffer)
      /\ Elements(buffer') = Elements(Truncated(buffer)) \cup {x}
  BY <1>1, <1>2, <1>5, ElementsOfTruncated, ElementsOfAppend DEF CaptureTypeOK
<1>7. gone \subseteq Entries
  BY <1>1, ElementsAre DEF CaptureTypeOK
<1> HIDE DEF x, at, gone
<1>8. CaptureTypeOK'
  BY <1>1, <1>2, <1>3, <1>5, <1>6, <1>7 DEF CaptureTypeOK, Moves
<1>9. HookLines(p)'
  BY <1>1, <1>3, <1>4 DEF HookLines, Event, Running
<1>10. HooksInv'
  BY <1>1, <1>3, <1>4, <1>9, Turns, HooksStep
<1>11. Owned(x)' /\ \A e : Owned(e) => Owned(e)'
  <2>1. Owned(x)'
    BY <1>1, <1>3, <1>4, <1>5 DEF Owned, Past, x
  <2> QED  BY <1>1, <1>3, <1>4, <1>5, <2>1, OwnersStay DEF Past
<1>12. OwnersInv'
  BY <1>1, <1>2, <1>5, <1>11 DEF CaptureInv, OwnersInv, x
<1>13. QueueInv'
  <2>1. /\ Elements(buffer)' = Elements(buffer')
        /\ Elements(replay.todo)' = Elements(replay.todo)
        /\ Elements(replay.failed)' = Elements(replay.failed)
    BY <1>1 DEF Elements
  <2> QED  BY <1>1, <1>2, <1>6, <2>1 DEF CaptureInv, QueueInv
<1>14. OffsetInv'
  <2>1. \A e \in memory \ queued' :
          \/ e.content.lines \subseteq 1..offset.byte
          \/ \E q \in Hooks : hook'[q].at \in {"save", "enqueue"} /\ e = Entry(q)'
    <3> SUFFICES ASSUME NEW e \in memory \ queued, e # x,
                        NEW q \in Hooks, hook[q].at \in {"save", "enqueue"}, e = Entry(q)
                 PROVE  hook'[q].at \in {"save", "enqueue"} /\ e = Entry(q)'
      BY <1>2 DEF CaptureInv, OffsetInv
    <3> QED  BY <1>5 DEF x
  <2> QED  BY <1>1, <2>1 DEF CaptureInv, OffsetInv
<1>15. CapturesKept'
  <2>1. Kept \cup truncated \cup raced \cup {x} \subseteq (Kept \cup truncated \cup raced)'
    <3>1. Kept' = memory' \cup Elements(buffer')
      BY DEF Kept, Elements
    <3>2. Elements(buffer) \subseteq gone \cup Elements(buffer')
      BY <1>6 DEF gone
    <3> QED  BY <1>1, <1>2, <1>6, <3>1, <3>2 DEF Kept
  <2> SUFFICES ASSUME NEW q \in Hooks, hook'[q].at \in {"save", "save_turn", "ended"},
                      hook'[q].content # NoContent
               PROVE  Entry(q)' \in (Kept \cup truncated \cup raced)'
    BY DEF CapturesKept
  <2>2. CASE q = p
    BY <1>5, <2>1, <2>2 DEF x
  <2>3. CASE q # p
    BY <1>5, <2>1, <2>3 DEF CaptureInv, CapturesKept
  <2> QED  BY <2>2, <2>3
<1>16. NoLineTwice'
  BY <1>1, <1>2 DEF CaptureInv, NoLineTwice
<1> QED  BY <1>8, <1>10, <1>12, <1>13, <1>14, <1>15, <1>16 DEF CaptureInv

\* What a step that moves no hook keeps of the hooks.
LEMMA HooksRest ==
  ASSUME CaptureInv, UNCHANGED <<hook, offset>>, memory \subseteq memory',
         \/ UNCHANGED <<transcript, flushed>>
         \/ /\ transcript' = transcript + 1
            /\ flushed' = IF \E p \in Hooks : Event(p) = "response" /\ Running(p)
                          THEN flushed \cup {transcript'} ELSE flushed
  PROVE  HooksInv' /\ \A e : Owned(e) <=> Owned(e)'
<1>1. ASSUME NEW p \in Hooks
      PROVE  HookOrder(p)' /\ HookTurn(p)' /\ HookLines(p)'
  <2>1. HookOrder(p) /\ HookTurn(p) /\ HookLines(p)
    BY DEF CaptureInv, HooksInv
  <2>2. HookOrder(p)' /\ HookTurn(p)'
    BY <2>1 DEF HookOrder, HookTurn, Alone
  <2>3. transcript \in Nat /\ offset.byte \in Nat
    BY CaptureAssumption DEF CaptureInv, CaptureTypeOK
  <2>4. ASSUME Running(p)
        PROVE  /\ hook[p].content.lines \subseteq (offset.byte + 1)..transcript'
               /\ Event(p) = "response" =>
                    (offset.byte + 1)..transcript' \subseteq hook[p].content.lines \cup flushed'
    <3>1. /\ hook[p].content.lines \subseteq (offset.byte + 1)..transcript
          /\ Event(p) = "response" =>
               (offset.byte + 1)..transcript \subseteq hook[p].content.lines \cup flushed
      BY <2>1, <2>4 DEF HookLines
    <3>2. CASE UNCHANGED <<transcript, flushed>>
      BY <3>1, <3>2
    <3>3. CASE transcript' = transcript + 1
      <4>1. (offset.byte + 1)..transcript' \subseteq (offset.byte + 1)..transcript \cup {transcript'}
            /\ (offset.byte + 1)..transcript \subseteq (offset.byte + 1)..transcript'
        BY <2>3, <3>3
      <4>2. flushed \subseteq flushed' /\ (Event(p) = "response" => transcript' \in flushed')
        BY <2>3, <2>4, <3>3
      <4> QED  BY <3>1, <4>1, <4>2
    <3> QED  BY <3>2, <3>3
  <2>5. HookLines(p)'
    BY <2>1, <2>4 DEF HookLines, Running, Event, Entry
  <2> QED  BY <2>2, <2>5
<1>2. \A e : Owned(e) <=> Owned(e)'
  BY DEF Owned, Entry, Event
<1> QED  BY <1>1, <1>2 DEF HooksInv

LEMMA SpeakStep ==
  ASSUME CaptureInv, Speak
  PROVE  CaptureInv'
<1>1. /\ transcript' = transcript + 1 /\ transcript < MaxLines
      /\ UNCHANGED <<hook, offset, buffer, memory, replay, truncated, queued, raced>>
      /\ flushed' = IF \E p \in Hooks : Event(p) = "response" /\ Running(p)
                    THEN flushed \cup {transcript'} ELSE flushed
  BY DEF Speak
<1>2. CaptureTypeOK /\ transcript \in Nat /\ MaxLines \in Nat /\ offset.byte \in Nat
  BY CaptureAssumption DEF CaptureInv, CaptureTypeOK
<1>3. transcript' \in 1..MaxLines /\ transcript' \in 0..MaxLines
  BY <1>1, <1>2
<1>4. CaptureTypeOK'
  BY <1>1, <1>2, <1>3 DEF CaptureTypeOK
<1>5. HooksInv' /\ \A e : Owned(e) <=> Owned(e)'
  BY <1>1, HooksRest
<1>6. OwnersInv' /\ QueueInv' /\ CapturesKept' /\ NoLineTwice'
  BY <1>1, <1>5 DEF CaptureInv, OwnersInv, QueueInv, CapturesKept, NoLineTwice, Kept, Entry,
                    Event, Elements
<1>7. OffsetInv'
  <2>1. offset.byte <= transcript' /\ flushed \subseteq flushed'
    BY <1>1, <1>2 DEF CaptureInv, OffsetInv
  <2> QED  BY <1>1, <2>1 DEF CaptureInv, OffsetInv, Entry, Event
<1> QED  BY <1>4, <1>5, <1>6, <1>7 DEF CaptureInv

\* A replay only brings to memory what had been put into the buffer.
LEMMA ReplayRest ==
  ASSUME CaptureInv, UNCHANGED <<transcript, hook, offset, histVars>>,
         memory \subseteq memory', memory' \subseteq memory \cup queued
  PROVE  HooksInv' /\ OwnersInv' /\ OffsetInv' /\ NoLineTwice'
<1>1. HooksInv' /\ \A e : Owned(e) <=> Owned(e)'
  BY HooksRest DEF histVars
<1>2. OwnersInv'
  BY <1>1 DEF CaptureInv, OwnersInv, histVars
<1>3. memory' \ queued' \subseteq memory \ queued
  BY DEF histVars
<1>4. OffsetInv'
  <2>1. \A e \in memory \ queued :
          \/ e.content.lines \subseteq 1..offset.byte
          \/ \E p \in Hooks : hook'[p].at \in {"save", "enqueue"} /\ e = Entry(p)'
    BY DEF CaptureInv, OffsetInv, Entry, Event
  <2> QED  BY <1>3, <2>1 DEF CaptureInv, OffsetInv, histVars
<1>5. NoLineTwice'
  BY <1>3 DEF CaptureInv, NoLineTwice
<1> QED  BY <1>1, <1>2, <1>4, <1>5

LEMMA KeptStays ==
  ASSUME CaptureInv, UNCHANGED hook,
         Kept \cup truncated \cup raced \subseteq (Kept \cup truncated \cup raced)'
  PROVE  CapturesKept'
BY DEF CaptureInv, CapturesKept, Entry, Event

LEMMA ReplayReadsStep ==
  ASSUME CaptureInv, ReplayReads
  PROVE  CaptureInv'
<1>1. /\ replay' = [at |-> "sending", todo |-> buffer, failed |-> <<>>]
      /\ UNCHANGED <<transcript, hook, offset, buffer, memory, histVars>>
  BY DEF ReplayReads
<1>2. replay'.at = "sending" /\ replay'.todo = buffer /\ replay'.failed = <<>>
  BY <1>1
<1>3. CaptureTypeOK'
  BY <1>1 DEF CaptureInv, CaptureTypeOK, histVars
<1>4. HooksInv' /\ OwnersInv' /\ OffsetInv' /\ NoLineTwice'
  BY <1>1, ReplayRest
<1>5. QueueInv'
  BY <1>1, <1>2, NoElements DEF CaptureInv, QueueInv, histVars, Elements
<1>6. CapturesKept'
  BY <1>1, KeptStays DEF Kept, histVars, Elements
<1> QED  BY <1>3, <1>4, <1>5, <1>6 DEF CaptureInv

LEMMA ReplaySendsStep ==
  ASSUME CaptureInv, ReplaySends
  PROVE  CaptureInv'
<1> DEFINE x == Head(replay.todo)
           todo == Tail(replay.todo)
           failed == Append(replay.failed, x)
<1>1. /\ CaptureTypeOK /\ replay.at = "sending" /\ replay.todo # <<>>
      /\ replay.todo \in Seq(Entries) /\ replay.failed \in Seq(Entries)
      /\ UNCHANGED <<transcript, hook, offset, buffer, histVars>>
  BY DEF ReplaySends, CaptureInv, CaptureTypeOK
<1>2. /\ x \in Entries /\ todo \in Seq(Entries) /\ failed \in Seq(Entries)
      /\ Elements(replay.todo) = {x} \cup Elements(todo)
      /\ Elements(failed) = Elements(replay.failed) \cup {x}
  BY <1>1, ElementsOfTail, ElementsOfAppend
<1>3. /\ \/ memory' = memory \cup {x} /\ replay' = [replay EXCEPT !.todo = todo]
         \/ /\ memory' = memory \cup {x} \/ UNCHANGED memory
            /\ replay' = [replay EXCEPT !.todo = todo, !.failed = failed]
  BY DEF ReplaySends
<1> HIDE DEF x, todo, failed
<1>4. /\ replay' \in [at : {"idle", "sending"}, todo : Seq(Entries), failed : Seq(Entries)]
      /\ replay'.at = "sending" /\ replay'.todo = todo
      /\ \/ memory' = memory \cup {x} /\ replay'.failed = replay.failed
         \/ (memory' = memory \cup {x} \/ UNCHANGED memory) /\ replay'.failed = failed
  BY <1>1, <1>2, <1>3 DEF CaptureTypeOK
<1>5. CaptureTypeOK'
  BY <1>1, <1>2, <1>4 DEF CaptureTypeOK, histVars
<1>6. x \in queued /\ memory \subseteq memory' /\ memory' \subseteq memory \cup queued
  BY <1>2, <1>4 DEF CaptureInv, QueueInv
<1>7. HooksInv' /\ OwnersInv' /\ OffsetInv' /\ NoLineTwice'
  BY <1>1, <1>6, ReplayRest
<1>8. QueueInv'
  <2>1. /\ Elements(buffer)' = Elements(buffer) /\ Elements(replay.todo)' = Elements(todo)
        /\ Elements(replay.failed)' \in {Elements(replay.failed), Elements(failed)}
        /\ x \in memory' \/ Elements(replay.failed)' = Elements(failed)
    BY <1>1, <1>4 DEF Elements
  <2>2. Elements(replay.failed) \subseteq Elements(replay.failed)'
    BY <1>2, <2>1
  <2> QED  BY <1>1, <1>2, <1>6, <2>1, <2>2 DEF CaptureInv, QueueInv, histVars
<1>9. CapturesKept'
  BY <1>1, <1>6, KeptStays DEF Kept, histVars, Elements
<1> QED  BY <1>5, <1>7, <1>8, <1>9 DEF CaptureInv

\* What the file loses when it is rewritten is in memory, or was raced.
LEMMA ReplayRewritesStep ==
  ASSUME CaptureInv, ReplayRewrites
  PROVE  CaptureInv'
<1>1. /\ CaptureTypeOK /\ replay.at = "sending" /\ replay.todo = <<>>
      /\ buffer' = replay.failed /\ replay' = NoReplay
      /\ UNCHANGED <<transcript, hook, offset, memory, histVars>>
  BY DEF ReplayRewrites, CaptureInv
<1>2. replay'.at = "idle" /\ replay'.todo = <<>> /\ replay'.failed = <<>>
  BY <1>1 DEF NoReplay
<1>3. CaptureTypeOK'
  BY <1>1 DEF CaptureTypeOK, NoReplay, histVars
<1>4. HooksInv' /\ OwnersInv' /\ OffsetInv' /\ NoLineTwice'
  BY <1>1, ReplayRest
<1>5. Elements(buffer)' = Elements(replay.failed)
  BY <1>1 DEF Elements
<1>6. QueueInv'
  BY <1>1, <1>2, <1>5, NoElements DEF CaptureInv, QueueInv, histVars
<1>7. Elements(buffer) \subseteq Elements(replay.failed) \cup memory \cup raced
  BY <1>1, NoElements DEF CaptureInv, QueueInv
<1>8. CapturesKept'
  BY <1>1, <1>5, <1>7, KeptStays DEF Kept, histVars
<1> QED  BY <1>3, <1>4, <1>6, <1>8 DEF CaptureInv

LEMMA CaptureStep == CaptureInv /\ [CaptureNext]_captureVars => CaptureInv'
<1> SUFFICES ASSUME CaptureInv, [CaptureNext]_captureVars  PROVE CaptureInv'
  OBVIOUS
<1>1. ASSUME NEW p \in Hooks, HookStep(p)  PROVE CaptureInv'
  BY <1>1, StartPromptStep, StartResponseStep, LoadStep, SendStep, SaveStep, EnqueueStep
     DEF HookStep
<1>2. CASE UNCHANGED captureVars
  <2>1. CaptureTypeOK'
    BY <1>2 DEF CaptureInv, CaptureTypeOK, captureVars, histVars
  <2>2. HooksInv' /\ OwnersInv' /\ OffsetInv' /\ NoLineTwice'
    BY <1>2, ReplayRest DEF captureVars
  <2>3. QueueInv' /\ CapturesKept'
    BY <1>2, KeptStays DEF CaptureInv, QueueInv, captureVars, histVars, Kept, Elements
  <2> QED  BY <2>1, <2>2, <2>3 DEF CaptureInv
<1> QED
  BY <1>1, <1>2, SpeakStep, ReplayReadsStep, ReplaySendsStep, ReplayRewritesStep
     DEF CaptureNext

LEMMA CaptureInvariance == CaptureSpec => []CaptureInv
BY CaptureStarts, CaptureStep, PTL DEF CaptureSpec

\* The capture hooks keep their variables in their types.
THEOREM CaptureTypeCorrect == CaptureSpec => []CaptureTypeOK
<1>1. CaptureInv => CaptureTypeOK
  BY DEF CaptureInv
<1> QED  BY <1>1, CaptureInvariance, PTL

\* What a hook has captured is in memory or in the buffer, but for what the
\* buffer's limit cost and what was put there while a replay was sending.
THEOREM CapturesAreKept == CaptureSpec => []CapturesKept
<1>1. CaptureInv => CapturesKept
  BY DEF CaptureInv
<1> QED  BY <1>1, CaptureInvariance, PTL

\* The offset passes no line that is not in memory, but for those flushed while a
\* response hook ran.
THEOREM NoLineIsSkipped == CaptureSpec => []NoLineSkipped
<1>1. CaptureInv => NoLineSkipped
  BY DEF CaptureInv, OffsetInv, NoLineSkipped, Kept
<1> QED  BY <1>1, CaptureInvariance, PTL

\* No line is written to memory twice unless one of the writes had failed.
THEOREM NoLineIsTwice == CaptureSpec => []NoLineTwice
<1>1. CaptureInv => NoLineTwice
  BY DEF CaptureInv
<1> QED  BY <1>1, CaptureInvariance, PTL

\* Two different captures never share a message id.
THEOREM IdsAreDifferent == CaptureSpec => []IdsDiffer
<1>1. CaptureInv => IdsDiffer
  <2> SUFFICES ASSUME CaptureInv, NEW e \in Kept, NEW f \in Kept,
                      e.turn = f.turn, e.event = f.event
               PROVE  e.content = f.content
    BY DEF IdsDiffer
  <2>1. Owned(e) /\ Owned(f)
    BY DEF CaptureInv, QueueInv, OwnersInv, Kept
  <2>2. PICK p \in Hooks : hook[p].turn = Turn(p) /\ e = Entry(p)
    BY <2>1 DEF Owned
  <2>3. PICK q \in Hooks : hook[q].turn = Turn(q) /\ f = Entry(q)
    BY <2>1 DEF Owned
  <2>4. Turn(p) = Turn(q) /\ Event(p) = Event(q)
    BY <2>2, <2>3 DEF Entry
  <2> QED  BY <2>2, <2>3, <2>4, Turns
<1> QED  BY <1>1, CaptureInvariance, PTL
=============================================================================
