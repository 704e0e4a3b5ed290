---------------------------- MODULE StartupProofs ---------------------------
(***************************************************************************)
(* What the discovery decides and the reasons for which the server goes    *)
(* down, proved for every set of inputs; the confinement of ChildSetup,    *)
(* proved for every set of lists an operator may give, every size of       *)
(* filter and every interpreter; and, from both, the child of a request.   *)
(***************************************************************************)
EXTENDS Startup, LibDiscoveryProofs, FiniteSetTheorems

(* A configuration that has been read.                                      *)
Read == config = InitConfig(input.file, input.env, host)

-----------------------------------------------------------------------------
(* The discovery. *)

(* The script runs in the interpreter the operator has named, which no      *)
(* variable of the server redirects.                                        *)
LEMMA InterpreterIsItsOwn ==
  ASSUME NEW h, NEW python
  PROVE  Interpreter(h, python) = h.install[python]
<1>1. /\ "PYTHONPATH" \in Overrides
      /\ DOMAIN pythonDiscoveryEnv(h) = (Passed \intersect DOMAIN h.env) \union Overrides
  BY DEF Overrides, pythonDiscoveryEnv
<1>2. pythonDiscoveryEnv(h)["PYTHONPATH"] = NoPath
  BY <1>1 DEF pythonDiscoveryEnv
<1>. QED  BY <1>1, <1>2 DEF Interpreter

LibsOf(systemPaths) ==
    IF IsInterpreter
    THEN buildPythonLibPaths(host, pythonLibDiscoveryScript(host, Reported), systemPaths)
    ELSE <<>>

(* The list InitConfig asks for is that of this interpreter.                *)
LEMMA ListFound ==
  ASSUME input \in Inputs
  PROVE  \E systemPaths \in Seq(Path) :
            InitConfig(input.file, input.env, host).PythonLibPaths = LibsOf(systemPaths)
<1>. DEFINE env == input.env
            wanted == EnvPath(env.PYTHON_PATH, input.file.python_path)
            named == IF wanted = NoPath THEN DefaultPython ELSE wanted
            python == resolvePythonPath(host, named)
            system == IF env.SYSTEM_LIB_REQUIREMENTS = <<>> THEN SystemRequirements
                      ELSE Present(env.SYSTEM_LIB_REQUIREMENTS)
            libs == IF python = NoPath THEN <<>> ELSE discoverPythonLibPaths(host, python, system)
<1>1. InitConfig(input.file, input.env, host).PythonLibPaths = libs
  BY DEF InitConfig
<1>2. named = Named
  BY DEF EnvPath, Named
<1>3. NoPath \notin DOMAIN host.install
  BY InputsAssumption, MachinesAssumption DEF host
<1>4. IsInterpreter <=> python \in DOMAIN host.install /\ host.install[python].runs
  BY <1>2, <1>3 DEF IsInterpreter, Program, resolvePythonPath
<1>5. IsInterpreter => host.install[python] = Reported
  BY <1>2, <1>3 DEF IsInterpreter, Reported, Program, resolvePythonPath
<1>6. system \in Seq(Path)
  BY InputsAssumption, SystemAssumption, PresentOnes
<1>. HIDE DEF python, system
<1>7. libs = LibsOf(system)
  BY <1>3, <1>4, <1>5, InterpreterIsItsOwn DEF discoverPythonLibPaths, LibsOf
<1>. QED  BY <1>1, <1>6, <1>7

(* The machine of an input, and what an interpreter on it reports, are what *)
(* the proofs of LibDiscovery are about.                                    *)
LEMMA MachineFits ==
  ASSUME input \in Inputs
  PROVE  IsFileSystem(host) /\ (IsInterpreter => IsReport(host, Reported))
BY InputsAssumption, MachinesAssumption DEF host, IsInterpreter, Reported

(* The roots told from the inputs are those the script takes.               *)
LEMMA RootsAreOwn ==
  ASSUME IsReport(host, Reported), NEW p
  PROVE  p \in OwnRoots <=> p \in Path /\ OwnRoot(host, Reported, p)
<1>. DEFINE i == Reported
            dirs == Existing({i.stdlib, i.platstdlib})
            zips == {z \in Existing(ToSet(i.sysPath)) :
                       Last(z) \in Zips /\ \E d \in dirs : Front(RealPath(z)) = Front(RealPath(d))}
<1>1. i.stdlib \in Path /\ i.platstdlib \in Path /\ i.sysPath \in Seq(Path)
  BY DEF IsReport
<1>2. \A q : q \in ToSet(i.sysPath) <=> Among(q, i.sysPath)
  BY <1>1 DEF ToSet, Among
<1>3. \A q : Among(q, i.sysPath) => q \in Path
  BY <1>1 DEF Among
<1>4. OwnRoots = dirs \union zips
  BY DEF OwnRoots
<1>. HIDE DEF i
<1>5. \A d : d \in dirs <=> d \in Path /\ OwnDir(host, i, d)
  BY <1>1 DEF Existing, OwnDir
<1>6. \A d \in dirs : RealPath(d) = host.files[d]
  BY DEF Existing, RealPath
<1>. HIDE DEF dirs
<1>7. \A z : z \in zips <=> z \in Path /\ OwnZip(host, i, z)
  BY <1>2, <1>3, <1>5, <1>6 DEF Existing, RealPath, OwnZip
<1>. HIDE DEF zips
<1>. QED  BY <1>4, <1>5, <1>7 DEF OwnRoot, i

(* ... and so is what it asks of them.                                      *)
LEMMA HoldsJson ==
  ASSUME NEW p, p \in DOMAIN host.files
  PROVE  Holds(host, Reported, p) <=>
            \E name \in {Clean(p), RealPath(p)} : JsonUnder(RealPath(Reported.json), name)
BY DEF Holds, RealName, RealPath

(* What LibPathsUsable says of the list. *)
ListUsable(paths) ==
    /\ \A i, j \in DOMAIN paths : paths[i] = paths[j] => i = j
    /\ \A i \in DOMAIN paths : Clean(paths[i]) = paths[i] /\ Existing({paths[i]}) # {}
    /\ {Clean(p) : p \in Existing(ToSet(Reported.sysPath) \union {Reported.stdlib})}
         \subseteq ToSet(paths)
    /\ \E i \in DOMAIN paths : JsonUnder(RealPath(Reported.json), RealPath(paths[i]))
                               \/ JsonUnder(Reported.json, paths[i])

(* What DiscoveryDecides and LibPathsUsable say of the list. *)
LEMMA Decided ==
  ASSUME input \in Inputs, NEW c, c = InitConfig(input.file, input.env, host)
  PROVE  /\ c.PythonLibPaths # <<>> <=> Discoverable
         /\ c.PythonLibPaths # <<>> => ListUsable(c.PythonLibPaths)
<1>. DEFINE list == c.PythonLibPaths
            i == Reported
<1>1. PICK systemPaths \in Seq(Path) : list = LibsOf(systemPaths)
  BY ListFound
<1>2. CASE ~IsInterpreter
  BY <1>1, <1>2 DEF LibsOf, Discoverable
<1>3. CASE IsInterpreter
  <2>1. IsFileSystem(host) /\ IsReport(host, i)
    BY <1>3, MachineFits
  <2>2. list = buildPythonLibPaths(host, pythonLibDiscoveryScript(host, i), systemPaths)
    BY <1>1, <1>3 DEF LibsOf
  <2>. HIDE DEF i, list
  <2>3. /\ list # <<>> <=>
              /\ IsAbs(i.stdlib) /\ i.stdlib \in DOMAIN host.files /\ IsAbs(i.json)
              /\ \E p \in Path : OwnRoot(host, i, p) /\ Holds(host, i, p)
        /\ list # <<>> =>
              /\ list \in Seq(Path) /\ Distinct(list)
              /\ \A x : Among(x, list) => Usable(host, x)
              /\ \A p \in Path : /\ IsAbs(p) /\ p \in DOMAIN host.files
                                 /\ p = i.stdlib \/ Among(p, i.sysPath)
                                 => Among(Clean(p), list)
              /\ \E p \in Path : OwnRoot(host, i, p) /\ Holds(host, i, p) /\ Among(Clean(p), list)
    BY <2>1, <2>2, Discovered
  <2>4. \A p : OwnRoot(host, i, p) =>
           IsAbs(p) /\ p \in DOMAIN host.files /\ (p \in {i.stdlib, i.platstdlib} \/ Among(p, i.sysPath))
    BY DEF OwnRoot, OwnDir, OwnZip
  <2>5. Existing({i.stdlib}) # {} <=> IsAbs(i.stdlib) /\ i.stdlib \in DOMAIN host.files
    BY DEF Existing
  <2>6. ASSUME NEW p
        PROVE  /\ p \in OwnRoots <=> p \in Path /\ OwnRoot(host, i, p)
               /\ p \in DOMAIN host.files =>
                    (Holds(host, i, p) <=>
                       \E name \in {Clean(p), RealPath(p)} : JsonUnder(RealPath(i.json), name))
    BY <2>1, RootsAreOwn, HoldsJson DEF i
  <2>7. list # <<>> <=> Discoverable
    <3>1. Discoverable <=>
             /\ Existing({i.stdlib}) # {} /\ IsAbs(i.json)
             /\ \E p \in OwnRoots : \E name \in {Clean(p), RealPath(p)} : JsonUnder(RealPath(i.json), name)
      BY <1>3 DEF Discoverable, i
    <3>. QED  BY <2>3, <2>4, <2>5, <2>6, <3>1
  <2>8. ASSUME list # <<>> PROVE ListUsable(list)
    <3>1. list \in Seq(Path) /\ DOMAIN list = 1 .. Len(list)
      BY <2>3, <2>8
    <3>2. \A j, k \in DOMAIN list : list[j] = list[k] => j = k
      BY <2>3, <2>8, <3>1 DEF Distinct
    <3>3. \A k \in DOMAIN list : Clean(list[k]) = list[k] /\ Existing({list[k]}) # {}
      <4>. TAKE k \in DOMAIN list
      <4>1. Usable(host, list[k])
        BY <2>3, <2>8, <3>1 DEF Among
      <4>. QED  BY <4>1 DEF Usable, Existing
    <3>4. ASSUME NEW p \in Existing(ToSet(i.sysPath) \union {i.stdlib})
          PROVE  Clean(p) \in ToSet(list)
      <4>1. IsAbs(p) /\ p \in DOMAIN host.files /\ (p = i.stdlib \/ Among(p, i.sysPath)) /\ p \in Path
        BY <2>1 DEF Existing, ToSet, Among, IsReport
      <4>2. Among(Clean(p), list)
        BY <2>3, <2>8, <4>1
      <4>. QED  BY <3>1, <4>2 DEF Among, ToSet
    <3>5. \E k \in DOMAIN list : JsonUnder(RealPath(i.json), RealPath(list[k])) \/ JsonUnder(i.json, list[k])
      <4>1. PICK p \in Path : OwnRoot(host, i, p) /\ Holds(host, i, p) /\ Among(Clean(p), list)
        BY <2>3, <2>8
      <4>2. PICK k \in DOMAIN list : list[k] = Clean(p)
        BY <3>1, <4>1 DEF Among
      <4>. DEFINE q == Clean(p)
      <4>3. q \in DOMAIN host.files
        BY <2>3, <2>8, <4>1 DEF Usable
      <4>4. IsAbs(p) /\ p \in DOMAIN host.files
            /\ (p \in {i.stdlib, i.platstdlib} \/ Among(p, i.sysPath))
        BY <2>4, <4>1
      <4>5. host.files[q] = host.files[p]
        BY <2>1, <4>4 DEF IsReport, ToSet, Among
      <4>6. RealPath(q) = host.files[p] /\ RealPath(p) = host.files[p]
        BY <4>3, <4>4, <4>5 DEF RealPath
      <4>7. JsonUnder(RealPath(i.json), q) \/ JsonUnder(RealPath(i.json), host.files[p])
        BY <2>6, <4>1, <4>4, <4>6
      <4>8. CASE JsonUnder(RealPath(i.json), host.files[p])
        BY <4>2, <4>6, <4>8
      <4>9. CASE JsonUnder(RealPath(i.json), q)
        <5>1. CASE i.json \in DOMAIN host.files
          <6>1. RealPath(i.json) = host.files[i.json] /\ IsStrictPrefix(q, host.files[i.json])
            BY <4>9, <5>1 DEF RealPath, JsonUnder
          <6>2. host.files[q] = q
            BY <2>1, <4>3, <5>1, <6>1 DEF IsFileSystem
          <6>. QED  BY <4>2, <4>3, <4>9, <6>2 DEF RealPath
        <5>2. CASE i.json \notin DOMAIN host.files
          BY <4>2, <4>9, <5>2 DEF RealPath
        <5>. QED  BY <5>1, <5>2
      <4>. QED  BY <4>7, <4>8, <4>9
    <3>. QED  BY <3>2, <3>3, <3>4, <3>5 DEF ListUsable, i, list
  <2>. QED  BY <2>7, <2>8 DEF list
<1>. QED  BY <1>2, <1>3

-----------------------------------------------------------------------------
(* The fields of the configuration that decide about the server. *)
LEMMA ConfigFields ==
  ASSUME NEW file, NEW env, NEW h
  PROVE  LET c == InitConfig(file, env, h)
         IN  /\ "PythonPath" \in DOMAIN c
             /\ c.ok <=> /\ file.readable /\ c.PythonLibPaths # <<>>
                         /\ NotANumber \notin env.ALLOWED_SYSCALLS
             /\ c.MaxWorkers = EnvInt(env.MAX_WORKERS, file.max_workers)
             /\ c.Port = EnvInt(env.SANDBOX_PORT, file.port)
             /\ c.LogPath = file.log_path
             /\ c.PythonPipMirrorURL = EnvString(env.PIP_MIRROR_URL, file.python_pip_mirror_url)
             /\ c.PythonDepsUpdateInterval =
                  OrDefault(EnvString(env.PYTHON_DEPS_UPDATE_INTERVAL, file.python_deps_update_interval), "30m")
             /\ c.AllowedSyscalls = IF env.ALLOWED_SYSCALLS # {} THEN env.ALLOWED_SYSCALLS
                                    ELSE file.allowed_syscalls
BY DEF InitConfig

(* What they say about the reasons the operator has given.                  *)
LEMMA Reasons ==
  ASSUME input \in Inputs, Read
  PROVE  /\ "PythonPath" \in DOMAIN config
         /\ config.ok <=> /\ input.file.readable /\ config.PythonLibPaths # <<>>
                          /\ NotANumber \notin input.env.ALLOWED_SYSCALLS
         /\ config.MaxWorkers >= 0 <=> ~(GivenWorkers # Junk /\ GivenWorkers < 0)
         /\ config.Port \in Ports <=> ~(GivenPort # Junk /\ GivenPort \notin Ports)
         /\ config.LogPath = input.file.log_path
         /\ config.PythonPipMirrorURL = GivenMirror
         /\ config.PythonDepsUpdateInterval \in NonPositive <=> GivenInterval \in NonPositive
         /\ config.ok => config.AllowedSyscalls \in Lists
<1>. DEFINE file == input.file
            env == input.env
<1>1. config = InitConfig(file, env, host)
  BY DEF Read
<1>2. /\ file.max_workers \in Int \ {Unset, Junk} /\ file.port \in Int \ {Unset, Junk}
      /\ env.MAX_WORKERS \in Int /\ env.SANDBOX_PORT \in Int
      /\ file.allowed_syscalls \in Lists
      /\ env.ALLOWED_SYSCALLS \in Lists \/ NotANumber \in env.ALLOWED_SYSCALLS
  BY InputsAssumption
<1>3. /\ "PythonPath" \in DOMAIN config
      /\ config.ok <=> /\ file.readable /\ config.PythonLibPaths # <<>>
                       /\ NotANumber \notin env.ALLOWED_SYSCALLS
      /\ config.LogPath = file.log_path
      /\ config.AllowedSyscalls = IF env.ALLOWED_SYSCALLS # {} THEN env.ALLOWED_SYSCALLS
                                  ELSE file.allowed_syscalls
  BY <1>1, ConfigFields
<1>4. config.MaxWorkers >= 0 <=> ~(GivenWorkers # Junk /\ GivenWorkers < 0)
  <2>1. config.MaxWorkers = EnvInt(env.MAX_WORKERS, file.max_workers)
    BY <1>1, ConfigFields
  <2>. QED  BY <1>2, <2>1 DEF EnvInt, GivenWorkers, Given, Unset, Junk
<1>5. config.Port \in Ports <=> ~(GivenPort # Junk /\ GivenPort \notin Ports)
  <2>1. config.Port = EnvInt(env.SANDBOX_PORT, file.port)
    BY <1>1, ConfigFields
  <2>2. 0 \in Ports
    BY DEF Ports
  <2>. QED  BY <1>2, <2>1, <2>2 DEF EnvInt, GivenPort, Given, Unset, Junk
<1>6. config.PythonPipMirrorURL = GivenMirror
  <2>1. config.PythonPipMirrorURL = EnvString(env.PIP_MIRROR_URL, file.python_pip_mirror_url)
    BY <1>1, ConfigFields
  <2>. QED  BY <2>1 DEF EnvString, GivenMirror
<1>7. config.PythonDepsUpdateInterval \in NonPositive <=> GivenInterval \in NonPositive
  <2>1. config.PythonDepsUpdateInterval =
          OrDefault(EnvString(env.PYTHON_DEPS_UPDATE_INTERVAL, file.python_deps_update_interval), "30m")
    BY <1>1, ConfigFields
  <2>2. "" \notin NonPositive /\ "30m" \notin NonPositive
    BY DefaultsStandAssumption
  <2>. QED  BY <2>1, <2>2 DEF EnvString, OrDefault, GivenInterval
<1>8. config.ok => config.AllowedSyscalls \in Lists
  BY <1>2, <1>3
<1>. QED  BY <1>3, <1>4, <1>5, <1>6, <1>7, <1>8

-----------------------------------------------------------------------------
(* What the discovery decides. *)

(* What is told from the inputs alone stays as it is.                       *)
LEMMA SameInput ==
  ASSUME input' = input
  PROVE  /\ (Discoverable' <=> Discoverable) /\ host' = host /\ \A call : Broken(call)' <=> Broken(call)
         /\ GivenWorkers' = GivenWorkers /\ GivenPort' = GivenPort
         /\ GivenMirror' = GivenMirror /\ GivenInterval' = GivenInterval
BY DEF Discoverable, IsInterpreter, Named, Program, Reported, Existing, RealPath,
       OwnRoots, JsonUnder, host, Broken, GivenWorkers, GivenPort, GivenMirror,
       GivenInterval, Given

(* Before the configuration is read there is none.                          *)
Known == input \in Inputs /\ (Read \/ config = [ok |-> FALSE])

(* It is read once, and then stays.                                         *)
LEMMA AlwaysKnown == Spec => []Known
<1>1. Init => Known
  BY DEF Init, Known
<1>2. Known /\ [Next]_vars => Known'
  <2>. SUFFICES ASSUME Known, [Next]_vars PROVE Known'
    OBVIOUS
  <2>1. CASE ReadConfig
    BY <2>1, SameInput DEF ReadConfig, Known, Read
  <2>2. CASE UNCHANGED <<input, config>>
    BY <2>2, SameInput DEF Known, Read
  <2>. QED
    BY <2>1, <2>2 DEF Next, MainStep, FindUser, OpenLog, SetUpRoutes, Listen,
                      StarterStep, EnterRoot, Install, Prepare, StartTicker, Arrive,
                      GetWorker, Descend, DescendantEnds, EndRun, RunCode, ChildRuns, vars, serverVars
<1>. QED  BY <1>1, <1>2, PTL DEF Spec

(* The interpreter is accepted exactly when json is part of its own         *)
(* standard library (python_lib_discovery.go:166-169), on every machine     *)
(* whose files and links fit together, for every layout an interpreter      *)
(* reports.                                                                 *)
THEOREM DiscoveryIsExact == Spec => []DiscoveryDecides
<1>1. Known => DiscoveryDecides
  <2>. SUFFICES ASSUME Known, "PythonPath" \in DOMAIN config
                PROVE  config.PythonLibPaths # <<>> <=> Discoverable
    BY DEF DiscoveryDecides
  <2>1. config # [ok |-> FALSE]
    OBVIOUS
  <2>. QED  BY <2>1, Decided DEF Known, Read
<1>. QED  BY <1>1, AlwaysKnown, PTL

(* The list that is copied into the sandbox names existing, clean, absolute *)
(* paths, none twice, all the interpreter searches and one that holds json  *)
(* (python_lib_discovery.go:170-172, 201-204).                              *)
THEOREM SandboxHasLibrary == Spec => []LibPathsUsable
<1>1. Known => LibPathsUsable
  <2>. SUFFICES ASSUME Known, config.ok PROVE ListUsable(config.PythonLibPaths)
    BY DEF LibPathsUsable, ListUsable
  <2>1. Read /\ input \in Inputs
    BY DEF Known
  <2>2. config.PythonLibPaths # <<>>
    BY <2>1, Reasons
  <2>. QED  BY <2>1, <2>2, Decided DEF Read
<1>. QED  BY <1>1, AlwaysKnown, PTL

-----------------------------------------------------------------------------
(* The reasons for which the server goes down. *)

Phases == {"user", "config", "log", "routes", "listen", "serving", "down"}
Starters == {"none", "install", "pip", "prepare", "ticker", "ticking", "skipped", "dead"}

Configured == phase \in {"log", "routes", "listen", "serving"}

(* The checks that are behind the main goroutine ... *)
MainPassed ==
    /\ phase = "config" \/ Configured => ~Broken("user")
    /\ Configured => config.ok
    /\ phase \in {"routes", "listen", "serving"} => config.LogPath = "" \/ ~Broken("log")
    /\ phase \in {"listen", "serving"} => config.MaxWorkers >= 0
    /\ phase = "serving" => config.Port \in Ports /\ ~Broken("bind")

(* ... and behind the start-up goroutine. *)
StarterPassed ==
    /\ starter \in {"none", "install", "prepare", "ticker", "ticking", "skipped"} => ~strayed
    /\ starter \in {"prepare", "ticker", "ticking", "skipped"} =>
          ~requirements \/ (config.PythonPipMirrorURL \notin Unparsable /\ ~Broken("pip"))
    /\ starter \in {"ticker", "ticking", "skipped"} => ~Broken("copy")
    /\ starter \in {"ticking", "skipped"} => config.PythonDepsUpdateInterval \notin NonPositive

ServerInv ==
    /\ input \in Inputs /\ phase \in Phases /\ starter \in Starters
    /\ requirements \in BOOLEAN
    /\ starter = "pip" => requirements
    /\ starter # "none" => phase \in {"routes", "listen", "serving", "down"}
    /\ phase \in {"routes", "listen", "serving"} => starter # "none"
    /\ Configured \/ starter # "none" => Read
    /\ phase \in {"user", "config"} => starter = "none"
    /\ MainPassed /\ StarterPassed
    /\ phase = "down" => Fatal

(* A server that starts has passed nothing yet.                             *)
LEMMA ServerInit == Init => ServerInv
<1>. SUFFICES ASSUME Init PROVE ServerInv
  OBVIOUS
<1>1. input \in Inputs /\ phase = "user" /\ starter = "none" /\ requirements = FALSE /\ ~strayed
  BY DEF Init
<1>. QED  BY <1>1 DEF ServerInv, Phases, Starters, Configured, MainPassed, StarterPassed

(* ... and so do the reasons.                                               *)
LEMMA SameReasons ==
  ASSUME UNCHANGED <<input, requirements, strayed>>
  PROVE  Fatal' <=> Fatal
<1>1. /\ (Discoverable' <=> Discoverable)
      /\ GivenWorkers' = GivenWorkers /\ GivenPort' = GivenPort
      /\ GivenMirror' = GivenMirror /\ GivenInterval' = GivenInterval
  BY SameInput
<1>. QED  BY <1>1 DEF Fatal, Broken

(* The steps of the child and of the request leave the server as it is, but *)
(* that a Node.js run may leave an installation without its requirements.   *)
LEMMA RequestSteps ==
  ASSUME ServerInv, UNCHANGED <<input, phase, config, requirements, starter>>,
         strayed' = strayed \/ (phase # "down" /\ starter = "pip" /\ strayed' = TRUE)
  PROVE  ServerInv'
<1>1. (Read' <=> Read) /\ (MainPassed' <=> MainPassed)
  BY SameInput DEF Read, MainPassed, Configured
<1>3. StarterPassed'
  <2>1. CASE strayed' = strayed
    BY <2>1, SameInput DEF ServerInv, StarterPassed
  <2>2. CASE starter = "pip"
    BY <2>2 DEF StarterPassed
  <2>. QED  BY <2>1, <2>2
<1>2. phase' = "down" => Fatal'
  BY SameReasons DEF ServerInv
<1>. QED  BY <1>1, <1>2, <1>3 DEF ServerInv, Configured

(* The main goroutine.                                                      *)
LEMMA MainSteps == ASSUME ServerInv, MainStep PROVE ServerInv'
<1>. USE DEF ServerInv, Phases, Starters, Configured
<1>1. input' = input /\ input \in Inputs
  BY DEF MainStep, FindUser, ReadConfig, OpenLog, SetUpRoutes, Listen
<1>2. CASE FindUser
  BY <1>1, <1>2, SameInput DEF FindUser, MainPassed, StarterPassed, Fatal
<1>3. CASE ReadConfig
  <2>1. Read'
    BY <1>1, <1>3, SameInput DEF ReadConfig, Read
  <2>2. phase = "config" /\ phase' = (IF config'.ok THEN "log" ELSE "down") /\ starter' = "none"
        /\ starter = "none" /\ ~Broken("user") /\ UNCHANGED <<requirements, strayed>>
    BY <1>3 DEF ReadConfig, MainPassed
  <2>3. config'.ok <=> /\ input.file.readable /\ config'.PythonLibPaths # <<>>
                       /\ NotANumber \notin input.env.ALLOWED_SYSCALLS
    BY <1>3, ConfigFields DEF ReadConfig
  <2>4. config'.PythonLibPaths # <<>> <=> Discoverable
    BY <1>3, Decided DEF ReadConfig
  <2>5. ~config'.ok => Fatal'
    BY <1>1, <2>3, <2>4, SameInput DEF Fatal
  <2>. QED
    BY <1>1, <2>1, <2>2, <2>5, SameInput DEF MainPassed, StarterPassed
<1>4. CASE OpenLog
  BY <1>1, <1>4, SameInput, Reasons DEF OpenLog, Read, MainPassed, StarterPassed, Fatal
<1>5. CASE SetUpRoutes
  BY <1>1, <1>5, SameInput, Reasons DEF SetUpRoutes, Read, MainPassed, StarterPassed,
                                        Fatal
<1>6. CASE Listen
  BY <1>1, <1>6, SameInput, Reasons DEF Listen, Read, MainPassed, StarterPassed, Fatal
<1>. QED  BY <1>2, <1>3, <1>4, <1>5, <1>6 DEF MainStep

(* The start-up goroutine.                                                  *)
LEMMA StarterSteps == ASSUME ServerInv, StarterStep PROVE ServerInv'
<1>. USE DEF ServerInv, Phases, Starters, Configured
<1>1. UNCHANGED <<input, config, requirements, strayed>> /\ input \in Inputs /\ Read
  BY DEF StarterStep, EnterRoot, Install, Prepare, StartTicker
<1>2. Fatal' <=> Fatal
  BY <1>1, SameReasons
<1>3. phase' = phase \/ (phase' = "down" /\ Fatal)
  BY <1>1, Reasons DEF StarterStep, EnterRoot, Install, Prepare, StartTicker, Fatal
<1>4. StarterPassed'
  BY <1>1, SameInput DEF StarterStep, EnterRoot, Install, Prepare, StartTicker, StarterPassed
<1>5. MainPassed' /\ Read'
  BY <1>1, <1>3, SameInput DEF MainPassed, Read
<1>6. starter # "none" /\ starter' \in Starters \ {"none"} /\ (starter' = "pip" => requirements)
  BY DEF StarterStep, EnterRoot, Install, Prepare, StartTicker
<1>. QED  BY <1>1, <1>2, <1>3, <1>4, <1>5, <1>6

(* Every step of the server.                                                *)
LEMMA ServerStep == ServerInv /\ [Next]_vars => ServerInv'
<1>. SUFFICES ASSUME ServerInv, [Next]_vars PROVE ServerInv'
  OBVIOUS
<1>1. \/ MainStep \/ StarterStep
      \/ /\ UNCHANGED <<input, phase, config, requirements, starter>>
         /\ strayed' = strayed \/ (phase # "down" /\ starter = "pip" /\ strayed' = TRUE)
  BY DEF Next, Arrive, GetWorker, Descend, DescendantEnds, EndRun, RunCode, ChildRuns,
         vars, serverVars
<1>. QED  BY <1>1, MainSteps, StarterSteps, RequestSteps

(* The process ends for one of the listed reasons only, and with none of    *)
(* them left it serves with the start-up goroutine through (server.go:15-40,*)
(* 77-92, cocrrent.go:12, setup.go:127-130), for every file, environment,   *)
(* machine and set of failing calls.                                        *)
THEOREM DownForListedReasons == Spec => []DownIffFatal
<1>1. ServerInv => DownIffFatal
  <2>. SUFFICES ASSUME ServerInv, phase = "serving", starter \in {"skipped", "ticking"}
                PROVE  ~Fatal
    BY DEF DownIffFatal, ServerInv
  <2>1. Read /\ MainPassed /\ StarterPassed /\ input \in Inputs /\ config.ok
    BY DEF ServerInv, Configured, MainPassed
  <2>2. Discoverable
    BY <2>1, Reasons, Decided DEF Read
  <2>. QED  BY <2>1, <2>2, Reasons DEF Fatal, MainPassed, StarterPassed, Configured
<1>. QED  BY <1>1, ServerInit, ServerStep, PTL DEF Spec

-----------------------------------------------------------------------------
(* The child, whatever starts it.                                           *)
(*                                                                          *)
(* Neither CodeIsConfined nor StopsForCause is inductive: one speaks of the *)
(* last step only, the other of a child that is gone.  The invariant says   *)
(* of every step which restrictions are in force by then, and that the      *)
(* filter is not before it is loaded.                                       *)

(* The steps that are left from each restriction on. *)
AfterUid == {"read", "code"}
AfterGid == AfterUid \union {"setuid"}
AfterGroups == AfterGid \union {"setgid"}
AfterFilter == AfterGroups \union {"setgroups"}
AfterCwd == AfterFilter \union {"privileges", "filter"}
AfterRoot == AfterCwd \union {"chdirRoot"}

BeforeFilter == {"none", "chdir", "chroot", "chdirRoot", "privileges", "filter"}

HeldSoFar ==
    /\ at \in AfterRoot => "root" \in held
    /\ at \in AfterCwd => "cwd" \in held
    /\ at \in AfterFilter => "filter" \in held
    /\ at \in AfterGroups => "groups" \in held
    /\ at \in AfterGid => "gid" \in held
    /\ at \in AfterUid => "uid" \in held

Granted(call) == call \in job.list \/ (call = "socket" /\ job.network /\ job.list = {})

ChildInv ==
    /\ ChildTypeOK
    /\ IF at = "none" THEN made = {} ELSE job \in Jobs
    /\ HeldSoFar
    /\ at \in BeforeFilter => "filter" \notin held
    /\ \A call \in made : Granted(call)
    /\ StopsForCause

(* Of the probed calls the filter allows those that the operator's list or  *)
(* the network grants.                                                      *)
LEMMA AllowedIsGranted ==
  ASSUME NEW call \in Probes, job \in Jobs,
         "allow" \in Verdicts(call, job.lang, job.list, job.network)
  PROVE  Granted(call)
<1>1. call \in Allowed(job.lang, job.list, job.network)
  BY DEF Verdicts
<1>2. call \in {"socket", "clone", "mkdir", "execve"}
  BY DEF Probes
<1>3. CASE job.list # {}
  BY <1>1, <1>2, <1>3 DEF Allowed, Granted
<1>4. CASE job.list = {}
  <2>1. call \notin PythonAllow \union NodeAllow
    BY <1>2 DEF PythonAllow, NodeAllow, Common
  <2>2. call \in Network(job.lang) /\ job.network
    BY <1>1, <1>4, <2>1 DEF Allowed, DefaultAllow
  <2>3. call = "socket"
    BY <1>2, <2>2 DEF Network, PythonNetwork, NodeNetwork, CommonNetwork
  <2>. QED
    BY <1>4, <2>2, <2>3 DEF Granted
<1>. QED
  BY <1>3, <1>4

(* A list that is not at fault lets the child finish its set-up.            *)
LEMMA Allows ==
  ASSUME job \in Jobs, ~ListAtFault,
         NEW call \in {"setgroups", "setgid", "setuid"} \union CodeReads
  PROVE  Verdicts(call, job.lang, job.list, job.network) = {"allow"}
<1>1. call \in Common
  BY CodeReadsAssumption DEF Common
<1>2. call \notin PythonError \union NodeError
  BY <1>1 DEF Common, PythonError, NodeError
<1>3. call \in Allowed(job.lang, job.list, job.network)
  <2>1. CASE job.list # {}
    BY <2>1 DEF ListAtFault, Allowed
  <2>2. CASE job.list = {}
    BY <1>1, <2>2 DEF Allowed, DefaultAllow, PythonAllow, NodeAllow
  <2>. QED
    BY <2>1, <2>2
<1>4. call \notin NotKilled(job.lang, job.list)
  BY <1>2 DEF NotKilled
<1>. QED
  BY <1>3, <1>4 DEF Verdicts

(* ... and its filter is accepted: setgroups and at most three calls that   *)
(* are answered with an error are added to a custom list.                   *)
LEMMA Accepted ==
  ASSUME job \in Jobs, ~ListAtFault
  PROVE  Fits(job.lang, job.list, job.network)
<1>1. CASE job.list = {}
  BY <1>1, DefaultsAssumption DEF Jobs
<1>2. CASE job.list # {}
  <2>. DEFINE few == {"setgroups", "clone", "mkdirat", "mkdir"}
              rules == Allowed(job.lang, job.list, job.network) \union NotKilled(job.lang, job.list)
  <2>1. IsFiniteSet(job.list)
    BY ListsAssumption DEF Jobs
  <2>2. IsFiniteSet(few) /\ Cardinality(few) = 4
    <3>1. IsFiniteSet({"setgroups"}) /\ Cardinality({"setgroups"}) = 1
      BY FS_Singleton
    <3>2. IsFiniteSet({"setgroups"} \union {"clone"}) /\ Cardinality({"setgroups"} \union {"clone"}) = 2
      BY <3>1, FS_AddElement
    <3>3. IsFiniteSet({"setgroups", "clone"}) /\ Cardinality({"setgroups", "clone"}) = 2
      <4>1. {"setgroups"} \union {"clone"} = {"setgroups", "clone"}
        OBVIOUS
      <4>. QED
        BY <3>2, <4>1
    <3>4. IsFiniteSet({"setgroups", "clone"} \union {"mkdirat"})
          /\ Cardinality({"setgroups", "clone"} \union {"mkdirat"}) = 3
      BY <3>3, FS_AddElement
    <3>5. IsFiniteSet({"setgroups", "clone", "mkdirat"}) /\ Cardinality({"setgroups", "clone", "mkdirat"}) = 3
      <4>1. {"setgroups", "clone"} \union {"mkdirat"} = {"setgroups", "clone", "mkdirat"}
        OBVIOUS
      <4>. QED
        BY <3>4, <4>1
    <3>6. IsFiniteSet({"setgroups", "clone", "mkdirat"} \union {"mkdir"})
          /\ Cardinality({"setgroups", "clone", "mkdirat"} \union {"mkdir"}) = 4
      BY <3>5, FS_AddElement
    <3>7. {"setgroups", "clone", "mkdirat"} \union {"mkdir"} = few
      OBVIOUS
    <3>. QED
      BY <3>6, <3>7
  <2>3. IsFiniteSet(job.list \union few)
        /\ Cardinality(job.list \union few) <= Cardinality(job.list) + 4
    <3>1. IsFiniteSet(job.list \intersect few) /\ Cardinality(job.list \intersect few) \in Nat
      BY <2>1, FS_Intersection, FS_CardinalityType
    <3>2. Cardinality(job.list) \in Nat
      BY <2>1, FS_CardinalityType
    <3>. HIDE DEF few
    <3>3. IsFiniteSet(job.list \union few)
          /\ Cardinality(job.list \union few)
               = Cardinality(job.list) + Cardinality(few) - Cardinality(job.list \intersect few)
      BY <2>1, <2>2, FS_Union
    <3>. QED
      BY <2>2, <3>1, <3>2, <3>3
  <2>4. rules \subseteq job.list \union few
    BY <1>2 DEF Allowed, NotKilled, PythonError
  <2>5. IsFiniteSet(rules) /\ Cardinality(rules) <= Cardinality(job.list \union few)
    BY <2>3, <2>4, FS_Subset
  <2>6. Cardinality(job.list) + 4 <= MaxRules
    BY <1>2, <2>1, FS_CardinalityType, RulesAssumption DEF ListAtFault
  <2>7. Cardinality(rules) \in Nat /\ Cardinality(job.list \union few) \in Nat /\ Cardinality(job.list) \in Nat
    BY <2>1, <2>3, <2>5, FS_CardinalityType
  <2>. HIDE DEF rules, few
  <2>8. Cardinality(rules) <= MaxRules
    BY <2>3, <2>5, <2>6, <2>7, RulesAssumption
  <2>. QED
    BY <2>8 DEF Fits, rules
<1>. QED
  BY <1>1, <1>2

(* Without a child nothing is held.                                         *)
LEMMA ChildInitInv == ChildInit => ChildInv
BY DEF ChildInit, ChildInv, ChildTypeOK, Steps, HeldSoFar, BeforeFilter, StopsForCause,
       AfterRoot, AfterCwd, AfterFilter, AfterGroups, AfterGid, AfterUid

(* A step that does its calls keeps what is held and adds its own.          *)
LEMMA DoChildInv ==
  ASSUME ChildInv, NEW from, NEW calls, NEW restriction \in SUBSET Restrictions,
         NEW to \in Steps \ {"none", "stopped"}, from # "none", Do(from, calls, restriction, to),
         (at' = to /\ held' = held \union restriction) => HeldSoFar',
         to \in BeforeFilter => "filter" \notin held \union restriction,
         \A call \in calls : Verdict(call) = {"allow"} \/ ListAtFault
  PROVE  ChildInv'
<1>1. at # "none" /\ job \in Jobs /\ UNCHANGED <<job, made>>
  BY DEF Do, ChildInv
<1>2. \/ at' = to /\ held' = held \union restriction /\ failed' = failed
      \/ at' = "stopped" /\ held' = held /\ failed' \in {failed, TRUE}
  BY DEF Do
<1>3. HeldSoFar'
  BY <1>2 DEF HeldSoFar, AfterRoot, AfterCwd, AfterFilter, AfterGroups, AfterGid, AfterUid
<1>4. ChildTypeOK'
  BY <1>1, <1>2 DEF ChildInv, ChildTypeOK, Steps
<1>5. at' = "stopped" => failed' = TRUE \/ ListAtFault
  BY DEF Do, Steps
<1>6. StopsForCause'
  BY <1>1, <1>5 DEF StopsForCause, ListAtFault
<1>7. at' \in BeforeFilter => "filter" \notin held'
  BY <1>2 DEF BeforeFilter
<1>. QED
  BY <1>1, <1>2, <1>3, <1>4, <1>6, <1>7 DEF ChildInv, Granted

(* A step before the filter is loaded ...                                   *)
LEMMA EarlyDo ==
  ASSUME ChildInv, NEW from \in BeforeFilter \ {"none"}, NEW calls,
         NEW restriction \in SUBSET Restrictions,
         NEW to \in Steps \ {"none", "stopped"}, Do(from, calls, restriction, to),
         (at' = to /\ held' = held \union restriction) => HeldSoFar',
         to \in BeforeFilter => "filter" \notin restriction
  PROVE  ChildInv'
<1>1. at \in BeforeFilter /\ "filter" \notin held
  BY DEF Do, ChildInv
<1>2. \A call \in calls : Verdict(call) = {"allow"}
  BY <1>1 DEF Verdict
<1>. QED
  BY <1>1, <1>2, DoChildInv

(* ... and one after.                                                       *)
LEMMA LateDo ==
  ASSUME ChildInv, NEW from \in AfterFilter,
         NEW calls \in SUBSET ({"setgroups", "setgid", "setuid"} \union CodeReads),
         NEW restriction \in SUBSET Restrictions, NEW to \in AfterFilter, Do(from, calls, restriction, to),
         (at' = to /\ held' = held \union restriction) => HeldSoFar'
  PROVE  ChildInv'
<1>. USE DEF AfterFilter, AfterGroups, AfterGid, AfterUid
<1>1. at \in AfterFilter /\ at # "none" /\ job \in Jobs
  BY DEF Do, ChildInv
<1>2. \A call \in calls : Verdict(call) = {"allow"} \/ ListAtFault
  BY <1>1, Allows DEF Verdict
<1>3. to \in Steps \ {"none", "stopped"} /\ to \notin BeforeFilter /\ from # "none"
  BY DEF Steps, BeforeFilter
<1>. QED
  BY <1>2, <1>3, DoChildInv

(* Every step of the child.                                                 *)
LEMMA ChildStepInv == ChildInv /\ [ChildNext]_childVars => ChildInv'
<1>. SUFFICES ASSUME ChildInv, [ChildNext]_childVars PROVE ChildInv'
  OBVIOUS
<1>. USE DEF AfterRoot, AfterCwd, AfterFilter, AfterGroups, AfterGid, AfterUid
<1>1. ASSUME NEW j \in Jobs, Fork(j) PROVE ChildInv'
  BY <1>1 DEF ChildInv, Fork, ChildTypeOK, Steps, HeldSoFar, Granted, BeforeFilter,
              StopsForCause
<1>2. CASE Chdir
  BY <1>2, EarlyDo DEF Chdir, Steps, Restrictions, HeldSoFar, BeforeFilter
<1>3. CASE Chroot
  BY <1>3, EarlyDo DEF Chroot, Steps, Restrictions, HeldSoFar, BeforeFilter
<1>4. CASE ChdirRoot
  <2>1. at = "chdirRoot" /\ HeldSoFar
    BY <1>4 DEF ChdirRoot, Do, ChildInv
  <2>. QED
    BY <1>4, <2>1, EarlyDo DEF ChdirRoot, Steps, Restrictions, HeldSoFar, BeforeFilter
<1>5. CASE SetNoNewPrivs
  BY <1>5 DEF SetNoNewPrivs, ChildInv, ChildTypeOK, Steps, Restrictions, HeldSoFar,
              Granted, BeforeFilter, StopsForCause
<1>6. CASE Seccomp
  <2>1. CASE Do("filter", {"seccomp"}, {"filter"}, "setgroups")
    <3>1. at = "filter" /\ HeldSoFar
      BY <2>1 DEF Do, ChildInv
    <3>. QED
      BY <2>1, <3>1, EarlyDo DEF Steps, Restrictions, HeldSoFar, BeforeFilter
  <2>2. CASE /\ ~Fits(job.lang, job.list, job.network)
             /\ at = "filter" /\ at' = "stopped" /\ UNCHANGED <<job, held, made, failed>>
    <3>1. ListAtFault
      BY <2>2, Accepted DEF ChildInv
    <3>. QED
      BY <2>2, <3>1 DEF ChildInv, ChildTypeOK, Steps, HeldSoFar, Granted, BeforeFilter,
                        StopsForCause, ListAtFault
  <2>. QED
    BY <1>6, <2>1, <2>2 DEF Seccomp
<1>7. CASE Setgroups
  <2>1. at = "setgroups" /\ HeldSoFar
    BY <1>7 DEF Setgroups, Do, ChildInv
  <2>. QED
    BY <1>7, <2>1, LateDo DEF Setgroups, Restrictions, HeldSoFar
<1>8. CASE Setgid
  <2>1. at = "setgid" /\ HeldSoFar
    BY <1>8 DEF Setgid, Do, ChildInv
  <2>. QED
    BY <1>8, <2>1, LateDo DEF Setgid, Restrictions, HeldSoFar
<1>9. CASE Setuid
  <2>1. at = "setuid" /\ HeldSoFar
    BY <1>9 DEF Setuid, Do, ChildInv
  <2>. QED
    BY <1>9, <2>1, LateDo DEF Setuid, Restrictions, HeldSoFar
<1>10. CASE ReadCode
  <2>1. at = "read" /\ HeldSoFar
    BY <1>10 DEF ReadCode, Do, ChildInv
  <2>. QED
    BY <1>10, <2>1, LateDo DEF ReadCode, Restrictions, HeldSoFar
<1>11. ASSUME NEW call \in Probes, CodeCalls(call) PROVE ChildInv'
  <2>1. at = "code" /\ job \in Jobs /\ "filter" \in held /\ UNCHANGED <<job, held, failed>>
    BY <1>11 DEF CodeCalls, ChildInv, HeldSoFar
  <2>2. at' \in {"code", "ended"} /\ made' \in {made, made \union {call}}
    BY <1>11, <2>1 DEF CodeCalls
  <2>3. made' = made \/ "allow" \in Verdicts(call, job.lang, job.list, job.network)
    BY <1>11, <2>1 DEF CodeCalls, Verdict
  <2>4. \A c \in made' : Granted(c)
    BY <2>1, <2>2, <2>3, AllowedIsGranted DEF ChildInv
  <2>5. ChildTypeOK' /\ HeldSoFar'
    BY <2>1, <2>2 DEF ChildInv, ChildTypeOK, Steps, HeldSoFar
  <2>. QED
    BY <2>1, <2>2, <2>4, <2>5 DEF ChildInv, Granted, BeforeFilter, StopsForCause
<1>12. CASE ChildEnds
  BY <1>12 DEF ChildEnds, ChildInv, ChildTypeOK, Steps, HeldSoFar, Granted,
               BeforeFilter, StopsForCause
<1>13. CASE UNCHANGED childVars
  BY <1>13 DEF childVars, ChildInv, ChildTypeOK, HeldSoFar, Granted, StopsForCause,
               ListAtFault
<1>. QED
  BY <1>1, <1>2, <1>3, <1>4, <1>5, <1>6, <1>7, <1>8, <1>9, <1>10, <1>11, <1>12, <1>13
     DEF ChildNext, ChildStep, Confine

(* The invariant of a child's life (add_seccomp.go:17-74).                  *)
THEOREM ChildInvariance == ChildSpec => []ChildInv
BY ChildInitInv, ChildStepInv, PTL DEF ChildSpec

(* A child is at one of its steps, under known restrictions.                *)
THEOREM ChildTypeCorrect == ChildSpec => []ChildTypeOK
<1>1. ChildInv => ChildTypeOK
  BY DEF ChildInv
<1>. QED
  BY ChildInvariance, <1>1, PTL

(* Code runs only in a process that is confined completely, and gets only   *)
(* through calls that the operator grants (add_seccomp.go:17-74,            *)
(* seccomp.go:15-70).                                                       *)
THEOREM Confinement == ChildSpec => []CodeIsConfined
<1>1. ChildInv => CodeIsConfined
  BY DEF ChildInv, HeldSoFar, CodeIsConfined, Granted, Restrictions,
         AfterRoot, AfterCwd, AfterFilter, AfterGroups, AfterGid, AfterUid
<1>. QED
  BY ChildInvariance, <1>1, PTL

(* A child that ends before its code had a call that failed, or its list is *)
(* at fault (add_seccomp.go:51-72, seccomp.go:40-46): a sound list never    *)
(* stops it, however large the list, however many rules fit.                *)
THEOREM StopsOnlyForCause == ChildSpec => []StopsForCause
<1>1. ChildInv => StopsForCause
  BY DEF ChildInv
<1>. QED
  BY ChildInvariance, <1>1, PTL

-----------------------------------------------------------------------------
(* The child of the request. *)

(* Code runs under a configuration that was accepted. *)
Accepts == input \in Inputs /\ (Configured => Read /\ config.ok)

(* Only ReadConfig lets the server go on to be configured.                  *)
LEMMA AcceptsStep == Accepts /\ [Next]_vars => Accepts'
<1>. SUFFICES ASSUME Accepts, [Next]_vars PROVE Accepts'
  OBVIOUS
<1>. USE DEF Accepts, Configured, Read
<1>1. CASE UNCHANGED <<input, phase, config>> \/ (UNCHANGED <<input, config>> /\ phase' = "down")
  BY <1>1, SameInput
<1>2. CASE MainStep
  BY <1>2, SameInput DEF MainStep, FindUser, ReadConfig, OpenLog, SetUpRoutes, Listen
<1>. QED
  BY <1>1, <1>2 DEF Next, StarterStep, EnterRoot, Install, Prepare, StartTicker, Arrive,
                    GetWorker, Descend, DescendantEnds, EndRun, RunCode, ChildRuns, vars, serverVars

(* A configured server has accepted its configuration.                      *)
LEMMA AlwaysAccepts == Spec => []Accepts
<1>1. Init => Accepts
  BY DEF Init, Accepts, Configured
<1>. QED  BY <1>1, AcceptsStep, PTL DEF Spec

(* The server starts a child of one of the jobs of ChildSetup, and then it  *)
(* or the timer do what ChildSetup allows.                                  *)
LEMMA ChildSteps == Accepts /\ [Next]_vars => [ChildNext]_childVars
<1>. SUFFICES ASSUME Accepts, Next, childVars' # childVars PROVE ChildNext
  BY DEF vars
<1>1. CASE ChildRuns
  BY <1>1 DEF ChildRuns, ChildNext
<1>2. ASSUME NEW lang \in Languages, NEW network \in BOOLEAN, RunCode(lang, network) PROVE ChildNext
  <2>. DEFINE j == [lang |-> lang, list |-> config.AllowedSyscalls, network |-> network]
  <2>1. phase = "serving" /\ Fork(j)
    BY <1>2 DEF RunCode
  <2>2. config.AllowedSyscalls \in Lists
    BY <2>1, Reasons DEF Accepts, Configured
  <2>3. j \in Jobs
    BY <2>2 DEF Jobs
  <2>. QED  BY <2>1, <2>3 DEF ChildNext
<1>. QED  BY <1>1, <1>2 DEF Next

(* The child of a configured server is a child of ChildSetup: whatever file *)
(* and environment say, the job it is given is one ChildSetup knows         *)
(* (python.go:94-100, nodejs.go:96-103).                                    *)
THEOREM ServerRunsChild == Spec => ChildSpec
<1>1. Init => ChildInit
  BY DEF Init
<1>. QED  BY <1>1, ChildSteps, AlwaysAccepts, PTL DEF Spec, ChildSpec

(* Therefore no configuration lets code of a request run in a process that  *)
(* is not confined completely (add_seccomp.go:17-74) ...                    *)
THEOREM ServerConfinesCode == Spec => []CodeIsConfined
BY ServerRunsChild, Confinement, PTL

(* ... and none but one with a faulty list keeps it from running.           *)
THEOREM ServerStopsForCause == Spec => []StopsForCause
BY ServerRunsChild, StopsOnlyForCause, PTL
=============================================================================
