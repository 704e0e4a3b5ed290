---------------------------- MODULE SandboxConfig ---------------------------
(***************************************************************************)
(* The configuration of the server (internal/static/config.go): a file,    *)
(* the environment over it, defaults for what neither gives, and the paths *)
(* of the interpreter that was found.                                      *)
(*                                                                         *)
(* Numbers keep their value and Booleans of the environment are 0 and 1.   *)
(* A variable that is not set (or empty) is Unset; one that strconv cannot *)
(* read is Junk.  A string is a path or one of a few names; "" is the      *)
(* empty one.  A list of system calls is the set of them, which is all that *)
(* counts.                                                                 *)
(***************************************************************************)
EXTENDS LibDiscovery

CONSTANTS
    DefaultPython,       \* /opt/python/bin/python3
    SystemRequirements   \* defaultSystemLibRequirements

Unset == -1000
Junk == -1001

(* What ALLOWED_SYSCALLS holds where a system call should be. *)
NotANumber == "?"

(* "x, _ = strconv.Atoi(v)": what cannot be read becomes 0. *)
EnvInt(v, cur) == IF v = Unset THEN cur ELSE IF v = Junk THEN 0 ELSE v

(* "x, _ = strconv.ParseBool(v)". *)
EnvBool(v, cur) == IF v = Unset THEN cur ELSE v = 1

(* DEBUG alone keeps the value of the file if it cannot be read. *)
EnvDebug(v, cur) == IF v \in {Unset, Junk} THEN cur ELSE v = 1

EnvString(v, cur) == IF v = "" THEN cur ELSE v
EnvPath(v, cur) == IF v = NoPath THEN cur ELSE v
OrDefault(v, default) == IF v = "" THEN default ELSE v

(* What InitConfig leaves in the global record.  ok is FALSE if it returns  *)
(* an error.  A proxy of the environment counts only when the network is    *)
(* enabled; one of the file always does.                                    *)
InitConfig(file, env, host) ==
    LET wanted == EnvPath(env.PYTHON_PATH, file.python_path)
        python == resolvePythonPath(host, IF wanted = NoPath THEN DefaultPython ELSE wanted)
        system == IF env.SYSTEM_LIB_REQUIREMENTS = <<>> THEN SystemRequirements
                  ELSE Present(env.SYSTEM_LIB_REQUIREMENTS)
        libs == IF python = NoPath THEN <<>> ELSE discoverPythonLibPaths(host, python, system)
        network == EnvBool(env.ENABLE_NETWORK, file.enable_network)
        Proxy(v, cur) == IF network THEN EnvString(v, cur) ELSE cur
    IN  [ok |-> /\ file.readable
                /\ libs # <<>>
                /\ NotANumber \notin env.ALLOWED_SYSCALLS,
         Debug |-> EnvDebug(env.DEBUG, file.debug),
         MaxWorkers |-> EnvInt(env.MAX_WORKERS, file.max_workers),
         MaxRequests |-> EnvInt(env.MAX_REQUESTS, file.max_requests),
         Port |-> EnvInt(env.SANDBOX_PORT, file.port),
         WorkerTimeout |-> EnvInt(env.WORKER_TIMEOUT, file.worker_timeout),
         Key |-> EnvString(env.API_KEY, file.key),
         PythonPath |-> python,
         PythonLibPaths |-> libs,
         PythonPipMirrorURL |-> EnvString(env.PIP_MIRROR_URL, file.python_pip_mirror_url),
         PythonDepsUpdateInterval |->
            OrDefault(EnvString(env.PYTHON_DEPS_UPDATE_INTERVAL, file.python_deps_update_interval), "30m"),
         NodejsPath |-> OrDefault(EnvString(env.NODEJS_PATH, file.nodejs_path), "/usr/local/bin/node"),
         EnableNetwork |-> network,
         EnablePreload |-> EnvBool(env.ENABLE_PRELOAD, file.enable_preload),
         AllowedSyscalls |-> IF env.ALLOWED_SYSCALLS # {} THEN env.ALLOWED_SYSCALLS
                             ELSE file.allowed_syscalls,
         LogPath |-> file.log_path,
         Socks5 |-> Proxy(env.SOCKS5_PROXY, file.socks5),
         Https |-> Proxy(env.HTTPS_PROXY, file.https),
         Http |-> Proxy(env.HTTP_PROXY, file.http)]
=============================================================================
