----------------------------- MODULE MCStartup ------------------------------
(***************************************************************************)
(* Startup for model checking: one machine with an interpreter for every   *)
(* way the standard library can be laid out, and the files and variables   *)
(* that differ from a working configuration in one or two values.          *)
(***************************************************************************)
EXTENDS Startup

Opt(tail) == <<"/", "opt">> \o tail
Lib == Opt(<<"py", "lib">>)          \* a link to RealLib
RealLib == Opt(<<"cpython", "lib">>)
Plat == Opt(<<"py", "plat">>)
Site == Append(Lib, "site-packages") \* inside the standard library
OwnZip == Opt(<<"py", "py.zip">>)
FarZip == <<"/", "srv", "app.zip">>
Shadow == <<"/", "srv", "app">>
Resolv == <<"/", "etc", "resolv.conf">>
Dotted == Opt(<<"py", "bin", "..", "lib">>)

Plain(p) == p :> p
MCLinks ==
    Lib :> RealLib @@ Dotted :> RealLib @@ Plain(RealLib)
    @@ Plain(Plat) @@ Site :> Append(RealLib, "site-packages")
    @@ OwnZip :> Opt(<<"cpython", "py.zip">>) @@ Plain(FarZip) @@ Plain(Shadow)
    @@ Plain(Append(Shadow, "json.py"))
    @@ Resolv :> <<"/", "run", "resolv.conf">>
    @@ Lib \o <<"json", "init">> :> RealLib \o <<"json", "init">>
    @@ Lib \o <<"jsonlib", "json.py">> :> RealLib \o <<"jsonlib", "json.py">>
    @@ Site \o <<"json", "init">> :> RealLib \o <<"site-packages", "json", "init">>
    @@ Plain(Append(Plat, "json.py"))

MCProgram(name) == Opt(<<"bin", name>>)
MCDefaultPython == MCProgram("python3")
Good == [runs |-> TRUE, stdlib |-> Lib, platstdlib |-> Lib, purelib |-> Site, platlib |-> Site,
         sysPath |-> <<OwnZip, Lib, Opt(<<"py", "dynload">>), Site, <<"relative">>>>,
         site |-> <<Site>>, json |-> Lib \o <<"json", "init">>]
MCInstall ==
    MCDefaultPython :> Good
    @@ MCProgram("dotted") :> [Good EXCEPT !.stdlib = Dotted, !.platstdlib = NoPath]
    @@ MCProgram("zipped") :> [Good EXCEPT !.stdlib = Opt(<<"py", "lib">>), !.json = OwnZip \o <<"json", "init">>]
    @@ MCProgram("plat") :> [Good EXCEPT !.platstdlib = Plat, !.json = Append(Plat, "json.py")]
    @@ MCProgram("farzip") :> [Good EXCEPT !.sysPath = <<FarZip>> \o @, !.json = FarZip \o <<"json", "init">>]
    @@ MCProgram("thirdparty") :> [Good EXCEPT !.json = Site \o <<"json", "init">>]
    @@ MCProgram("prefix") :> [Good EXCEPT !.json = Lib \o <<"jsonlib", "json.py">>]
    @@ MCProgram("builtin") :> [Good EXCEPT !.json = NoPath]
    @@ MCProgram("nolib") :> [Good EXCEPT !.stdlib = Opt(<<"gone">>)]
    @@ MCProgram("old") :> [Good EXCEPT !.runs = FALSE]

MCKind == [p \in DOMAIN MCInstall \union {Shadow, Resolv} |->
             CASE p = Shadow -> "directory" [] p = Resolv -> "plain" [] OTHER -> "program"]
Machine == [files |-> MCLinks, kind |-> MCKind, install |-> MCInstall,
            lookPath |-> <<"python3">> :> MCProgram("plat"),
            env |-> "PATH" :> <<"bin">>]
MCMachines == "plain" :> Machine
              @@ "redirected" :> [Machine EXCEPT !.env = @ @@ "PYTHONPATH" :> Shadow]
MCSystem == <<Resolv, <<"/", "etc", "gone">>>>

(* Lists: one lacks setuid, one has too many calls, one is good and grants *)
(* clone.                                                                  *)
MCShort == {"setgid", "fstat", "lseek", "read", "execve"}
MCLong == PythonAllow \union NodeAllow \union PythonNetwork
MCGood == {"setgid", "setuid", "fstat", "lseek", "read", "clone"}
MCLists == {{}, MCShort, MCLong, MCGood}

MCFile == [readable |-> TRUE, debug |-> TRUE, max_workers |-> 4, max_requests |-> 50,
           port |-> 8194, worker_timeout |-> 5, key |-> "key", python_path |-> NoPath,
           python_pip_mirror_url |-> "", python_deps_update_interval |-> "", nodejs_path |-> "",
           enable_network |-> TRUE, enable_preload |-> FALSE, allowed_syscalls |-> {},
           log_path |-> "logs", socks5 |-> "", https |-> "", http |-> ""]
MCFiles ==
    {MCFile, [MCFile EXCEPT !.readable = FALSE], [MCFile EXCEPT !.log_path = "", !.allowed_syscalls = MCLong],
     [MCFile EXCEPT !.max_workers = 0, !.worker_timeout = 0],
     [MCFile EXCEPT !.max_requests = 0, !.python_deps_update_interval = "never"],
     [MCFile EXCEPT !.allowed_syscalls = MCGood],
     [MCFile EXCEPT !.python_pip_mirror_url = "://", !.enable_network = FALSE]}
MCEnv == [MAX_WORKERS |-> Unset, MAX_REQUESTS |-> Unset, SANDBOX_PORT |-> Unset,
          WORKER_TIMEOUT |-> Unset, DEBUG |-> Unset, ENABLE_NETWORK |-> Unset,
          ENABLE_PRELOAD |-> Unset, API_KEY |-> "", PYTHON_PATH |-> NoPath,
          SYSTEM_LIB_REQUIREMENTS |-> <<>>, PIP_MIRROR_URL |-> "",
          PYTHON_DEPS_UPDATE_INTERVAL |-> "", NODEJS_PATH |-> "", ALLOWED_SYSCALLS |-> {},
          SOCKS5_PROXY |-> "", HTTPS_PROXY |-> "", HTTP_PROXY |-> ""]
Pythons == DOMAIN MCKind \union {NoPath, <<"python3">>, <<"python2">>, Opt(<<"gone">>)}
MCEnvs ==
    {[MCEnv EXCEPT !.MAX_WORKERS = n] : n \in {Junk, -1, 0, 1, 100}}
    \union {[MCEnv EXCEPT !.WORKER_TIMEOUT = n, !.MAX_WORKERS = 2] : n \in {Junk, 0, 3}}
    \union {[MCEnv EXCEPT !.MAX_REQUESTS = n, !.DEBUG = Junk] : n \in {Junk, 1}}
    \union {[MCEnv EXCEPT !.SANDBOX_PORT = n, !.ENABLE_NETWORK = 0] : n \in {Junk, -1, 80, 65536}}
    \union {[MCEnv EXCEPT !.PIP_MIRROR_URL = s] : s \in {"", "://", "mirror"}}
    \union {[MCEnv EXCEPT !.PYTHON_DEPS_UPDATE_INTERVAL = s] : s \in {"0s", "never", "1h"}}
    \union {[MCEnv EXCEPT !.ALLOWED_SYSCALLS = l] : l \in {MCShort, MCShort \union {NotANumber}}}
    \union {[MCEnv EXCEPT !.SYSTEM_LIB_REQUIREMENTS = <<Resolv, NoPath, RealLib, Resolv>>]}

MCInputs ==
    [file : {MCFile}, env : MCEnvs, host : {"plain"}, broken : {{}}]
    \union [file : MCFiles, host : {"plain"}, broken : {{}},
            env : {e \in MCEnvs : e.SANDBOX_PORT # Unset \/ e.MAX_WORKERS \in {1, Junk}}]
    \union [file : {MCFile}, host : {"plain", "redirected"}, broken : {{}},
            env : {[MCEnv EXCEPT !.PYTHON_PATH = p] : p \in Pythons}]
    \union [file : MCFiles, env : {MCEnv}, host : {"plain"},
            broken : {{"user"}, {"log"}, {"bind"}, {"pip"}, {"copy"}}]
=============================================================================
