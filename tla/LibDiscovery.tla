---------------------------- MODULE LibDiscovery ----------------------------
(***************************************************************************)
(* How the server finds the library directories of the configured Python   *)
(* (internal/static/python_lib_discovery.go): it runs a script in that     *)
(* interpreter, checks what the script prints and makes a list of paths,   *)
(* which PreparePythonDependenciesEnv copies into the sandbox.             *)
(*                                                                         *)
(* A path is the sequence of its names; an absolute one begins with "/".   *)
(* A host is a record:                                                     *)
(*   files     maps every spelling of a path that exists to its real path  *)
(*   kind      maps a spelling to "program", "plain" or "directory"        *)
(*   lookPath  maps a bare name to the program exec.LookPath finds         *)
(*   env       the environment of the server: variable -> value            *)
(*   install   maps a program to what its interpreter reports: runs (FALSE *)
(*             if the script fails), stdlib, platstdlib, purelib, platlib, *)
(*             sysPath, site and json, the file that "import json" loads   *)
(***************************************************************************)
EXTENDS Integers, Sequences, SequencesExt

CONSTANT Zips  \* the names that end in ".zip"

NoPath == <<>>
IsAbs(p) == p # NoPath /\ p[1] = "/"

(* The elements of a sequence that belong to a set, in their order: SelectSeq *)
(* as a recursive function.                                                 *)
Keep(s, T) ==
    LET keep[k \in 0 .. Len(s)] ==
          IF k = 0 THEN <<>>
          ELSE IF s[k] \in T THEN Append(keep[k - 1], s[k]) ELSE keep[k - 1]
    IN  keep[Len(s)]

Present(paths) == Keep(paths, ToSet(paths) \ {NoPath})

(* filepath.Clean, and os.path.normpath of an absolute path. *)
Clean(path) ==
    LET clean[k \in 0 .. Len(path)] ==
          IF k = 0 THEN <<>>
          ELSE LET done == clean[k - 1]
               IN  CASE path[k] = "." -> done
                     [] path[k] = ".." /\ done = <<"/">> -> done
                     [] path[k] = ".." /\ done \notin {<<>>, <<"/">>} /\ Last(done) # ".." -> Front(done)
                     [] OTHER -> Append(done, path[k])
    IN  clean[Len(path)]

-----------------------------------------------------------------------------
(* The environment of the script, and the interpreter that runs it. *)

Passed == {"PATH", "LANG", "LC_ALL", "LC_CTYPE", "TMPDIR"}
Overrides ==
    {"PYTHONHOME", "PYTHONPATH", "PYTHONUSERBASE", "PYTHONSTARTUP", "PYTHONPLATLIBDIR",
     "PYTHONPYCACHEPREFIX", "PYTHONNOUSERSITE", "PYTHONWARNINGS", "PYTHONCASEOK", "PYTHONUTF8"}

(* Mutant: the server's environment is passed on as it is. *)
InheritedEnv(host) == host.env

(* pythonDiscoveryEnv: what could redirect the interpreter is set to "". *)
pythonDiscoveryEnv(host) ==
    [v \in (Passed \intersect DOMAIN host.env) \union Overrides |->
        IF v \in Overrides THEN NoPath ELSE host.env[v]]

(* CPython: a directory in PYTHONPATH is searched before all others, and a  *)
(* json.py in it is what "import json" loads.                               *)
Interpreter(host, python) ==
    LET env == pythonDiscoveryEnv(host)
        dir == IF "PYTHONPATH" \in DOMAIN env THEN env["PYTHONPATH"] ELSE NoPath
        i == host.install[python]
    IN  IF dir = NoPath THEN i
        ELSE [i EXCEPT !.sysPath = <<dir>> \o @,
                       !.json = IF Append(dir, "json.py") \in DOMAIN host.files
                                THEN Append(dir, "json.py") ELSE @]

-----------------------------------------------------------------------------
(* The script. *)

normalize_existing(host, p) ==
    IF IsAbs(p) /\ p \in DOMAIN host.files THEN Clean(p) ELSE NoPath

Located(host, paths) ==
    Present([k \in DOMAIN paths |-> normalize_existing(host, paths[k])])

(* Where under a root a file lies, if that is where json belongs. *)
canonical_json_relative_path(root, origin) ==
    LET tail == SubSeq(origin, Len(root) + 1, Len(origin))
    IN  IF root # NoPath /\ IsStrictPrefix(root, origin)
           /\ (tail = <<"json.py">> \/ tail[1] = "json")
        THEN tail ELSE NoPath

Root(host, p) == [raw |-> Clean(p), real |-> host.files[p]]

stdlib_roots(host, i) ==
    LET there == Keep(<<i.stdlib, i.platstdlib>>,
                      {p \in {i.stdlib, i.platstdlib} : normalize_existing(host, p) # NoPath})
    IN  [k \in DOMAIN there |-> Root(host, there[k])]

(* Zip files of sys.path that lie beside the standard library. *)
stdlib_zip_paths(host, i) ==
    LET parents == {Front(r.real) : r \in ToSet(stdlib_roots(host, i))}
        zips == Keep(i.sysPath, {p \in ToSet(i.sysPath) :
                   /\ normalize_existing(host, p) # NoPath
                   /\ Last(Clean(p)) \in Zips
                   /\ Front(host.files[p]) \in parents})
    IN  [k \in DOMAIN zips |-> Root(host, zips[k])]

(* Where json lies under a root, by its name or by its real path. *)
Relative(host, i, r) ==
    LET origin == IF i.json \in DOMAIN host.files THEN host.files[i.json] ELSE Clean(i.json)
    IN  IF canonical_json_relative_path(r.raw, origin) # NoPath
        THEN canonical_json_relative_path(r.raw, origin)
        ELSE canonical_json_relative_path(r.real, origin)

(* The first root that holds it. *)
json_home(host, i) ==
    LET roots == stdlib_roots(host, i) \o stdlib_zip_paths(host, i)
        first == SelectInSeq(roots, LAMBDA r : Relative(host, i, r) # NoPath)
    IN  IF IsAbs(i.json) /\ first # 0
        THEN [root |-> roots[first].raw, relative |-> Relative(host, i, roots[first])]
        ELSE [root |-> NoPath, relative |-> NoPath]

pythonLibDiscoveryScript(host, i) ==
    LET zips == stdlib_zip_paths(host, i)
    IN  [Paths |-> Located(host, <<i.stdlib, i.platstdlib, i.purelib, i.platlib>>
                                 \o i.sysPath \o i.site \o <<json_home(host, i).root>>),
         Stdlib |-> i.stdlib,
         Platstdlib |-> i.platstdlib,
         StdlibZipPaths |-> [k \in DOMAIN zips |-> zips[k].raw],
         JSONRelativePath |-> json_home(host, i).relative,
         JSONRoot |-> json_home(host, i).root]

-----------------------------------------------------------------------------
(* What Go makes of it. *)

(* Mutant: symbolic links are resolved. *)
ResolvedPath(host, p) ==
    IF IsAbs(Clean(p)) /\ Clean(p) \in DOMAIN host.files THEN host.files[Clean(p)] ELSE NoPath

(* normalizeAbsolutePath: it looks for the cleaned spelling. *)
normalizeAbsolutePath(host, p) ==
    IF IsAbs(Clean(p)) /\ Clean(p) \in DOMAIN host.files THEN Clean(p) ELSE NoPath

Normalized(host, paths) ==
    Present([k \in DOMAIN paths |-> normalizeAbsolutePath(host, paths[k])])

(* Every path where it first occurs. *)
dedupePaths(paths) ==
    LET firsts == Keep([i \in DOMAIN paths |-> i],
                       {i \in DOMAIN paths : \A j \in 1 .. i - 1 : paths[j] # paths[i]})
    IN  [k \in DOMAIN firsts |-> paths[firsts[k]]]

isCanonicalJSONRelativePath(p) == p = <<"json.py">> \/ (p # NoPath /\ p[1] = "json")

(* <<>> stands for an error: the list of a success holds the standard       *)
(* library.                                                                 *)
buildPythonLibPaths(host, result, systemPaths) ==
    LET allowedJSONRoots == dedupePaths(Normalized(host,
            <<result.Stdlib, result.Platstdlib>> \o result.StdlibZipPaths))
        jsonRootPath == normalizeAbsolutePath(host, result.JSONRoot)
        paths == dedupePaths(allowedJSONRoots \o <<jsonRootPath>>
                    \o Normalized(host, result.Paths) \o Normalized(host, systemPaths))
    IN  IF /\ normalizeAbsolutePath(host, result.Stdlib) # NoPath
           /\ jsonRootPath # NoPath
           /\ Contains(allowedJSONRoots, jsonRootPath)
           /\ isCanonicalJSONRelativePath(result.JSONRelativePath)
        THEN paths ELSE <<>>

(* resolvePythonPath; NoPath stands for an error. *)
resolvePythonPath(host, p) ==
    IF IsAbs(p)
    THEN IF p \in DOMAIN host.kind /\ host.kind[p] = "program" THEN Clean(p) ELSE NoPath
    ELSE IF p \in DOMAIN host.lookPath THEN host.lookPath[p] ELSE NoPath

discoverPythonLibPaths(host, python, systemPaths) ==
    LET i == Interpreter(host, python)
    IN  IF python \in DOMAIN host.install /\ i.runs
        THEN buildPythonLibPaths(host, pythonLibDiscoveryScript(host, i), systemPaths)
        ELSE <<>>
-----------------------------------------------------------------------------
(* What machines and interpreters are like. *)

(* The names of a path hold no "/": only its first may be "/". *)
Path == {p \in Seq(STRING) : \A k \in 2 .. Len(p) : p[k] # "/"}

(* A real path is absolute and goes through no link.                        *)
IsFileSystem(host) ==
    /\ \A p \in DOMAIN host.files : host.files[p] \in Path /\ IsAbs(host.files[p])
    /\ \A p, dir \in DOMAIN host.files :
          IsStrictPrefix(dir, host.files[p]) => host.files[dir] = dir

(* CPython: sysconfig and site report normalised paths, so that Clean does  *)
(* not change what they name ("x/.." does when x is a link).                *)
IsReport(host, i) ==
    /\ {i.stdlib, i.platstdlib, i.purelib, i.platlib, i.json} \subseteq Path
    /\ i.sysPath \in Seq(Path) /\ i.site \in Seq(Path)
    /\ \A p \in {i.stdlib, i.platstdlib} \union ToSet(i.sysPath) :
          IsAbs(p) => /\ p \in DOMAIN host.files <=> Clean(p) \in DOMAIN host.files
                      /\ p \in DOMAIN host.files => host.files[Clean(p)] = host.files[p]
                      /\ Last(p) \in Zips <=> Last(Clean(p)) \in Zips
    /\ i.json \notin DOMAIN host.files => Clean(i.json) = i.json

(* The file is json.py or lies in json/ directly under the root. *)
JsonUnder(file, root) ==
    /\ IsStrictPrefix(root, file)
    /\ file[Len(root) + 1] = "json" \/ file = Append(root, "json.py")
=============================================================================
