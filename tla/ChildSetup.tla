----------------------------- MODULE ChildSetup -----------------------------
(***************************************************************************)
(* A sandboxed child from the end of its library's load to the end of its  *)
(* code: prescript.py and prescript.js, which call DifySeccomp (cmd/lib),  *)
(* and InitSeccomp (internal/core/lib/python, nodejs), which confines the  *)
(* process step by step.  The child starts as root.  A Python child goes   *)
(* to the library's directory; a Node.js child is confined to the one the  *)
(* server process was in when it started, which is the root of its run     *)
(* unless another os.Chdir came between (NodeStartsInItsRoot of            *)
(* SandboxService): which directory it is, is not part of this module.     *)
(*                                                                         *)
(* Any call may fail.  InitSeccomp then returns its error, DifySeccomp     *)
(* panics, and the child ends before it has read the code.  Once the       *)
(* filter is loaded it decides about the calls that are left.              *)
(*                                                                         *)
(* With enable_preload the client's preload runs before all this, with     *)
(* nothing to hold it; it is taken to be off (conf/config.yaml).           *)
(***************************************************************************)
EXTENDS SyscallFilter

CONSTANTS
    Lists,     \* the lists ALLOWED_SYSCALLS may hold; {} if it is not set
    CodeReads  \* the calls an interpreter makes to read its code

ASSUME CodeReadsAssumption == CodeReads \subseteq Common
ASSUME ListsAssumption == \A list \in Lists : IsFiniteSet(list)

VARIABLES
    job,     \* what the child is told: language, list and network
    at,      \* its next step; "stopped" before its code, "ended" otherwise
    held,    \* the restrictions it is under
    made,    \* system calls its code got through
    failed   \* one of its calls has failed by itself

childVars == <<job, at, held, made, failed>>

Languages == {"python3", "nodejs"}

(* The default lists fit into the program of a filter. *)
ASSUME DefaultsAssumption ==
    \A lang \in Languages, network \in BOOLEAN : Fits(lang, {}, network)

Jobs == [lang : Languages, list : Lists, network : BOOLEAN]
NoJob == [lang |-> "none"]
Restrictions == {"root", "cwd", "privileges", "filter", "groups", "gid", "uid"}

(* What the code is seen to try. *)
Probes == {"socket", "clone", "mkdir", "execve"}

ChildInit ==
    /\ job = NoJob
    /\ at = "none" /\ held = {} /\ made = {} /\ failed = FALSE

(* The runner starts the child; prescript.py goes to the library's          *)
(* directory, prescript.js stays where it was started.                      *)
Fork(j) ==
    /\ at = "none" /\ job' = j
    /\ at' = (IF j.lang = "python3" THEN "chdir" ELSE "chroot")
    /\ UNCHANGED <<held, made, failed>>

Verdict(call) ==
    IF "filter" \in held THEN Verdicts(call, job.lang, job.list, job.network) ELSE {"allow"}

(* The calls of a step take effect and the child goes on, or one of them    *)
(* ends the child: it fails by itself, or the filter answers it with an     *)
(* error or a signal.                                                       *)
Do(from, calls, restriction, to) ==
    /\ at = from
    /\ \/ /\ \A call \in calls : "allow" \in Verdict(call)
          /\ at' = to /\ held' = held \union restriction
          /\ UNCHANGED failed
       \/ /\ at' = "stopped" /\ failed' = TRUE
          /\ UNCHANGED held
       \/ /\ \E call \in calls : Verdict(call) # {"allow"}
          /\ at' = "stopped"
          /\ UNCHANGED <<held, failed>>
    /\ UNCHANGED <<job, made>>

Chdir == Do("chdir", {"chdir"}, {}, "chroot")
Chroot == Do("chroot", {"chroot"}, {"root"}, "chdirRoot")
ChdirRoot == Do("chdirRoot", {"chdir"}, {"cwd"}, "privileges")

(* The error of prctl is ignored. *)
SetNoNewPrivs ==
    /\ at = "privileges" /\ at' = "filter"
    /\ held' \in {held, held \union {"privileges"}}
    /\ UNCHANGED <<job, made, failed>>

(* Mutant: a filter that is not accepted is ignored as prctl is. *)
SeccompUnchecked ==
    /\ at = "filter" /\ at' = "setgroups"
    /\ held' = (IF Fits(job.lang, job.list, job.network) THEN held \union {"filter"} ELSE held)
    /\ UNCHANGED <<job, made, failed>>

(* The filter is made and loaded. *)
Seccomp ==
    \/ Fits(job.lang, job.list, job.network) /\ Do("filter", {"seccomp"}, {"filter"}, "setgroups")
    \/ /\ ~Fits(job.lang, job.list, job.network)
       /\ at = "filter" /\ at' = "stopped"
       /\ UNCHANGED <<job, held, made, failed>>

Setgroups == Do("setgroups", {"setgroups"}, {"groups"}, "setgid")
Setgid == Do("setgid", {"setgid"}, {"gid"}, "setuid")
Setuid == Do("setuid", {"setuid"}, {"uid"}, "read")

(* The code is read from descriptor 3. *)
ReadCode == Do("read", CodeReads, {}, "code")

(* The code makes a system call ... *)
CodeCalls(call) ==
    /\ at = "code"
    /\ \/ "allow" \in Verdict(call) /\ made' = made \union {call} /\ UNCHANGED at
       \/ "errno" \in Verdict(call) /\ UNCHANGED <<at, made>>
       \/ "kill" \in Verdict(call) /\ at' = "ended" /\ UNCHANGED made
    /\ UNCHANGED <<job, held, failed>>

(* ... and ends by itself.  The timeout may end the child at any step. *)
ChildEnds ==
    /\ at \notin {"none", "stopped", "ended"} /\ at' = "ended"
    /\ UNCHANGED <<job, held, made, failed>>

Confine == Chdir \/ Chroot \/ ChdirRoot \/ SetNoNewPrivs \/ Seccomp \/ Setgroups \/ Setgid \/ Setuid
ChildStep == Confine \/ ReadCode \/ (\E call \in Probes : CodeCalls(call))
ChildNext == (\E j \in Jobs : Fork(j)) \/ ChildStep \/ ChildEnds

ChildSpec == ChildInit /\ [][ChildNext]_childVars

-----------------------------------------------------------------------------
(* Properties. *)

Steps == {"none", "chdir", "chroot", "chdirRoot", "privileges", "filter", "setgroups", "setgid",
          "setuid", "read", "code", "ended", "stopped"}

ChildTypeOK ==
    /\ job \in Jobs \union {NoJob} /\ at \in Steps
    /\ held \subseteq Restrictions /\ made \subseteq Probes
    /\ failed \in BOOLEAN

(* The code of a client runs only in a process that is in a root, inside    *)
(* the filter, without groups and under the group and user of the run       *)
(* (add_seccomp.go:17-74): whatever fails before, it does not begin.  And a *)
(* call it got through is one the configuration grants: it opens a socket   *)
(* only with the network enabled, and starts no process and runs no other   *)
(* program, unless the operator lists the call.                             *)
CodeIsConfined ==
    /\ at = "code" => Restrictions \ {"privileges"} \subseteq held
    /\ \A call \in made :
          call \in job.list \/ (call = "socket" /\ job.network /\ job.list = {})

ListAtFault ==
    /\ job.list # {}
    /\ \/ ~(({"setgid", "setuid"} \union CodeReads) \subseteq job.list)
       \/ Cardinality(job.list) + 4 > MaxRules

(* The child ends before its code only if one of its calls failed or the    *)
(* operator's list is at fault: it lacks a call that is still to be made    *)
(* when the filter is in force, or has more rules than fit                  *)
(* (add_seccomp.go:51-72, seccomp.go:40-46).  The default lists never do.   *)
StopsForCause == at = "stopped" => failed \/ ListAtFault
=============================================================================
