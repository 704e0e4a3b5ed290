---------------------------- MODULE SyscallFilter ---------------------------
(***************************************************************************)
(* The system calls a sandboxed child may make: the lists of               *)
(* internal/static/python_syscall and nodejs_syscall (amd64), the choice   *)
(* among them in InitSeccomp (internal/core/lib/python, nodejs) and the    *)
(* filter that Seccomp (internal/core/lib/seccomp.go) makes of the choice. *)
(*                                                                         *)
(* A system call is its name.  A custom list is what ALLOWED_SYSCALLS of   *)
(* the child's environment holds, the empty one if it is not set.          *)
(***************************************************************************)
EXTENDS Integers, FiniteSets

CONSTANT MaxRules  \* as many rules as a program of 4096 bytes holds

ASSUME RulesAssumption == MaxRules \in Nat

(* What both languages need. *)
Common ==
    {"newfstatat", "fstat", "fcntl", "ioctl", "lseek", "write", "close", "openat", "read",
     "futex", "sched_getaffinity", "mmap", "brk", "mprotect", "munmap", "rt_sigreturn",
     "mremap", "madvise", "setgroups", "setgid", "setuid", "getuid", "getpid", "gettid",
     "exit", "exit_group", "tgkill", "rt_sigaction", "sched_yield", "set_robust_list", "rseq",
     "clock_gettime", "gettimeofday", "nanosleep", "epoll_ctl", "time", "rt_sigprocmask",
     "sigaltstack", "eventfd2"}

PythonAllow == Common \union
    {"getdents64", "getppid", "get_robust_list", "epoll_create1", "clock_nanosleep",
     "pselect6", "getrandom"}
NodeAllow == Common \union {"open", "epoll_pwait", "readlink", "dup3"}

PythonError == {"clone", "mkdirat", "mkdir"}
NodeError == {"clone", "clone3"}

CommonNetwork ==
    {"socket", "connect", "bind", "listen", "accept", "sendto", "recvfrom", "getsockname",
     "recvmsg", "getpeername", "setsockopt", "ppoll", "uname", "sendmsg", "getsockopt",
     "fcntl", "fstatfs"}
PythonNetwork == CommonNetwork \union {"sendmmsg", "fstat", "poll", "epoll_pwait"}
NodeNetwork == CommonNetwork

DefaultAllow(lang) == IF lang = "python3" THEN PythonAllow ELSE NodeAllow
Network(lang) == IF lang = "python3" THEN PythonNetwork ELSE NodeNetwork

(* Mutant: nothing is added to a custom list. *)
AllowedNoGroups(lang, custom, network) ==
    IF custom # {} THEN custom
    ELSE DefaultAllow(lang) \union (IF network THEN Network(lang) ELSE {})

(* allowed_syscalls: setgroups is added to a custom list, and the network   *)
(* calls to a default one only.                                             *)
Allowed(lang, custom, network) ==
    IF custom # {} THEN custom \union {"setgroups"}
    ELSE DefaultAllow(lang) \union (IF network THEN Network(lang) ELSE {})

(* allowed_not_kill_syscalls: Python's stay with a custom list, Node.js's   *)
(* do not.                                                                  *)
NotKilled(lang, custom) ==
    IF lang = "python3" THEN PythonError ELSE IF custom = {} THEN NodeError ELSE {}

(* The program of a filter is read with one Read of 4096 bytes.  One that   *)
(* is cut off has a jump beyond its end or no return, and the kernel        *)
(* refuses it.                                                              *)
Fits(lang, custom, network) ==
    Cardinality(Allowed(lang, custom, network) \union NotKilled(lang, custom)) <= MaxRules

(* What the loaded filter does with a call.  AddRule's errors are ignored,  *)
(* so of two rules for one call either may be the one that counts.          *)
Verdicts(call, lang, custom, network) ==
    (IF call \in Allowed(lang, custom, network) THEN {"allow"} ELSE {})
    \union (IF call \in NotKilled(lang, custom) THEN {"errno"} ELSE {})
    \union (IF call \in Allowed(lang, custom, network) \union NotKilled(lang, custom)
            THEN {} ELSE {"kill"})
=============================================================================
