---------------------------- MODULE RunContract ----------------------------
(***************************************************************************)
(* What one sandboxed run promises to the runner that launched it.         *)
(*                                                                         *)
(* CaptureOutput either refuses the run (returns an error, and then never  *)
(* calls the exit hook) or accepts it.  An accepted run calls the exit     *)
(* hook exactly once, only after the child has ended, and the caller's     *)
(* answer comes only after the hook.  A runner relies on exactly this to   *)
(* own its UID, its temporary files and its pipe: it frees them itself     *)
(* when the run is refused and leaves them to the hook otherwise.          *)
(*                                                                         *)
(* OutputCapture implements this specification; SandboxService composes    *)
(* requests out of it.                                                     *)
(***************************************************************************)
EXTENDS Naturals

VARIABLES
    phase,   \* "idle", "running", "settled", "answered" or "refused"
    alive,   \* the child process has been started and has not ended
    hooks    \* how often the exit hook has been called

vars == <<phase, alive, hooks>>

Init == /\ phase = "idle"
        /\ alive = FALSE
        /\ hooks = 0

(* CaptureOutput starts the child and returns nil. *)
Launch == /\ phase = "idle"
          /\ phase' = "running"
          /\ alive' = TRUE
          /\ UNCHANGED hooks

(* CaptureOutput returns an error: no child, no hook. *)
Refuse == /\ phase = "idle"
          /\ phase' = "refused"
          /\ UNCHANGED <<alive, hooks>>

(* The child exits or is killed. *)
End == /\ phase = "running"
       /\ alive
       /\ alive' = FALSE
       /\ UNCHANGED <<phase, hooks>>

(* The waiting goroutine calls the exit hook. *)
Settle == /\ phase = "running"
          /\ ~alive
          /\ phase' = "settled"
          /\ hooks' = hooks + 1
          /\ UNCHANGED alive

(* The collecting handler returns the response. *)
Answer == /\ phase = "settled"
          /\ phase' = "answered"
          /\ UNCHANGED <<alive, hooks>>

Next == Launch \/ Refuse \/ End \/ Settle \/ Answer

Spec == Init /\ [][Next]_vars

(* With a child that is bounded by the timeout, every run is decided. *)
FairSpec == Spec /\ WF_vars(Next)
=============================================================================
