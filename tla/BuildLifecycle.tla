---------------------------- MODULE BuildLifecycle ----------------------------
(***************************************************************************)
(* What the build server promises about one row of its builds table, with *)
(* every queue, process, lock and message left out.  A build is created    *)
(* once, is started by one worker at a time, may be handed back to the     *)
(* queue only by the server itself and only MaxRequeues times, and settles *)
(* exactly once.  BuildQueue implements this specification.                *)
(***************************************************************************)
EXTENDS Integers

CONSTANTS
  Builds,       (* build ids                                               *)
  Agents,       (* remote build agents                                     *)
  MaxRequeues,  (* models.MaxBuildRequeues                                 *)
  None

Settled == {"success", "failed", "canceled"}
Server  == "server"

VARIABLES
  state,        (* builds.status, "none" before the row exists             *)
  holder,       (* who is running the build, None unless it is running     *)
  requeues      (* builds.requeues                                         *)

vars == <<state, holder, requeues>>

Init ==
  /\ state    = [b \in Builds |-> "none"]
  /\ holder   = [b \in Builds |-> None]
  /\ requeues = [b \in Builds |-> 0]

Create(b) ==
  /\ state[b] = "none"
  /\ state' = [state EXCEPT ![b] = "pending"]
  /\ UNCHANGED <<holder, requeues>>

Start(b, w) ==
  /\ state[b] = "pending"
  /\ state'  = [state EXCEPT ![b] = "running"]
  /\ holder' = [holder EXCEPT ![b] = w]
  /\ UNCHANGED requeues

(* Only the server's own attempts go back to the queue: an agent may have  *)
(* uploaded half a release by the time it is lost.                         *)
Requeue(b) ==
  /\ state[b] = "running"
  /\ holder[b] = Server
  /\ requeues[b] < MaxRequeues
  /\ state'    = [state EXCEPT ![b] = "pending"]
  /\ holder'   = [holder EXCEPT ![b] = None]
  /\ requeues' = [requeues EXCEPT ![b] = @ + 1]

(* A queued build can be given up on, but it cannot succeed.               *)
Abandon(b, s) ==
  /\ state[b] = "pending"
  /\ s \in {"failed", "canceled"}
  /\ state' = [state EXCEPT ![b] = s]
  /\ UNCHANGED <<holder, requeues>>

Settle(b, s) ==
  /\ state[b] = "running"
  /\ s \in Settled
  /\ state'  = [state EXCEPT ![b] = s]
  /\ holder' = [holder EXCEPT ![b] = None]
  /\ UNCHANGED requeues

Next ==
  \E b \in Builds :
    \/ Create(b)
    \/ \E w \in Agents \cup {Server} : Start(b, w)
    \/ Requeue(b)
    \/ \E s \in Settled : Abandon(b, s) \/ Settle(b, s)

Spec == Init /\ [][Next]_vars
===============================================================================
