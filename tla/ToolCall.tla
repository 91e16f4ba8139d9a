------------------------------ MODULE ToolCall ------------------------------
(***************************************************************************)
(* What a remote tool call promises the agent that makes it, whatever the  *)
(* WebSocket, the reconnections and the timeouts underneath do.            *)
(*                                                                         *)
(* A call that is begun is Open until it succeeds or fails, once.  The     *)
(* tool body runs in Blender at most once.  Success means that it ran and  *)
(* reported success.  Failure promises nothing: the body may have run, may *)
(* still be going to run, or may never run.                                *)
(***************************************************************************)
CONSTANT Calls

VARIABLES
  outcome,  \* what the agent knows of each call
  ran       \* what happened to the call's body in Blender

vars == <<outcome, ran>>

Outcomes == {"unused", "open", "ok", "failed"}
Runs     == {"no", "ok", "error"}

TypeOK == /\ outcome \in [Calls -> Outcomes]
          /\ ran \in [Calls -> Runs]

Init == /\ outcome = [c \in Calls |-> "unused"]
        /\ ran = [c \in Calls |-> "no"]

(* The agent makes the call; it is refused when nobody is connected.       *)
Begin(c) == /\ outcome[c] = "unused"
            /\ \E o \in {"open", "failed"} : outcome' = [outcome EXCEPT ![c] = o]
            /\ UNCHANGED ran

(* The body runs, even when the agent has already been told of a failure.  *)
Run(c) == /\ outcome[c] \in {"open", "failed"}
          /\ ran[c] = "no"
          /\ \E r \in {"ok", "error"} : ran' = [ran EXCEPT ![c] = r]
          /\ UNCHANGED outcome

Succeed(c) == /\ outcome[c] = "open"
              /\ ran[c] = "ok"
              /\ outcome' = [outcome EXCEPT ![c] = "ok"]
              /\ UNCHANGED ran

Fail(c) == /\ outcome[c] = "open"
           /\ outcome' = [outcome EXCEPT ![c] = "failed"]
           /\ UNCHANGED ran

Next == \E c \in Calls : Begin(c) \/ Run(c) \/ Succeed(c) \/ Fail(c)

SafeSpec == Init /\ [][Next]_vars

(* An open call always ends.                                               *)
Spec == SafeSpec /\ \A c \in Calls : WF_vars(Succeed(c) \/ Fail(c))
=============================================================================
