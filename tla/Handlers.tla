------------------------------ MODULE Handlers ------------------------------
(***************************************************************************)
(* Request handlers and queue jobs of a Node.js process: sequences of      *)
(* awaited calls.  Between two calls a handler is suspended and remembers  *)
(* its local variables; any other handler may run.  A handler is a record  *)
(* whose field at says which call is next.                                 *)
(***************************************************************************)

CONSTANTS
  Api,   \* requests that may run at the same time
  None

VARIABLE handler

Idle == [at |-> "idle"]
At(p, point) == handler[p].at = point
Suspend(p, h) == handler' = [handler EXCEPT ![p] = h]
Begin(p, h) == At(p, "idle") /\ Suspend(p, h)
Finish(p) == Suspend(p, Idle)

HandlersIdle == handler = [p \in Api |-> Idle]

\* The requests are in one of these states; others may share the variable.
HandlersWithin(states) == Api \subseteq DOMAIN handler /\ \A p \in Api : handler[p] \in states
=============================================================================
