------------------------------ MODULE RpcService ------------------------------
(***************************************************************************)
(* What a remote procedure call library promises its callers, without      *)
(* packets, sessions or retries: a request that was issued is handled once *)
(* by the server, which answers it once, and the caller gets that answer   *)
(* once.  MetaFS builds on this: its handlers are not idempotent (mknod    *)
(* answers kExists and unlink answers kFail to the second copy of a        *)
(* request), so a request that ran twice would be answered wrongly.        *)
(***************************************************************************)
CONSTANT Requests

VARIABLE stage      \* how far each request has come

Stages == {"new", "issued", "handled", "answered", "done"}

Init == stage = [r \in Requests |-> "new"]

(* One request moves from one stage to the next; no stage is repeated. *)
Move(r, from, to) == /\ stage[r] = from
                     /\ stage' = [stage EXCEPT ![r] = to]

Next == \E r \in Requests :
            \/ Move(r, "new", "issued")
            \/ Move(r, "issued", "handled")
            \/ Move(r, "handled", "answered")
            \/ Move(r, "answered", "done")

Spec == Init /\ [][Next]_stage
=============================================================================
