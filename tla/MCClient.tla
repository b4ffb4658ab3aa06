------------------------------ MODULE MCClient ------------------------------
(* KoutenClient on small instances. *)
EXTENDS ClientInvariants

\* One call whose own steps are fair.  Nothing is assumed of the other calls:
\* one of them may hold the gate for ever.
Watched == CHOOSE c \in Calls : TRUE

WatchedSpec == Spec /\ WF_vars(Progress(Watched))

\* Cancellation frees its own call: a read or a put whose context is done
\* returns, also while it waits on the gate behind a call that never finishes
\* (lock's select, client.go:48-50) and after it has taken the token.
CancelReturns ==
    /\ pc[Watched] # "idle"
    /\ op[Watched] # "close"
    /\ ctx[Watched] = "done"
    ~> pc[Watched] = "done"
=============================================================================
