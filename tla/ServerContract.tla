--------------------------- MODULE ServerContract ---------------------------
(***************************************************************************)
(* What the SOCKS server promises the supervisor: the abstract             *)
(* specification that SocksServer implements and Supervisor builds on.     *)
(***************************************************************************)
EXTENDS Naturals

VARIABLES
    serve,          \* Serve is running, stopped (returned nil) or failed
    busy,           \* handlers are active
    serverStop,     \* Shutdown has not been called, waits, or is done
    ctxDone,        \* the context of Serve is cancelled
    deadline        \* the context of Shutdown has expired

contractVars == <<serve, busy, serverStop, ctxDone, deadline>>

ContractTypeOK ==
    /\ serve \in {"running", "stopped", "failed"}
    /\ busy \in BOOLEAN
    /\ serverStop \in {"idle", "waiting", "done"}
    /\ ctxDone \in BOOLEAN
    /\ deadline \in BOOLEAN

ContractInit ==
    /\ serve = "running"
    /\ busy = FALSE
    /\ serverStop = "idle"
    /\ ctxDone = FALSE
    /\ deadline = FALSE

\* Serve returns nil only when it was told to stop.
ServeReturns ==
    /\ serve = "running"
    /\ \/ serve' = "stopped" /\ (ctxDone \/ serverStop # "idle")
       \/ serve' = "failed"
    /\ UNCHANGED <<busy, serverStop, ctxDone, deadline>>

\* No handler starts once Shutdown has been called.
Handlers ==
    /\ \/ ~busy /\ serve = "running" /\ serverStop = "idle" /\ busy' = TRUE
       \/ busy /\ busy' = FALSE
    /\ UNCHANGED <<serve, serverStop, ctxDone, deadline>>

ShutdownCalled ==
    /\ serverStop = "idle"
    /\ serverStop' = "waiting"
    /\ UNCHANGED <<serve, busy, ctxDone, deadline>>

\* Shutdown waits for the handlers or for its deadline.
ShutdownReturns ==
    /\ serverStop = "waiting"
    /\ ~busy \/ deadline
    /\ serverStop' = "done"
    /\ UNCHANGED <<serve, busy, ctxDone, deadline>>

ContextCancelled ==
    /\ ~ctxDone /\ ctxDone' = TRUE
    /\ UNCHANGED <<serve, busy, serverStop, deadline>>

DeadlineExpires ==
    /\ ~deadline /\ deadline' = TRUE
    /\ UNCHANGED <<serve, busy, serverStop, ctxDone>>

ContractNext ==
    \/ ServeReturns \/ Handlers \/ ShutdownCalled \/ ShutdownReturns
    \/ ContextCancelled \/ DeadlineExpires

ContractSpec == ContractInit /\ [][ContractNext]_contractVars
=============================================================================
