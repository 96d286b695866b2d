------------------------- MODULE AuthorityContract -------------------------
(***************************************************************************)
(* What the process promises about provider sessions, without operations,  *)
(* mutex, registry or lease: the session that is served is the stored one, *)
(* the one it has just replaced, or one that is being withdrawn.           *)
(* A session is stored once, together with its account, and served only    *)
(* after that; once discarded it never comes back.  Runtime implements it. *)
(***************************************************************************)
EXTENDS Naturals

CONSTANTS Users, NoUser, NoSessions

VARIABLES
    newest,     \* sessions the provider has handed out
    offered,    \* the newest one, while it may still be stored
    stored,     \* the session of the durable aggregate
    bound,      \* the account the aggregate is bound to
    served      \* the session in memory

vars == <<newest, offered, stored, bound, served>>

Init ==
    /\ newest = 0
    /\ offered = NoSessions /\ stored = NoSessions /\ served = NoSessions
    /\ bound = NoUser

\* The provider hands out sessions for a user.
Offer(user) ==
    /\ newest' = newest + 1
    /\ offered' = [user |-> user, token |-> newest']
    /\ UNCHANGED <<stored, bound, served>>

\* The operation fails before anything was stored.
Drop ==
    /\ offered' = NoSessions
    /\ UNCHANGED <<newest, stored, bound, served>>

\* Session and account become durable together, and not while an older session
\* than the stored one is still served.
Store ==
    /\ offered # NoSessions
    /\ served \in {NoSessions, stored}
    /\ stored' = offered
    /\ bound' = offered.user
    /\ offered' = NoSessions
    /\ UNCHANGED <<newest, served>>

\* Only what is durable is served.
Serve ==
    /\ stored # NoSessions
    /\ served' = stored
    /\ UNCHANGED <<newest, offered, stored, bound>>

\* Logout and expiry; the account stays bound.
Discard ==
    /\ stored' = NoSessions
    /\ UNCHANGED <<newest, offered, bound, served>>

Withdraw ==
    /\ served' = NoSessions
    /\ UNCHANGED <<newest, offered, stored, bound>>

\* A new process serves what is stored, unless it has expired.
Restart ==
    /\ offered' = NoSessions
    /\ stored' \in {stored, NoSessions}
    /\ served' = stored'
    /\ UNCHANGED <<newest, bound>>

Next ==
    \/ \E u \in Users : Offer(u)
    \/ Drop \/ Store \/ Serve \/ Discard \/ Withdraw \/ Restart

Spec == Init /\ [][Next]_vars
=============================================================================
