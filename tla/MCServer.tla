------------------------------ MODULE MCServer ------------------------------
(***************************************************************************)
(* A small instance of Server: two customers, two calls, two processes     *)
(* one after the other.                                                    *)
(***************************************************************************)
EXTENDS Server

Ask(op, user, target, cur) ==
    [op |-> op, user |-> user, target |-> target, cur |-> cur]

MCPaymentOwner == [p \in {"p1"} |-> "alice"]

\* Two accounts that one user may open at the same time, an account for
\* somebody else, a currency that does not exist, an own and a foreign list,
\* a user, and a payment asked for by its sender and by its recipient.
MCAsks ==
    {Ask("create", "alice", "alice", "USD"),
     Ask("create", "alice", "bob", "USD"),
     Ask("create", "bob", "bob", "XXX"),
     Ask("list", "alice", "alice", "none"),
     Ask("list", "bob", "alice", "none"),
     Ask("user", "bob", "alice", "none"),
     Ask("user", "bob", "bob", "none"),
     Ask("payment", "alice", "p1", "none"),
     Ask("payment", "bob", "p1", "none")}
=============================================================================
