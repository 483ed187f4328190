---------------------------- MODULE MCIdempotency ----------------------------
EXTENDS Idempotency, TLC

Message(user, key, src, amount, note) ==
    [user |-> user, key |-> key, src |-> src, amount |-> amount, note |-> note]

\* A payment, another payload with the same key and source account, one with
\* the same key and another source account, the same key of another user, a
\* different key, and no key.
AllMessages ==
    {Message("alice", "k1", "USD", 6, "rent"),
     Message("alice", "k1", "USD", 4, "food"),
     Message("alice", "k1", "EUR", 6, "rent"),
     Message("bob",   "k1", "USD", 6, "rent"),
     Message("alice", "k2", "USD", 6, "rent"),
     Message("alice", "",   "USD", 6, "rent")}

MCFunds == [a \in {<<m.user, m.src>> : m \in AllMessages} |-> 10]

CallSymmetry == Permutations(Calls)
=============================================================================
