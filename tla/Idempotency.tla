----------------------------- MODULE Idempotency -----------------------------
(***************************************************************************)
(* The idempotency middleware around the payment endpoints                 *)
(* (internal/middleware/idempotency.go), its table, and what it protects:  *)
(* the payment service, whose last defence is the unique index on          *)
(* (idempotency_key, source_account_id).                                   *)
(*                                                                         *)
(* Every HTTP call is a goroutine that looks the key up, runs the handler  *)
(* and stores the recorded response, in three steps with nothing held in   *)
(* between.  The client has its answer before it is stored.  Clients       *)
(* repeat calls as they please, also while the first one is running.       *)
(***************************************************************************)
EXTENDS Integers, FiniteSets

CONSTANTS
    Calls,        \* HTTP calls
    Messages,     \* what they may say: [user, key, src, amount, note]
    InitFunds,    \* <<user, src>> |-> balance of that source account
    CacheExpires  \* whether 24 hours may pass

ASSUME IdempotencyAssumption ==
    /\ CacheExpires \in BOOLEAN
    /\ \A m \in Messages :
          DOMAIN m = {"user", "key", "src", "amount", "note"} /\ m.amount \in Nat \ {0}
    /\ InitFunds \in [{<<m.user, m.src>> : m \in Messages} -> Nat]

VARIABLES
    pc,       \* call |-> how far it is
    msg,      \* partial: call |-> what it says
    reply,    \* call |-> the response it was given, if any
    cache,    \* the rows of idempotency_cache
    payments, \* the payments made: [call, msg]
    funds     \* <<user, src>> |-> balance

vars == <<pc, msg, reply, cache, payments, funds>>

\* Responses that the properties tell apart.  A success names its payment by
\* the call that made it.
NoReply  == [code |-> "none"]
Refusals == {[code |-> c] : c \in {"bad_request", "idempotency_conflict",
             "insufficient_funds", "duplicate_payment", "internal_error"}}
Created(c) == [code |-> "created", payment |-> c]
Replies  == Refusals \cup {Created(c) : c \in Calls}

IdempotencyTypeOK ==
    /\ pc \in [Calls -> {"new", "handle", "store", "done"}]
    /\ DOMAIN msg \subseteq Calls /\ \A c \in DOMAIN msg : msg[c] \in Messages
    /\ reply \in [Calls -> Replies \cup {NoReply}]
    /\ cache \subseteq [user : {m.user : m \in Messages}, key : {m.key : m \in Messages},
                        hash : Messages, reply : Replies, live : BOOLEAN]
    /\ \A e, f \in cache : e.user = f.user /\ e.key = f.key => e = f
    /\ payments \subseteq [call : Calls, msg : Messages]
    /\ funds \in [DOMAIN InitFunds -> Nat]

-----------------------------------------------------------------------------
Say(c, m) == msg' = [d \in DOMAIN msg \cup {c} |-> IF d = c THEN m ELSE msg[d]]

Go(c, to)     == pc' = [pc EXCEPT ![c] = to]
Answer(c, r)  == reply' = [reply EXCEPT ![c] = r]

\* IdempotencyRepository.Get: rows past expires_at do not count.
Hits(m) == {e \in cache : e.user = m.user /\ e.key = m.key /\ e.live}

\* Faulty variant: no comparison of the request hashes.
HashIgnored(e, m) == TRUE

\* computeHash over method, path and body.
HashMatches(e, m) == e.hash = m

Arrive(c, m) ==
    /\ pc[c] = "new"
    /\ Say(c, m)

MissingKey(c, m) ==
    /\ Arrive(c, m)
    /\ m.key = ""
    /\ Answer(c, [code |-> "bad_request"])
    /\ Go(c, "done")
    /\ UNCHANGED <<cache, payments, funds>>

LookUpError(c, m) ==
    /\ Arrive(c, m)
    /\ m.key # ""
    /\ Answer(c, [code |-> "internal_error"])
    /\ Go(c, "done")
    /\ UNCHANGED <<cache, payments, funds>>

\* Replay, or conflict with an earlier request.
CacheHit(c, m) ==
    /\ Arrive(c, m)
    /\ m.key # ""
    /\ \E e \in Hits(m) :
          Answer(c, IF HashMatches(e, m) THEN e.reply
                    ELSE [code |-> "idempotency_conflict"])
    /\ Go(c, "done")
    /\ UNCHANGED <<cache, payments, funds>>

CacheMiss(c, m) ==
    /\ Arrive(c, m)
    /\ m.key # ""
    /\ Hits(m) = {}
    /\ Go(c, "handle")
    /\ UNCHANGED <<reply, cache, payments, funds>>

-----------------------------------------------------------------------------
(***************************************************************************)
(* next.ServeHTTP: the payment transaction, in the order of its checks.    *)
(***************************************************************************)
Source(m) == <<m.user, m.src>>

Funded(m) == funds[Source(m)] >= m.amount

\* Faulty variant: no idx_payments_idempotency_key.
KeyUnchecked(m) == FALSE

KeyUsed(m) ==
    \E p \in payments : p.msg.key = m.key /\ Source(p.msg) = Source(m)

Pay(c) ==
    /\ Funded(msg[c]) /\ ~KeyUsed(msg[c])
    /\ payments' = payments \cup {[call |-> c, msg |-> msg[c]]}
    /\ funds' = [funds EXCEPT ![Source(msg[c])] = @ - msg[c].amount]

Handle(c) ==
    /\ pc[c] = "handle"
    /\ \/ Pay(c) /\ Answer(c, Created(c))
       \/ /\ ~Funded(msg[c])
          /\ Answer(c, [code |-> "insufficient_funds"])
          /\ UNCHANGED <<payments, funds>>
       \/ /\ Funded(msg[c]) /\ KeyUsed(msg[c])
          /\ Answer(c, [code |-> "duplicate_payment"])
          /\ UNCHANGED <<payments, funds>>
    /\ Go(c, "store")
    /\ UNCHANGED <<msg, cache>>

\* The transaction is rolled back, or it commits and the answer to the COMMIT
\* is lost: both end in a 500, which is stored like any other response.
HandleError(c) ==
    /\ pc[c] = "handle"
    /\ Pay(c) \/ UNCHANGED <<payments, funds>>
    /\ Answer(c, [code |-> "internal_error"])
    /\ Go(c, "store")
    /\ UNCHANGED <<msg, cache>>

\* Faulty variant: a plain INSERT without the primary key.
StoreAgain(c) ==
    /\ pc[c] = "store"
    /\ cache' = cache \cup {[user |-> msg[c].user, key |-> msg[c].key,
                            hash |-> msg[c], reply |-> reply[c], live |-> TRUE]}
    /\ Go(c, "done")
    /\ UNCHANGED <<msg, reply, payments, funds>>

\* Set: ON CONFLICT DO NOTHING, also when the row it meets has expired.
Store(c) ==
    /\ pc[c] = "store"
    /\ cache' = IF \E e \in cache : e.user = msg[c].user /\ e.key = msg[c].key
                THEN cache
                ELSE cache \cup {[user |-> msg[c].user, key |-> msg[c].key,
                                  hash |-> msg[c], reply |-> reply[c], live |-> TRUE]}
    /\ Go(c, "done")
    /\ UNCHANGED <<msg, reply, payments, funds>>

\* Set fails, or the process dies: before the transaction, or after it and
\* before the response is stored or even sent.
StoreError(c) ==
    /\ pc[c] = "store"
    /\ Go(c, "done")
    /\ UNCHANGED <<msg, reply, cache, payments, funds>>

Crash(c) ==
    /\ \/ pc[c] = "handle" /\ UNCHANGED reply
       \/ pc[c] = "store" /\ Answer(c, NoReply)
    /\ Go(c, "done")
    /\ UNCHANGED <<msg, cache, payments, funds>>

Expire(e) ==
    /\ CacheExpires
    /\ e.live
    /\ cache' = (cache \ {e}) \cup {[e EXCEPT !.live = FALSE]}
    /\ UNCHANGED <<pc, msg, reply, payments, funds>>

IdempotencyInit ==
    /\ pc = [c \in Calls |-> "new"]
    /\ msg = [c \in {} |-> c]
    /\ reply = [c \in Calls |-> NoReply]
    /\ cache = {}
    /\ payments = {}
    /\ funds = InitFunds

IdempotencyNext ==
    \/ \E c \in Calls, m \in Messages :
          MissingKey(c, m) \/ LookUpError(c, m) \/ CacheHit(c, m) \/ CacheMiss(c, m)
    \/ \E c \in Calls :
          Handle(c) \/ HandleError(c) \/ Store(c) \/ StoreError(c) \/ Crash(c)
    \/ \E e \in cache : Expire(e)

IdempotencySpec == IdempotencyInit /\ [][IdempotencyNext]_vars

-----------------------------------------------------------------------------
(***************************************************************************)
(* Properties                                                              *)
(***************************************************************************)
\* The money of one request moves once, however often and however close
\* together the client repeats it, through crashes, unstored responses and
\* expired ones.
PaidAtMostOnce ==
    \A p, q \in payments : p.msg = q.msg => p = q

\* A success, first-hand or replayed, is about a payment that exists and that
\* does what this caller asked for.
SuccessesAreTrue ==
    \A c \in Calls :
        reply[c].code = "created" =>
            [call |-> reply[c].payment, msg |-> msg[c]] \in payments

\* docs/ARCHITECTURE.md section 7: the same key with the same payload gets the
\* cached response.  So a request that has been carried out is not answered
\* with a refusal to carry it out.
CarriedOutIsNotRefused ==
    \A c \in Calls :
        reply[c].code \in {"insufficient_funds", "duplicate_payment"} =>
            ~\E p \in payments : p.msg = msg[c]

\* docs/ARCHITECTURE.md section 7: the same key with another payload is a 409.
\* So one key of one user never pays for two different payloads.
OnePayloadPerKey ==
    \A p, q \in payments :
        p.msg.user = q.msg.user /\ p.msg.key = q.msg.key => p.msg = q.msg
=============================================================================
