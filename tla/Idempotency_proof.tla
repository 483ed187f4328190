-------------------------- MODULE Idempotency_proof --------------------------
(***************************************************************************)
(* Proofs about Idempotency, for every set of calls and messages, every    *)
(* balance, with and without expiry.                                       *)
(***************************************************************************)
EXTENDS Idempotency, TLAPS

\* How far a call is determines what it has said and been told.
Progress ==
    \A c \in Calls :
        /\ pc[c] = "new" => reply[c] = NoReply
        /\ pc[c] # "new" => c \in DOMAIN msg
        /\ pc[c] = "store" => reply[c] \in Replies

\* A stored success is about a payment of the request it was stored for.
StoredSuccessesAreTrue ==
    \A e \in cache :
        e.reply.code = "created" => [call |-> e.reply.payment, msg |-> e.hash] \in payments

IdemInv ==
    /\ IdempotencyTypeOK
    /\ Progress
    /\ PaidAtMostOnce
    /\ SuccessesAreTrue
    /\ StoredSuccessesAreTrue

CacheRow == [user : {m.user : m \in Messages}, key : {m.key : m \in Messages},
             hash : Messages, reply : Replies, live : BOOLEAN]

\* A refusal is not a success; a success names its payment.
LEMMA ReplyShapes ==
    /\ NoReply.code # "created" /\ NoReply \notin Replies
    /\ \A r \in Refusals : r.code # "created" /\ r \in Replies
    /\ \A c \in Calls : /\ Created(c) \in Replies
                        /\ Created(c).code = "created" /\ Created(c).payment = c
<1>1. \A r \in Refusals : r.code # "created"  /\ r.code # "none"
  BY DEF Refusals
<1> QED BY <1>1 DEF NoReply, Replies, Created

\* The constant answers of the handlers are refusals.
LEMMA ConstantAnswers ==
    /\ [code |-> "bad_request"] \in Refusals
    /\ [code |-> "internal_error"] \in Refusals
    /\ [code |-> "idempotency_conflict"] \in Refusals
    /\ [code |-> "insufficient_funds"] \in Refusals
    /\ [code |-> "duplicate_payment"] \in Refusals
BY DEF Refusals

\* Initially nothing is cached or paid.
LEMMA IdemInit == IdempotencyInit => IdemInv
BY IdempotencyAssumption, ReplyShapes
   DEF IdempotencyInit, IdemInv, IdempotencyTypeOK, Progress, PaidAtMostOnce,
       SuccessesAreTrue, StoredSuccessesAreTrue

\* A call that arrives changes nothing but its own message.
LEMMA ArriveType ==
    ASSUME IdemInv, NEW c \in Calls, NEW m \in Messages, Arrive(c, m)
    PROVE  /\ pc[c] = "new" /\ msg'[c] = m
           /\ DOMAIN msg' = DOMAIN msg \cup {c}
           /\ \A d \in Calls : d # c /\ d \in DOMAIN msg => msg'[d] = msg[d]
           /\ DOMAIN msg' \subseteq Calls /\ \A d \in DOMAIN msg' : msg'[d] \in Messages
BY DEF Arrive, Say, IdemInv, IdempotencyTypeOK

\* A call that is answered at once, with a refusal or with a stored response
\* to the same request.
LEMMA AnsweredOnArrival ==
    ASSUME IdemInv, NEW c \in Calls, NEW m \in Messages, Arrive(c, m),
           NEW r \in Replies, Answer(c, r), Go(c, "done"),
           UNCHANGED <<cache, payments, funds>>,
           r.code = "created" => [call |-> r.payment, msg |-> m] \in payments
    PROVE  IdemInv'
<1>1. /\ pc' = [pc EXCEPT ![c] = "done"] /\ reply' = [reply EXCEPT ![c] = r]
      /\ pc \in [Calls -> {"new", "handle", "store", "done"}]
      /\ reply \in [Calls -> Replies \cup {NoReply}]
  BY DEF Answer, Go, IdemInv, IdempotencyTypeOK
<1>2. IdempotencyTypeOK'
  BY <1>1, ArriveType DEF IdemInv, IdempotencyTypeOK
<1>3. Progress'
  <2> SUFFICES ASSUME NEW d \in Calls
               PROVE  /\ pc'[d] = "new" => reply'[d] = NoReply
                      /\ pc'[d] # "new" => d \in DOMAIN msg'
                      /\ pc'[d] = "store" => reply'[d] \in Replies
    BY DEF Progress
  <2>1. CASE d = c
    BY <1>1, <2>1, ArriveType
  <2>2. CASE d # c
    <3>1. pc'[d] = pc[d] /\ reply'[d] = reply[d]
      BY <1>1, <2>2
    <3>2. DOMAIN msg \subseteq DOMAIN msg'
      BY ArriveType
    <3> QED BY <3>1, <3>2 DEF IdemInv, Progress
  <2> QED BY <2>1, <2>2
<1>4. SuccessesAreTrue'
  <2> SUFFICES ASSUME NEW d \in Calls, reply'[d].code = "created"
               PROVE  [call |-> reply'[d].payment, msg |-> msg'[d]] \in payments'
    BY DEF SuccessesAreTrue
  <2>1. CASE d = c
    BY <1>1, <2>1, ArriveType
  <2>2. CASE d # c
    <3>1. reply'[d] = reply[d]
      BY <1>1, <2>2
    <3>2. d \in DOMAIN msg
      BY <3>1, ReplyShapes DEF IdemInv, Progress
    <3> QED BY <2>2, <3>1, <3>2, ArriveType DEF IdemInv, SuccessesAreTrue
  <2> QED BY <2>1, <2>2
<1> QED BY <1>2, <1>3, <1>4
        DEF IdemInv, PaidAtMostOnce, StoredSuccessesAreTrue

\* A call that is let through to the handler.
LEMMA CacheMissStep ==
    ASSUME IdemInv, NEW c \in Calls, NEW m \in Messages, CacheMiss(c, m)
    PROVE  IdemInv'
<1>1. /\ pc' = [pc EXCEPT ![c] = "handle"] /\ Arrive(c, m)
      /\ UNCHANGED <<reply, cache, payments, funds>>
      /\ pc \in [Calls -> {"new", "handle", "store", "done"}]
  BY DEF CacheMiss, Go, IdemInv, IdempotencyTypeOK
<1>2. IdempotencyTypeOK' /\ Progress'
  <2>1. IdempotencyTypeOK'
    BY <1>1, ArriveType DEF IdemInv, IdempotencyTypeOK
  <2>2. ASSUME NEW d \in Calls
        PROVE  /\ pc'[d] = "new" => reply'[d] = NoReply
               /\ pc'[d] # "new" => d \in DOMAIN msg'
               /\ pc'[d] = "store" => reply'[d] \in Replies
    <3>1. CASE d = c
      BY <1>1, <3>1, ArriveType
    <3>2. CASE d # c
      <4>1. pc'[d] = pc[d] /\ reply'[d] = reply[d]
        BY <1>1, <3>2
      <4>2. DOMAIN msg \subseteq DOMAIN msg'
        BY <1>1, ArriveType
      <4> QED BY <4>1, <4>2 DEF IdemInv, Progress
    <3> QED BY <3>1, <3>2
  <2> QED BY <2>1, <2>2 DEF Progress
<1>3. SuccessesAreTrue'
  <2> SUFFICES ASSUME NEW d \in Calls, reply'[d].code = "created"
               PROVE  [call |-> reply'[d].payment, msg |-> msg'[d]] \in payments'
    BY DEF SuccessesAreTrue
  <2>1. reply[d].code = "created" /\ reply[d] # NoReply
    BY <1>1, ReplyShapes
  <2>2. pc[d] # "new" /\ d \in DOMAIN msg
    BY <2>1 DEF IdemInv, Progress
  <2>3. d # c /\ msg'[d] = msg[d]
    BY <1>1, <2>2, ArriveType
  <2> QED BY <1>1, <2>1, <2>3 DEF IdemInv, SuccessesAreTrue
<1> QED BY <1>1, <1>2, <1>3 DEF IdemInv, PaidAtMostOnce, StoredSuccessesAreTrue

\* What paying for call c does to the payments.
LEMMA PayStep ==
    ASSUME IdemInv, NEW c \in Calls, pc[c] = "handle", Pay(c)
    PROVE  /\ [call |-> c, msg |-> msg[c]] \in payments'
           /\ payments \subseteq payments'
           /\ payments' \subseteq [call : Calls, msg : Messages]
           /\ funds' \in [DOMAIN InitFunds -> Nat]
           /\ PaidAtMostOnce'
<1>1. /\ msg[c] \in Messages
      /\ payments' = payments \cup {[call |-> c, msg |-> msg[c]]}
      /\ payments \subseteq [call : Calls, msg : Messages]
  BY DEF Pay, IdemInv, IdempotencyTypeOK, Progress
<1>2. /\ Source(msg[c]) \in DOMAIN InitFunds
      /\ msg[c].amount \in Nat
      /\ funds \in [DOMAIN InitFunds -> Nat]
  BY <1>1, IdempotencyAssumption DEF Source, IdemInv, IdempotencyTypeOK
<1>3. funds' \in [DOMAIN InitFunds -> Nat]
  <2>1. funds[Source(msg[c])] - msg[c].amount \in Nat
    BY <1>2 DEF Pay, Funded
  <2> QED BY <1>2, <2>1 DEF Pay
<1>4. PaidAtMostOnce'
  <2>1. \A p \in payments : p.msg # msg[c]
    BY DEF Pay, KeyUsed
  <2> QED BY <1>1, <2>1 DEF PaidAtMostOnce, IdemInv
<1> QED BY <1>1, <1>3, <1>4

\* The handler answers, whether or not it paid.
LEMMA HandleAnswer ==
    ASSUME IdemInv, NEW c \in Calls, pc[c] = "handle",
           NEW r \in Replies, Answer(c, r), Go(c, "store"), UNCHANGED <<msg, cache>>,
           Pay(c) \/ UNCHANGED <<payments, funds>>,
           r.code = "created" => r = Created(c) /\ Pay(c)
    PROVE  IdemInv'
<1>1. /\ pc' = [pc EXCEPT ![c] = "store"] /\ reply' = [reply EXCEPT ![c] = r]
      /\ pc \in [Calls -> {"new", "handle", "store", "done"}]
      /\ reply \in [Calls -> Replies \cup {NoReply}]
  BY DEF Answer, Go, IdemInv, IdempotencyTypeOK
<1>2. /\ payments \subseteq payments'
      /\ payments' \subseteq [call : Calls, msg : Messages]
      /\ funds' \in [DOMAIN InitFunds -> Nat]
      /\ PaidAtMostOnce'
  <2>1. CASE Pay(c)
    BY <2>1, PayStep
  <2>2. CASE UNCHANGED <<payments, funds>>
    BY <2>2 DEF IdemInv, IdempotencyTypeOK, PaidAtMostOnce
  <2> QED BY <2>1, <2>2
<1>3. IdempotencyTypeOK'
  BY <1>1, <1>2 DEF IdemInv, IdempotencyTypeOK
<1>4. Progress'
  BY <1>1 DEF IdemInv, Progress
<1>5. SuccessesAreTrue'
  <2> SUFFICES ASSUME NEW d \in Calls, reply'[d].code = "created"
               PROVE  [call |-> reply'[d].payment, msg |-> msg'[d]] \in payments'
    BY DEF SuccessesAreTrue
  <2>1. CASE d = c
    BY <1>1, <2>1, PayStep, ReplyShapes
  <2>2. CASE d # c
    BY <1>1, <1>2, <2>2 DEF IdemInv, SuccessesAreTrue
  <2> QED BY <2>1, <2>2
<1>6. StoredSuccessesAreTrue'
  BY <1>2 DEF IdemInv, StoredSuccessesAreTrue
<1> QED BY <1>2, <1>3, <1>4, <1>5, <1>6 DEF IdemInv

\* Storing a response keeps the cache true.
LEMMA StoreStep ==
    ASSUME IdemInv, NEW c \in Calls, Store(c)
    PROVE  IdemInv'
<1> DEFINE row == [user |-> msg[c].user, key |-> msg[c].key,
                   hash |-> msg[c], reply |-> reply[c], live |-> TRUE]
<1>1. /\ pc[c] = "store" /\ pc' = [pc EXCEPT ![c] = "done"]
      /\ UNCHANGED <<msg, reply, payments, funds>>
      /\ pc \in [Calls -> {"new", "handle", "store", "done"}]
  BY DEF Store, Go, IdemInv, IdempotencyTypeOK
<1>2. msg[c] \in Messages /\ reply[c] \in Replies
  BY <1>1 DEF IdemInv, IdempotencyTypeOK, Progress
<1>3. row \in CacheRow
  BY <1>2 DEF CacheRow
<1>4. \/ cache' = cache
      \/ /\ cache' = cache \cup {row}
         /\ \A e \in cache : ~(e.user = row.user /\ e.key = row.key)
  BY DEF Store
<1>5. IdempotencyTypeOK'
  <2>1. cache \subseteq CacheRow /\ \A e, f \in cache : e.user = f.user /\ e.key = f.key => e = f
    BY DEF IdemInv, IdempotencyTypeOK, CacheRow
  <2>2. cache' \subseteq CacheRow
    BY <1>3, <1>4, <2>1
  <2>3. \A e, f \in cache' : e.user = f.user /\ e.key = f.key => e = f
    BY <1>4, <2>1
  <2> QED BY <1>1, <2>2, <2>3 DEF IdemInv, IdempotencyTypeOK, CacheRow
<1>6. Progress'
  BY <1>1 DEF IdemInv, Progress
<1>7. StoredSuccessesAreTrue'
  <2>1. row.reply.code = "created" =>
            [call |-> row.reply.payment, msg |-> row.hash] \in payments
    BY DEF IdemInv, SuccessesAreTrue
  <2> QED BY <1>1, <1>4, <2>1 DEF IdemInv, StoredSuccessesAreTrue
<1> QED BY <1>1, <1>5, <1>6, <1>7 DEF IdemInv, PaidAtMostOnce, SuccessesAreTrue

\* An expired row stays in the table, and stays true.
LEMMA ExpireStep ==
    ASSUME IdemInv, NEW x \in cache, Expire(x)
    PROVE  IdemInv'
<1> DEFINE old == [x EXCEPT !.live = FALSE]
<1>1. /\ cache' = (cache \ {x}) \cup {old}
      /\ UNCHANGED <<pc, msg, reply, payments, funds>>
  BY DEF Expire
<1>2. cache \subseteq CacheRow /\ \A e, f \in cache : e.user = f.user /\ e.key = f.key => e = f
  BY DEF IdemInv, IdempotencyTypeOK, CacheRow
<1>3. /\ old \in CacheRow /\ old.user = x.user /\ old.key = x.key
      /\ old.reply = x.reply /\ old.hash = x.hash
  BY <1>2 DEF CacheRow
<1>4. /\ cache' \subseteq CacheRow
      /\ \A e, f \in cache' : e.user = f.user /\ e.key = f.key => e = f
  <2> HIDE DEF old
  <2>1. cache' \subseteq CacheRow
    BY <1>1, <1>2, <1>3
  <2>2. \A e \in cache \ {x} : ~(e.user = old.user /\ e.key = old.key)
    BY <1>2, <1>3
  <2> QED BY <1>1, <1>2, <2>1, <2>2
<1>5. IdempotencyTypeOK'
  BY <1>1, <1>4 DEF IdemInv, IdempotencyTypeOK, CacheRow
<1>6. StoredSuccessesAreTrue'
  BY <1>1, <1>3 DEF IdemInv, StoredSuccessesAreTrue
<1> QED BY <1>1, <1>5, <1>6 DEF IdemInv, Progress, PaidAtMostOnce, SuccessesAreTrue

\* Every step keeps the inductive invariant.
LEMMA IdemStep == IdemInv /\ [IdempotencyNext]_vars => IdemInv'
<1> SUFFICES ASSUME IdemInv, [IdempotencyNext]_vars PROVE IdemInv'
  OBVIOUS
<1>1. ASSUME NEW c \in Calls, NEW m \in Messages,
             MissingKey(c, m) \/ LookUpError(c, m)
      PROVE  IdemInv'
  <2>1. PICK r \in Refusals : Answer(c, r)
    BY <1>1, ConstantAnswers DEF MissingKey, LookUpError
  <2>2. Arrive(c, m) /\ Go(c, "done") /\ UNCHANGED <<cache, payments, funds>>
    BY <1>1 DEF MissingKey, LookUpError
  <2> QED BY <2>1, <2>2, ReplyShapes, AnsweredOnArrival
<1>2. ASSUME NEW c \in Calls, NEW m \in Messages, CacheHit(c, m)
      PROVE  IdemInv'
  <2>1. PICK e \in Hits(m) :
            Answer(c, IF HashMatches(e, m) THEN e.reply
                      ELSE [code |-> "idempotency_conflict"])
    BY <1>2 DEF CacheHit
  <2>2. Arrive(c, m) /\ Go(c, "done") /\ UNCHANGED <<cache, payments, funds>>
    BY <1>2 DEF CacheHit
  <2>3. e \in cache /\ e.reply \in Replies
    BY <2>1 DEF Hits, IdemInv, IdempotencyTypeOK
  <2>4. CASE HashMatches(e, m)
    <3>1. Answer(c, e.reply) /\ e.hash = m
      BY <2>1, <2>4 DEF HashMatches
    <3>2. e.reply.code = "created" => [call |-> e.reply.payment, msg |-> m] \in payments
      BY <2>3, <3>1 DEF IdemInv, StoredSuccessesAreTrue
    <3> QED BY <2>2, <2>3, <3>1, <3>2, AnsweredOnArrival
  <2>5. CASE ~HashMatches(e, m)
    <3>1. Answer(c, [code |-> "idempotency_conflict"])
      BY <2>1, <2>5
    <3> QED BY <2>2, <3>1, ConstantAnswers, ReplyShapes, AnsweredOnArrival
  <2> QED BY <2>4, <2>5
<1>3. ASSUME NEW c \in Calls, NEW m \in Messages, CacheMiss(c, m)
      PROVE  IdemInv'
  BY <1>3, CacheMissStep
<1>4. ASSUME NEW c \in Calls, Handle(c)
      PROVE  IdemInv'
  <2>1. pc[c] = "handle" /\ Go(c, "store") /\ UNCHANGED <<msg, cache>>
    BY <1>4 DEF Handle
  <2>2. CASE Pay(c) /\ Answer(c, Created(c))
    BY <2>1, <2>2, ReplyShapes, HandleAnswer
  <2>3. CASE /\ UNCHANGED <<payments, funds>>
             /\ \E r \in Refusals : Answer(c, r)
    BY <2>1, <2>3, ReplyShapes, HandleAnswer
  <2> QED BY <1>4, <2>2, <2>3, ConstantAnswers DEF Handle
<1>5. ASSUME NEW c \in Calls, HandleError(c)
      PROVE  IdemInv'
  BY <1>5, ConstantAnswers, ReplyShapes, HandleAnswer DEF HandleError
<1>6. ASSUME NEW c \in Calls, Store(c)
      PROVE  IdemInv'
  BY <1>6, StoreStep
<1>7. ASSUME NEW c \in Calls, StoreError(c) \/ Crash(c)
      PROVE  IdemInv'
  <2>1. /\ pc[c] # "new" /\ pc' = [pc EXCEPT ![c] = "done"]
        /\ reply' = reply \/ reply' = [reply EXCEPT ![c] = NoReply]
        /\ UNCHANGED <<msg, cache, payments, funds>>
    BY <1>7 DEF StoreError, Crash, Go, Answer
  <2>2. IdempotencyTypeOK' /\ Progress'
    BY <2>1 DEF IdemInv, IdempotencyTypeOK, Progress
  <2>3. SuccessesAreTrue'
    BY <2>1, ReplyShapes DEF IdemInv, IdempotencyTypeOK, SuccessesAreTrue
  <2> QED BY <2>1, <2>2, <2>3 DEF IdemInv, PaidAtMostOnce, StoredSuccessesAreTrue
<1>8. ASSUME NEW e \in cache, Expire(e)
      PROVE  IdemInv'
  BY <1>8, ExpireStep
<1>9. CASE UNCHANGED vars
  BY <1>9 DEF vars, IdemInv, IdempotencyTypeOK, Progress, PaidAtMostOnce,
              SuccessesAreTrue, StoredSuccessesAreTrue
<1> QED BY <1>1, <1>2, <1>3, <1>4, <1>5, <1>6, <1>7, <1>8, <1>9 DEF IdempotencyNext

\* The table has one row per user and key, its rows hold whole responses, and
\* no balance is overdrawn (INSERT ... ON CONFLICT DO NOTHING).
THEOREM IdempotencyTypeCorrect == IdempotencySpec => []IdempotencyTypeOK
<1>1. IdemInv => IdempotencyTypeOK
  BY DEF IdemInv
<1> QED BY <1>1, IdemInit, IdemStep, PTL DEF IdempotencySpec

\* However calls are repeated and interleaved, a request is paid at most once.
THEOREM NeverPaidTwice == IdempotencySpec => []PaidAtMostOnce
<1>1. IdemInv => PaidAtMostOnce
  BY DEF IdemInv
<1> QED BY <1>1, IdemInit, IdemStep, PTL DEF IdempotencySpec

\* A success, first-hand or replayed, is about this caller's own request.
THEOREM NoFalseSuccess == IdempotencySpec => []SuccessesAreTrue
<1>1. IdemInv => SuccessesAreTrue
  BY DEF IdemInv
<1> QED BY <1>1, IdemInit, IdemStep, PTL DEF IdempotencySpec
=============================================================================
