---------------------------- MODULE Server_proof ----------------------------
(***************************************************************************)
(* Proofs about AccountAPI and Server, for every set of users, currencies, *)
(* calls and requests, through any number of processes.                    *)
(***************************************************************************)
EXTENDS Server, TLAPS

\* What is known of a call, from how far it is; s stands for sessions.
CallOK(x, s) ==
    /\ x.pc \in {"check", "insert"} => x.ask.op = "create" /\ x.ask.cur \in Currencies
    /\ x.pc = "read" => x.ask.op # "create"
    /\ x.pc \in {"check", "insert", "read"} \/ x.code = "ok" =>
           OwnerFromPath(x.ask) /\ s[x.ask.user] # "none"
    /\ x.pc # "done" => x.code = "none" /\ x.data = {}

CallsOK == \A c \in DOMAIN calls : CallOK(calls[c], sessions)

\* An account was created by a call that is over.
AccountsHaveCalls ==
    \A a \in accounts : a.id \in DOMAIN calls /\ calls[a.id].pc = "done"

\* The calls are drained only when the processor has returned.
ProcessorFirst == main = "draining" => processor = "returned"

\* The part of the invariant that is about the API.
APIInv ==
    /\ APITypeOK
    /\ CallsOK
    /\ AccountsHaveCalls
    /\ OneAccountPerCurrency
    /\ CreateAnswersAreTrue
    /\ OnlyOwnersAreServed

ServerInv ==
    /\ ServerTypeOK
    /\ APIInv
    /\ ProcessorFirst

\* What CreateAnswersAreTrue and OnlyOwnersAreServed say of one call; A stands
\* for accounts.
Truthful(c, x, A) ==
    x.ask.op = "create" =>
        /\ x.code = "ok" =>
               /\ x.data = {[id |-> c, owner |-> x.ask.target, cur |-> x.ask.cur]}
               /\ x.data \subseteq A
        /\ x.code = "account_exists" =>
               \E a \in A : a.owner = x.ask.user /\ a.cur = x.ask.cur /\ a.id # c

OwnerServed(x, s) ==
    x.code = "ok" =>
        /\ s[x.ask.user] # "none"
        /\ \A a \in x.data : a.owner = x.ask.user
        /\ x.ask.op = "user" => x.ask.target = x.ask.user
        /\ x.ask.op = "payment" => PaymentOwner[x.ask.target] = x.ask.user

GoodCall(c, x, s, A) == CallOK(x, s) /\ Truthful(c, x, A) /\ OwnerServed(x, s)

\* The invariant, call by call.
LEMMA InvByCall ==
    APIInv <=> /\ APITypeOK /\ AccountsHaveCalls /\ OneAccountPerCurrency
               /\ \A c \in DOMAIN calls : GoodCall(c, calls[c], sessions, accounts)
               /\ \A a \in accounts : calls[a.id].ask.user = a.owner
BY DEF APIInv, CallsOK, CreateAnswersAreTrue, OnlyOwnersAreServed, GoodCall,
       Truthful, OwnerServed, NewAccount

\* The same of the next state.
LEMMA InvByCallPrimed ==
    ASSUME APITypeOK', AccountsHaveCalls', OneAccountPerCurrency',
           \A c \in DOMAIN calls' : GoodCall(c, calls'[c], sessions', accounts'),
           \A a \in accounts' : calls'[a.id].ask.user = a.owner
    PROVE  APIInv'
BY DEF APIInv, CallsOK, CreateAnswersAreTrue, OnlyOwnersAreServed, GoodCall,
       Truthful, OwnerServed, NewAccount

\* More sessions and more accounts do not hurt a call.
LEMMA GoodCallStays ==
    ASSUME NEW c, NEW x, x.ask.user \in Users, NEW s, NEW t, NEW A, NEW B,
           GoodCall(c, x, s, A), A \subseteq B,
           \A u \in Users : s[u] # "none" => t[u] # "none"
    PROVE  GoodCall(c, x, t, B)
<1>1. CallOK(x, t)
  BY DEF GoodCall, CallOK
<1>2. Truthful(c, x, B)
  BY DEF GoodCall, Truthful
<1>3. OwnerServed(x, t)
  BY DEF GoodCall, OwnerServed
<1> QED BY <1>1, <1>2, <1>3 DEF GoodCall

\* A step keeps the invariant if sessions and accounts only grow, finished
\* calls stay as they are, a call that changes is good, and so is a new account.
LEMMA APIStep ==
    ASSUME APIInv, APITypeOK', OneAccountPerCurrency',
           accounts \subseteq accounts',
           \A u \in Users : sessions[u] # "none" => sessions'[u] # "none",
           DOMAIN calls \subseteq DOMAIN calls',
           \A d \in DOMAIN calls :
               calls[d].pc = "done" => calls'[d] = calls[d],
           \A d \in DOMAIN calls' :
               \/ d \in DOMAIN calls /\ calls'[d] = calls[d]
               \/ GoodCall(d, calls'[d], sessions', accounts'),
           \A a \in accounts' : a \in accounts \/
               (a.id \in DOMAIN calls' /\ calls'[a.id].pc = "done"
                /\ calls'[a.id].ask.user = a.owner)
    PROVE  APIInv'
<1>1. /\ APITypeOK /\ AccountsHaveCalls
      /\ \A c \in DOMAIN calls : GoodCall(c, calls[c], sessions, accounts)
      /\ \A a \in accounts : calls[a.id].ask.user = a.owner
  BY InvByCall
<1>2. AccountsHaveCalls' /\ \A a \in accounts' : calls'[a.id].ask.user = a.owner
  BY <1>1 DEF AccountsHaveCalls
<1>3. ASSUME NEW d \in DOMAIN calls' 
      PROVE  GoodCall(d, calls'[d], sessions', accounts')
  <2>1. CASE d \in DOMAIN calls /\ calls'[d] = calls[d]
    <3>1. calls[d].ask.user \in Users
      BY <1>1, <2>1, AskAssumption DEF APITypeOK, IsCall
    <3>2. GoodCall(d, calls[d], sessions, accounts)
      BY <1>1, <2>1
    <3>3. GoodCall(d, calls[d], sessions', accounts')
      BY <3>1, <3>2, GoodCallStays
    <3> QED BY <2>1, <3>3
  <2>2. CASE GoodCall(d, calls'[d], sessions', accounts')
    BY <2>2
  <2> QED BY <2>1, <2>2
<1> QED BY <1>2, <1>3, InvByCallPrimed

\* A step of one call that does not touch the accounts.
LEMMA CallMoves ==
    ASSUME APIInv, NEW c \in Calls, NEW x, IsCall(x),
           GoodCall(c, x, sessions, accounts),
           c \in DOMAIN calls => calls[c].pc # "done",
           DOMAIN calls' = DOMAIN calls \cup {c},
           \A d \in DOMAIN calls' : calls'[d] = IF d = c THEN x ELSE calls[d],
           UNCHANGED <<sessions, accounts>>
    PROVE  APIInv'
<1>1. APITypeOK' /\ OneAccountPerCurrency'
  BY DEF APIInv, APITypeOK, OneAccountPerCurrency
<1>2. \A d \in DOMAIN calls : calls[d].pc = "done" => calls'[d] = calls[d]
  OBVIOUS
<1>3. \A d \in DOMAIN calls' :
          \/ d \in DOMAIN calls /\ calls'[d] = calls[d]
          \/ GoodCall(d, calls'[d], sessions', accounts')
  OBVIOUS
<1> QED BY <1>1, <1>2, <1>3, APIStep

\* A call that is refused or fails.
LEMMA Refused ==
    ASSUME NEW c, NEW k \in Asks, NEW s, NEW A,
           NEW code \in {"unauthorized", "not_found", "bad_request", "internal_error"}
    PROVE  IsCall(Answered(k, code, {})) /\ GoodCall(c, Answered(k, code, {}), s, A)
BY DEF Answered, IsCall, Codes, GoodCall, CallOK, Truthful, OwnerServed

\* A call that goes on, by a user with a session who owns what it asks for.
LEMMA Admitted ==
    ASSUME NEW c, NEW k \in Asks, NEW s, NEW A, NEW pc \in {"check", "insert", "read"},
           s[k.user] # "none", OwnerFromPath(k),
           k.op = "create" => k.cur \in Currencies,
           pc = "read" <=> k.op # "create"
    PROVE  IsCall(At(k, pc)) /\ GoodCall(c, At(k, pc), s, A)
BY DEF At, IsCall, Codes, GoodCall, CallOK, Truthful, OwnerServed

\* A call in flight, from the invariant.
LEMMA InFlightFacts ==
    ASSUME APIInv, NEW c \in DOMAIN calls
    PROVE  /\ c \in Calls /\ calls[c].ask \in Asks /\ calls[c].ask.user \in Users
           /\ CallOK(calls[c], sessions)
           /\ DOMAIN calls = DOMAIN calls \cup {c}
BY AskAssumption DEF APIInv, APITypeOK, IsCall, CallsOK

\* Reply and GoOn, without EXCEPT.
LEMMA ReplyIs ==
    ASSUME NEW c \in DOMAIN calls, NEW code, NEW data, Reply(c, code, data)
    PROVE  /\ DOMAIN calls' = DOMAIN calls \cup {c}
           /\ \A d \in DOMAIN calls' :
                  calls'[d] = IF d = c THEN Answered(calls[c].ask, code, data) ELSE calls[d]
BY DEF Reply

\* GoOn changes one call.
LEMMA GoOnIs ==
    ASSUME NEW c \in DOMAIN calls, NEW pc, GoOn(c, pc)
    PROVE  /\ DOMAIN calls' = DOMAIN calls \cup {c}
           /\ \A d \in DOMAIN calls' :
                  calls'[d] = IF d = c THEN At(calls[c].ask, pc) ELSE calls[d]
BY DEF GoOn

\* An error answer to a call that is not over.
LEMMA FailStep ==
    ASSUME APIInv, NEW c \in DOMAIN calls, calls[c].pc # "done",
           NEW code \in {"unauthorized", "not_found", "bad_request", "internal_error"},
           Reply(c, code, {}), UNCHANGED <<sessions, accounts>>
    PROVE  APIInv'
<1>1. calls[c].ask \in Asks /\ c \in Calls
  BY InFlightFacts
<1> DEFINE x == Answered(calls[c].ask, code, {})
<1>2. IsCall(x) /\ GoodCall(c, x, sessions, accounts)
  BY <1>1, Refused
<1>3. /\ DOMAIN calls' = DOMAIN calls \cup {c}
      /\ \A d \in DOMAIN calls' : calls'[d] = IF d = c THEN x ELSE calls[d]
  BY ReplyIs
<1> HIDE DEF x
<1> QED BY <1>1, <1>2, <1>3, CallMoves

\* A call that gets past its arrival is authenticated and asks for its own.
LEMMA ArriveStep ==
    ASSUME APIInv, NEW c \in Calls, NEW k \in Asks, NEW signed \in BOOLEAN,
           Arrive(c, k, signed)
    PROVE  APIInv'
<1> DEFINE x == FirstStep(k, signed)
<1>1. IsCall(x) /\ GoodCall(c, x, sessions, accounts)
  <2>1. CASE \E code \in {"unauthorized", "not_found", "bad_request"} :
                 x = Answered(k, code, {})
    BY <2>1, Refused
  <2>2. CASE /\ ValidateToken(k.user, signed) /\ OwnerFromPath(k) /\ ValidBody(k)
             /\ x = At(k, IF k.op = "create" THEN "check" ELSE "read")
    <3>1. PICK pc \in {"check", "read"} : /\ x = At(k, pc)
                                         /\ pc = "read" <=> k.op # "create"
      BY <2>2
    <3>2. sessions[k.user] # "none" /\ (k.op = "create" => k.cur \in Currencies)
      BY <2>2 DEF ValidateToken, ValidBody
    <3> QED BY <2>2, <3>1, <3>2, Admitted
  <2> QED BY <2>1, <2>2 DEF FirstStep
<1>2. /\ DOMAIN calls' = DOMAIN calls \cup {c} /\ c \notin DOMAIN calls
      /\ \A d \in DOMAIN calls' : calls'[d] = IF d = c THEN x ELSE calls[d]
      /\ UNCHANGED <<sessions, accounts>>
  BY DEF Arrive
<1> HIDE DEF x
<1> QED BY <1>1, <1>2, CallMoves

\* Finding an account, or none, keeps the invariant.
LEMMA CheckExistingStep ==
    ASSUME APIInv, NEW c, CheckExisting(c)
    PROVE  APIInv'
<1>1. c \in DOMAIN calls /\ calls[c].pc = "check" /\ UNCHANGED <<sessions, accounts>>
  BY DEF CheckExisting
<1> DEFINE k == calls[c].ask
<1>2. /\ c \in Calls /\ k \in Asks /\ k.user \in Users /\ CallOK(calls[c], sessions)
  BY <1>1, InFlightFacts
<1>3. /\ k.op = "create" /\ k.cur \in Currencies /\ OwnerFromPath(k)
      /\ sessions[k.user] # "none" /\ k.target = k.user
  BY <1>1, <1>2 DEF CallOK, OwnerFromPath
<1>4. CASE Holds(k) /\ Reply(c, "account_exists", {})
  <2> DEFINE x == Answered(k, "account_exists", {})
  <2>1. \E a \in accounts : a.owner = k.user /\ a.cur = k.cur /\ a.id # c
    BY <1>1, <1>3, <1>4 DEF Holds, AccountsOf, APIInv, AccountsHaveCalls
  <2>2. IsCall(x) /\ GoodCall(c, x, sessions, accounts)
    BY <1>2, <2>1 DEF Answered, IsCall, Codes, GoodCall, CallOK, Truthful, OwnerServed
  <2>3. /\ DOMAIN calls' = DOMAIN calls \cup {c}
        /\ \A d \in DOMAIN calls' : calls'[d] = IF d = c THEN x ELSE calls[d]
    BY <1>1, <1>4, ReplyIs
  <2> HIDE DEF x
  <2> QED BY <1>1, <1>2, <2>2, <2>3, CallMoves
<1>5. CASE GoOn(c, "insert")
  <2> DEFINE x == At(k, "insert")
  <2>1. IsCall(x) /\ GoodCall(c, x, sessions, accounts)
    BY <1>2, <1>3, Admitted
  <2>2. /\ DOMAIN calls' = DOMAIN calls \cup {c}
        /\ \A d \in DOMAIN calls' : calls'[d] = IF d = c THEN x ELSE calls[d]
    BY <1>1, <1>5, GoOnIs
  <2> HIDE DEF x
  <2> QED BY <1>1, <1>2, <2>1, <2>2, CallMoves
<1> QED BY <1>4, <1>5 DEF CheckExisting

\* A call that inserts its account, whatever it then tells the client.
LEMMA AccountInserted ==
    ASSUME APIInv, NEW c \in DOMAIN calls, calls[c].pc = "insert",
           ~ViolatesIndex(calls[c].ask), accounts' = accounts \cup {NewAccount(c)},
           \/ Reply(c, "ok", {NewAccount(c)})
           \/ Reply(c, "internal_error", {}),
           UNCHANGED sessions
    PROVE  APIInv'
<1>1. PICK k, new : /\ k = calls[c].ask
                    /\ new = [id |-> c, owner |-> k.target, cur |-> k.cur]
                    /\ new = NewAccount(c)
  BY DEF NewAccount
<1>2. /\ c \in Calls /\ k \in Asks /\ k.op = "create" /\ k.cur \in Currencies
      /\ k.target = k.user /\ k.user \in Users /\ sessions[k.user] # "none"
      /\ OwnerFromPath(k)
  BY <1>1, InFlightFacts DEF CallOK, OwnerFromPath
<1>3. new \in Account
  BY <1>1, <1>2 DEF Account
<1>4. PICK x : /\ x = Answered(k, "ok", {new}) \/ x = Answered(k, "internal_error", {})
               /\ DOMAIN calls' = DOMAIN calls
               /\ \A d \in DOMAIN calls : calls'[d] = IF d = c THEN x ELSE calls[d]
  BY <1>1 DEF Reply
<1>5. /\ IsCall(x) /\ x.ask = k /\ x.pc = "done"
      /\ x.code = "ok" => x.data = {new}
      /\ x.code # "account_exists"
  BY <1>2, <1>3, <1>4 DEF Answered, IsCall, Codes
<1>6. APITypeOK'
  BY <1>1, <1>3, <1>4, <1>5 DEF APIInv, APITypeOK
<1>7. OneAccountPerCurrency'
  <2>1. \A a \in accounts : ~(a.owner = new.owner /\ a.cur = new.cur)
    BY <1>1 DEF ViolatesIndex, Holds, AccountsOf
  <2> QED BY <1>1, <2>1 DEF APIInv, OneAccountPerCurrency
<1>8. GoodCall(c, x, sessions', accounts')
  <2>1. CallOK(x, sessions')
    BY <1>2, <1>5 DEF CallOK
  <2>2. Truthful(c, x, accounts')
    BY <1>1, <1>5 DEF Truthful
  <2>3. OwnerServed(x, sessions')
    BY <1>1, <1>2, <1>5 DEF OwnerServed
  <2> QED BY <2>1, <2>2, <2>3 DEF GoodCall
<1>9. \A d \in DOMAIN calls' : \/ d \in DOMAIN calls /\ calls'[d] = calls[d]
                              \/ GoodCall(d, calls'[d], sessions', accounts')
  BY <1>4, <1>8
<1>10. \A a \in accounts' : a \in accounts \/
           (a.id \in DOMAIN calls' /\ calls'[a.id].pc = "done"
            /\ calls'[a.id].ask.user = a.owner)
  BY <1>1, <1>2, <1>4, <1>5
<1> QED BY <1>4, <1>6, <1>7, <1>9, <1>10, APIStep

\* A call that has read and answers: what it lists is its user's.
LEMMA ReadAnswered ==
    ASSUME APIInv, NEW c \in DOMAIN calls, calls[c].pc = "read", NEW D,
           Reply(c, "ok", D), D \subseteq accounts,
           \A a \in D : a.owner = calls[c].ask.user,
           calls[c].ask.op = "payment" => IsSender(calls[c].ask),
           UNCHANGED <<sessions, accounts>>
    PROVE  APIInv'
<1>1. PICK k : k = calls[c].ask
  OBVIOUS
<1>2. /\ c \in Calls /\ k \in Asks /\ k.user \in Users /\ k.op # "create"
      /\ OwnerFromPath(k) /\ sessions[k.user] # "none"
  BY <1>1, InFlightFacts DEF CallOK
<1>3. PICK x : x = Answered(k, "ok", D)
  OBVIOUS
<1>4. /\ x.ask = k /\ x.pc = "done" /\ x.code = "ok" /\ x.data = D
      /\ DOMAIN x = {"ask", "pc", "code", "data"}
  BY <1>3 DEF Answered
<1>5. IsCall(x)
  BY <1>2, <1>4 DEF IsCall, Codes, APIInv, APITypeOK
<1>6. CallOK(x, sessions) /\ Truthful(c, x, accounts)
  BY <1>2, <1>4 DEF CallOK, Truthful
<1>7. OwnerServed(x, sessions)
  BY <1>1, <1>2, <1>4 DEF OwnerServed, IsSender, OwnerFromPath
<1>8. /\ DOMAIN calls' = DOMAIN calls \cup {c}
      /\ \A d \in DOMAIN calls' : calls'[d] = IF d = c THEN x ELSE calls[d]
  <2>1. /\ DOMAIN calls' = DOMAIN calls \cup {c}
        /\ \A d \in DOMAIN calls' :
               calls'[d] = IF d = c THEN Answered(calls[c].ask, "ok", D) ELSE calls[d]
    BY DEF Reply
  <2> QED BY <1>1, <1>3, <2>1
<1> QED BY <1>2, <1>5, <1>6, <1>7, <1>8, CallMoves DEF GoodCall

\* Reading keeps the invariant.
LEMMA ReadStep ==
    ASSUME APIInv, NEW c, ListAccounts(c) \/ GetUser(c) \/ GetPayment(c)
    PROVE  APIInv'
<1>1. c \in DOMAIN calls /\ calls[c].pc = "read" /\ UNCHANGED <<sessions, accounts>>
  BY DEF ListAccounts, GetUser, GetPayment
<1>2. CASE ListAccounts(c)
  <2>1. calls[c].ask.op = "list" /\ OwnerFromPath(calls[c].ask)
    BY <1>1, <1>2, InFlightFacts DEF ListAccounts, CallOK
  <2>2. PICK D : D = AccountsOf(calls[c].ask.target) /\ Reply(c, "ok", D)
    BY <1>2 DEF ListAccounts
  <2>3. D \subseteq accounts /\ \A a \in D : a.owner = calls[c].ask.user
    BY <2>1, <2>2 DEF AccountsOf, OwnerFromPath
  <2> QED BY <1>1, <2>1, <2>2, <2>3, ReadAnswered
<1>3. CASE GetUser(c) \/ (GetPayment(c) /\ IsSender(calls[c].ask))
  <2>1. Reply(c, "ok", {}) /\ (calls[c].ask.op = "payment" => IsSender(calls[c].ask))
    BY <1>3 DEF GetUser, GetPayment
  <2> QED BY <1>1, <2>1, ReadAnswered
<1>4. CASE GetPayment(c) /\ ~IsSender(calls[c].ask)
  <2>1. Reply(c, "not_found", {})
    BY <1>4 DEF GetPayment
  <2> QED BY <1>1, <2>1, FailStep
<1> QED BY <1>2, <1>3, <1>4

\* Every step of a call keeps the invariant.
LEMMA CallStepKeeps ==
    ASSUME APIInv, NEW c \in Calls, CallStep(c)
    PROVE  APIInv'
<1>1. CASE CheckExisting(c)
  BY <1>1, CheckExistingStep
<1>2. CASE InsertAccount(c)
  <2>1. c \in DOMAIN calls /\ calls[c].pc = "insert" /\ UNCHANGED sessions
    BY <1>2 DEF InsertAccount
  <2>2. CASE ViolatesIndex(calls[c].ask)
    BY <1>2, <2>1, <2>2, FailStep DEF InsertAccount
  <2>3. CASE ~ViolatesIndex(calls[c].ask)
    BY <1>2, <2>1, <2>3, AccountInserted DEF InsertAccount
  <2> QED BY <2>2, <2>3
<1>3. CASE InsertUnacknowledged(c)
  BY <1>3, AccountInserted DEF InsertUnacknowledged
<1>4. CASE ListAccounts(c) \/ GetUser(c) \/ GetPayment(c)
  BY <1>4, ReadStep
<1>5. CASE CallError(c)
  <2>1. c \in DOMAIN calls /\ calls[c].pc # "done" /\ UNCHANGED <<sessions, accounts>>
    BY <1>5 DEF CallError, InFlight
  <2> QED BY <1>5, <2>1, FailStep DEF CallError
<1> QED BY <1>1, <1>2, <1>3, <1>4, <1>5 DEF CallStep

\* Login and the end of a token: a user who has had a session keeps having had one.
LEMMA SessionStep ==
    ASSUME APIInv, NEW u \in Users, Login(u) \/ TokenExpires(u)
    PROVE  APIInv'
<1>1. /\ UNCHANGED <<calls, accounts>>
      /\ \/ sessions' = [sessions EXCEPT ![u] = "live"]
         \/ sessions' = [sessions EXCEPT ![u] = "expired"]
  BY DEF Login, TokenExpires
<1>2. sessions \in [Users -> {"none", "live", "expired"}]
  BY DEF APIInv, APITypeOK
<1>3. /\ sessions' \in [Users -> {"none", "live", "expired"}]
      /\ \A v \in Users : sessions[v] # "none" => sessions'[v] # "none"
  BY <1>1, <1>2
<1>4. APITypeOK' /\ OneAccountPerCurrency'
  BY <1>1, <1>3 DEF APIInv, APITypeOK, OneAccountPerCurrency
<1> QED BY <1>1, <1>3, <1>4, APIStep

\* Nothing of the API changes.
LEMMA APIStutters == ASSUME APIInv, UNCHANGED apiVars PROVE APIInv'
BY DEF apiVars, APIInv, APITypeOK, CallsOK, AccountsHaveCalls, OneAccountPerCurrency,
       CreateAnswersAreTrue, OnlyOwnersAreServed, NewAccount

\* The calls that the end of a process cuts off have not answered anything.
LEMMA ProcessEndsStep ==
    ASSUME APIInv, NEW how, ProcessEnds(how)
    PROVE  APIInv'
<1>1. /\ DOMAIN calls' = DOMAIN calls /\ UNCHANGED <<sessions, accounts>>
      /\ \A c \in DOMAIN calls :
             calls'[c] = IF c \in InFlight THEN At(calls[c].ask, "cut") ELSE calls[c]
  BY DEF ProcessEnds
<1>2. \A c \in InFlight : c \in DOMAIN calls /\ calls[c].pc # "done"
  BY DEF InFlight
<1>3. ASSUME NEW k \in Asks, NEW c
      PROVE  /\ IsCall(At(k, "cut"))
             /\ GoodCall(c, At(k, "cut"), sessions', accounts')
  BY DEF At, IsCall, Codes, GoodCall, CallOK, Truthful, OwnerServed
<1>4. APITypeOK' /\ OneAccountPerCurrency'
  BY <1>1, <1>2, <1>3, InFlightFacts DEF APIInv, APITypeOK, OneAccountPerCurrency
<1>5. \A c \in DOMAIN calls' : \/ c \in DOMAIN calls /\ calls'[c] = calls[c]
                              \/ GoodCall(c, calls'[c], sessions', accounts')
  BY <1>1, <1>3, InFlightFacts
<1>6. \A c \in DOMAIN calls : calls[c].pc = "done" => calls'[c] = calls[c]
  BY <1>1, <1>2
<1> QED BY <1>1, <1>4, <1>5, <1>6, APIStep

\* Initially there are no calls.
LEMMA ServerInvInit == ServerInit => ServerInv
BY StartAssumption
   DEF ServerInit, APIInit, ServerInv, APIInv, ServerTypeOK, APITypeOK, Ended, CallsOK,
       AccountsHaveCalls, OneAccountPerCurrency, CreateAnswersAreTrue,
       OnlyOwnersAreServed, ProcessorFirst

\* Every step keeps the API's part of the invariant.
LEMMA APIInvStep == ServerInv /\ [ServerNext]_vars => APIInv'
<1> SUFFICES ASSUME APIInv, [ServerNext]_vars PROVE APIInv'
  BY DEF ServerInv
<1>1. CASE \/ Start \/ StartFails \/ Signal \/ Drain
           \/ Tick \/ BatchDone \/ ProcessorReturns \/ UNCHANGED vars
  <2>1. UNCHANGED apiVars
    BY <1>1 DEF Start, StartFails, Signal, Drain, Tick, BatchDone, ProcessorReturns,
                vars, apiVars
  <2> QED BY <2>1, APIStutters
<1>2. CASE StopCleanly \/ ForceStop \/ Die
  BY <1>2, ProcessEndsStep DEF StopCleanly, ForceStop, Die
<1>3. CASE Serve
  <2>1. CASE \E u \in Users : Login(u) \/ TokenExpires(u)
    BY <2>1, SessionStep
  <2>2. CASE \E c \in Calls, k \in Asks, signed \in BOOLEAN : Arrive(c, k, signed)
    BY <2>2, ArriveStep
  <2>3. CASE \E c \in Calls : CallStep(c)
    BY <2>3, CallStepKeeps
  <2> QED BY <1>3, <2>1, <2>2, <2>3 DEF Serve
<1> QED BY <1>1, <1>2, <1>3 DEF ServerNext

\* Every step keeps the invariant.
LEMMA ServerInvStep == ServerInv /\ [ServerNext]_vars => ServerInv'
<1> SUFFICES ASSUME ServerInv, [ServerNext]_vars PROVE ServerInv'
  OBVIOUS
<1>1. APIInv'
  BY APIInvStep
<1>2. /\ main' \in Ended \cup {"serving", "stopping", "draining"}
      /\ processor' \in {"asleep", "polling", "returned"}
      /\ starts' \in 0 .. MaxStarts
      /\ ProcessorFirst'
  <2>1. CASE Start \/ StartFails \/ Signal \/ Drain
    BY <2>1, StartAssumption
       DEF Start, StartFails, Signal, Drain, ServerInv, ServerTypeOK, Ended, ProcessorFirst
  <2>2. CASE StopCleanly \/ ForceStop \/ Die
    BY <2>2 DEF StopCleanly, ForceStop, Die, ProcessEnds, ServerInv, ServerTypeOK,
                Ended, ProcessorFirst
  <2>3. CASE Tick \/ BatchDone \/ ProcessorReturns
    BY <2>3 DEF Tick, BatchDone, ProcessorReturns, ServerInv, ServerTypeOK, ProcessorFirst
  <2>4. CASE Serve \/ UNCHANGED vars
    <3>1. UNCHANGED <<main, processor, starts>>
      BY <2>4 DEF Serve, vars
    <3> QED BY <3>1 DEF ServerInv, ServerTypeOK, ProcessorFirst
  <2> QED BY <2>1, <2>2, <2>3, <2>4 DEF ServerNext
<1> QED BY <1>1, <1>2 DEF ServerInv, ServerTypeOK, APIInv

\* The inductive invariant always holds.
LEMMA ServerInvAlways == ServerSpec => []ServerInv
BY ServerInvInit, ServerInvStep, PTL DEF ServerSpec

\* The variables of the API and of its process have their types, through every
\* start, stop and crash: no account in a currency that does not exist.
THEOREM ServerTypeCorrect == ServerSpec => []ServerTypeOK
<1>1. ServerInv => ServerTypeOK
  BY DEF ServerInv
<1> QED BY <1>1, ServerInvAlways, PTL

\* CreateAccount's check and insert never leave a user with two accounts in a
\* currency, however many calls run at once.
THEOREM OneAccount == ServerSpec => []OneAccountPerCurrency
<1>1. ServerInv => OneAccountPerCurrency
  BY DEF ServerInv, APIInv
<1> QED BY <1>1, ServerInvAlways, PTL

\* What CreateAccount answered is so, and stays so, through lost
\* acknowledgements, repeated calls and crashes.
THEOREM TrueAnswers == ServerSpec => []CreateAnswersAreTrue
<1>1. ServerInv => CreateAnswersAreTrue
  BY DEF ServerInv, APIInv
<1> QED BY <1>1, ServerInvAlways, PTL

\* ownerFromPath, the token and GetPaymentForUser together serve nobody but the
\* owner of an account, a user or a payment.
THEOREM OwnersOnly == ServerSpec => []OnlyOwnersAreServed
<1>1. ServerInv => OnlyOwnersAreServed
  BY DEF ServerInv, APIInv
<1> QED BY <1>1, ServerInvAlways, PTL

\* When main returns of itself, processorWg.Wait and srv.Shutdown have seen the
\* processor and every call end.
THEOREM CleanStop == ServerSpec => CleanStopCutsNothing
<1>1. ServerInv /\ [ServerNext]_vars =>
          [main # "stopped" /\ main' = "stopped" =>
              /\ processor = "returned"
              /\ \A c \in DOMAIN calls : calls'[c].pc = "cut" => calls[c].pc = "cut"]_vars
  <2> SUFFICES ASSUME ServerInv, ServerNext, main # "stopped", main' = "stopped"
               PROVE  /\ processor = "returned"
                      /\ \A c \in DOMAIN calls : calls'[c].pc = "cut" => calls[c].pc = "cut"
    BY DEF vars
  <2>1. StopCleanly
    BY DEF ServerNext, Start, StartFails, Signal, Drain, ForceStop, Die, ProcessEnds,
           Tick, BatchDone, ProcessorReturns, Serve
  <2>2. processor = "returned"
    BY <2>1 DEF StopCleanly, ServerInv, ProcessorFirst
  <2>3. \A c \in DOMAIN calls : calls'[c] = calls[c]
    BY <2>1 DEF StopCleanly, ProcessEnds
  <2> QED BY <2>2, <2>3
<1> QED BY <1>1, ServerInvAlways, PTL DEF ServerSpec, CleanStopCutsNothing
=============================================================================
