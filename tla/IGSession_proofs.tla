---------------------------- MODULE IGSession_proofs ----------------------------
(* Theorems about IGSession, for any tasks, faults and kinds of session. *)
EXTENDS IGSession, FiniteSetTheorems, WellFoundedInduction, TLAPS

USE ConstantsAssumption, TasksAssumption DEF ConstantsAssumption, TasksAssumption

-----------------------------------------------------------------------------
(* Names *)

\* A function on the tasks names at most as many clients as there are tasks.
LEMMA NamedByTasks ==
    ASSUME NEW f
    PROVE  /\ IsFiniteSet({f[t] : t \in Tasks})
           /\ Cardinality({f[t] : t \in Tasks}) <= Cardinality(Tasks)
<1> DEFINE names == {f[t] : t \in Tasks}
           g == [t \in Tasks |-> f[t]]
<1>1. g \in Surjection(Tasks, names)
  BY DEF Surjection
<1> QED BY <1>1, FS_Surjection

\* A set of numbers that is not empty has a least one.
LEMMA LeastOf ==
    ASSUME NEW S, S \subseteq Nat, S # {}
    PROVE  Least(S) \in S
<1> DEFINE R == OpToRel(<, Nat)
<1>1. IsWellFoundedOn(R, Nat)
  BY NatLessThanWellFounded
<1>2. \A x, y \in Nat : <<x, y>> \in R <=> x < y
  BY DEF OpToRel
<1> HIDE DEF R
<1>3. PICK x \in S : \A y \in S : ~ (<<y, x>> \in R)
  BY <1>1, WFMin
<1>4. ASSUME NEW y \in S PROVE x <= y
  <2>1. x \in Nat /\ y \in Nat /\ ~(y < x)
    BY <1>2, <1>3
  <2> QED BY <2>1
<1> QED BY <1>4 DEF Least

\* While there is no current client, there is a name for a new one.
LEMMA ClientNamed == ASSUME current = None PROVE FreshClient \in Clients
<1> DEFINE locals == {local[t] : t \in Tasks}
           logins == {loginClient[t] : t \in Tasks}
           used == {current} \union locals \union logins
<1>1. IsFiniteSet(locals) /\ Cardinality(locals) <= Cardinality(Tasks)
  BY NamedByTasks
<1>2. IsFiniteSet(logins) /\ Cardinality(logins) <= Cardinality(Tasks)
  BY NamedByTasks
<1>3. /\ IsFiniteSet(locals \union logins)
      /\ Cardinality(locals \union logins) <= 2 * Cardinality(Tasks)
  <2> HIDE DEF locals, logins
  <2>1. /\ IsFiniteSet(locals \union logins)
        /\ Cardinality(locals \union logins)
             = Cardinality(locals) + Cardinality(logins) - Cardinality(locals \intersect logins)
    BY <1>1, <1>2, FS_Union
  <2>2. IsFiniteSet(locals \intersect logins)
    BY <1>1, FS_Intersection
  <2>3. /\ Cardinality(locals) \in Nat /\ Cardinality(logins) \in Nat
        /\ Cardinality(locals \intersect logins) \in Nat /\ Cardinality(Tasks) \in Nat
    BY <1>1, <1>2, <2>2, FS_CardinalityType
  <2> QED BY <1>1, <1>2, <2>1, <2>3
<1>4. IsFiniteSet(Clients) /\ Cardinality(Clients) = MaxClients
  BY FS_Interval DEF Clients
<1>5. \E c \in Clients : c \notin locals \union logins
  <2>1. SUFFICES ASSUME Clients \subseteq locals \union logins PROVE FALSE
    OBVIOUS
  <2> HIDE DEF locals, logins
  <2>2. Cardinality(Clients) <= Cardinality(locals \union logins)
    BY <1>3, <2>1, FS_Subset
  <2>3. Cardinality(locals \union logins) \in Nat /\ Cardinality(Tasks) \in Nat
    BY <1>3, FS_CardinalityType
  <2> QED BY <1>3, <1>4, <2>2, <2>3
<1>6. \A c \in Clients : c # None
  BY DEF Clients, None
<1>7. PICK c \in Clients \ used : TRUE
  BY <1>5, <1>6
<1>8. FreshClient = Least(Clients \ used)
  BY DEF FreshClient
<1>9. Clients \ used \subseteq Nat /\ Clients \ used # {}
  BY <1>7 DEF Clients
<1> HIDE DEF used
<1> QED BY <1>8, <1>9, LeastOf

-----------------------------------------------------------------------------
(* A call is executed once *)

\* A call that is not over has not been executed yet: what the broker executes it answers
\* with success, or the answer is lost, and neither is retried.
OnceInv ==
    /\ pc \in [Tasks -> {"idle", "wantLock", "login", "inflight", "closing"}]
    /\ done \in [Tasks -> 0 .. 1]
    /\ \A t \in Tasks : pc[t] \in {"wantLock", "login", "inflight"} => done[t] = 0

\* Where a request and its retry may lead.
LEMMA Proceeds ==
    ASSUME NEW t \in Tasks, NEW headers,
           SendFirst(t, headers) \/ SendAgain(t, headers)
    PROVE  pc' = [pc EXCEPT ![t] = "idle"] \/ pc' = [pc EXCEPT ![t] = "inflight"]
BY DEF SendFirst, SendAgain, Send

LEMMA OnceStep == ASSUME OnceInv, [Next]_vars PROVE OnceInv'
<1> USE DEF OnceInv
<1>1. ASSUME NEW t \in Tasks, BeginCall(t) PROVE OnceInv'
  <2>1. \/ pc' = [pc EXCEPT ![t] = "wantLock"] \/ pc' = [pc EXCEPT ![t] = "idle"]
        \/ pc' = [pc EXCEPT ![t] = "inflight"]
    BY <1>1, Proceeds DEF BeginCall
  <2>2. done' = [done EXCEPT ![t] = 0]
    BY <1>1 DEF BeginCall
  <2> QED BY <2>1, <2>2
<1>2. ASSUME NEW t \in Tasks, Login(t) PROVE OnceInv'
  <2>1. pc[t] \in {"wantLock", "login"} /\ done' = done
    BY <1>2 DEF Login, AcquireLock, LoginSucceeds, LoginFails
  <2>2. \/ pc' = [pc EXCEPT ![t] = "login"] \/ pc' = [pc EXCEPT ![t] = "idle"]
        \/ pc' = [pc EXCEPT ![t] = "inflight"]
    BY <1>2, Proceeds
    DEF Login, AcquireLock, LoginSucceeds, LoginFails, Proceed, StartLogin, Fail
  <2> QED BY <2>1, <2>2
<1>3. ASSUME NEW t \in Tasks, RequestSucceeds(t) \/ RequestLost(t) PROVE OnceInv'
  <2>1. pc[t] = "inflight" /\ pc' = [pc EXCEPT ![t] = "idle"]
    BY <1>3 DEF RequestSucceeds, RequestLost, OnLost, Fail
  <2>2. done' = done \/ done' = [done EXCEPT ![t] = @ + 1]
    BY <1>3 DEF RequestSucceeds, RequestLost, Executed
  <2> QED BY <2>1, <2>2
<1>4. ASSUME NEW t \in Tasks, Unauthorized(t) PROVE OnceInv'
  BY <1>4 DEF Unauthorized, Fail
<1>5. ASSUME NEW t \in Tasks, Close(t) PROVE OnceInv'
  BY <1>5 DEF Close, StartClose, FinishClose
<1>6. CASE UNCHANGED <<pc, done>>
  BY <1>6
<1> QED BY <1>1, <1>2, <1>3, <1>4, <1>5, <1>6
      DEF Next, Answer, Expire, Renew, vars, taskVars

\* The broker executes every call at most once, for any number of tasks, expiries and lost
\* answers.
THEOREM ExecutedOnce == Spec => []NeverTwice
<1>1. Init => OnceInv
  BY DEF Init, OnceInv
<1>2. OnceInv /\ [Next]_vars => OnceInv'
  BY OnceStep
<1>3. OnceInv => NeverTwice
  BY DEF OnceInv, NeverTwice
<1> QED BY <1>1, <1>2, <1>3, PTL DEF Spec

-----------------------------------------------------------------------------
(* No older login *)

\* Shapes: what the lock, the clients and the steps of the tasks are, tokens aside.
ShapeInv ==
    /\ pc \in [Tasks -> {"idle", "wantLock", "login", "inflight", "closing"}]
    /\ current \in Clients \union {None} /\ DOMAIN header = Clients
    /\ lock \in Tasks \union {None}
    /\ DOMAIN loginClient = Tasks

\* The task that holds the lock is the one that logs in.  Meanwhile there are no cached
\* tokens, so no other task starts a request or a client: the current client is the one of
\* the login, unless close() dropped it.
LockInv ==
    /\ \A t \in Tasks : pc[t] = "login" <=> lock = t
    /\ lock # None => /\ cache = None /\ loginClient[lock] \in Clients
                      /\ current \in {None, loginClient[lock]}

SessionInv == ShapeInv /\ LockInv /\ NoOlderLogin

LEMMA NoneIsNoClient == None \notin Clients
BY DEF None, Clients

\* A request that goes out, or fails to, when the lock is free and tokens are cached, on
\* headers that carry these tokens or none where there is a client.
LEMMA SentOnLogin ==
    ASSUME NEW t \in Tasks, NEW headers, NEW tokens,
           ShapeInv, DOMAIN headers = Clients,
           current # None => headers[current] \in {None, tokens},
           SendFirst(t, headers) \/ SendAgain(t, headers)
    PROVE  /\ current' \in Clients \union {None} /\ DOMAIN header' = Clients
           /\ current' # None => header'[current'] \in {None, tokens}
<1>1. CASE current # None \/ SendAgain(t, headers)
  BY <1>1 DEF ShapeInv, SendFirst, SendAgain
<1>2. CASE current = None /\ SendFirst(t, headers)
  <2>1. current' = FreshClient /\ header' = [headers EXCEPT ![FreshClient] = None]
    BY <1>2 DEF SendFirst, NewClientHeaders
  <2> QED BY <1>2, <2>1, ClientNamed, NoneIsNoClient
<1> QED BY <1>1, <1>2

LEMMA SessionStep == ASSUME SessionInv, [Next]_vars PROVE SessionInv'
<1> USE DEF SessionInv
<1>1. ASSUME NEW t \in Tasks, BeginCall(t) PROVE SessionInv'
  <2>1. pc[t] = "idle" /\ lock # t /\ UNCHANGED <<cache, lock, loginClient>>
    BY <1>1 DEF BeginCall, LockInv
  <2>2. CASE pc' = [pc EXCEPT ![t] = "wantLock"] /\ UNCHANGED <<current, header>>
    BY <2>1, <2>2 DEF ShapeInv, LockInv, NoOlderLogin
  <2>3. CASE cache # None /\ SendFirst(t, header)
    <3>1. pc' = [pc EXCEPT ![t] = "idle"] \/ pc' = [pc EXCEPT ![t] = "inflight"]
      BY <2>3, Proceeds
    <3>2. /\ current' \in Clients \union {None} /\ DOMAIN header' = Clients
          /\ current' # None => header'[current'] \in {None, cache}
      BY <2>3, SentOnLogin DEF ShapeInv, NoOlderLogin
    <3>3. lock = None
      BY <2>3 DEF LockInv
    <3> QED BY <2>1, <3>1, <3>2, <3>3 DEF ShapeInv, LockInv, NoOlderLogin
  <2> QED BY <1>1, <2>2, <2>3 DEF BeginCall
<1>2. ASSUME NEW t \in Tasks, AcquireLock(t) PROVE SessionInv'
  <2>1. pc[t] = "wantLock" /\ lock = None /\ cache' = cache
    BY <1>2 DEF AcquireLock, LockFree
  <2>2. CASE cache # None /\ Proceed(t, header) /\ UNCHANGED <<lock, loginClient>>
    <3>1. SendFirst(t, header) \/ SendAgain(t, header)
      BY <2>2 DEF Proceed
    <3>2. pc' = [pc EXCEPT ![t] = "idle"] \/ pc' = [pc EXCEPT ![t] = "inflight"]
      BY <3>1, Proceeds
    <3>3. /\ current' \in Clients \union {None} /\ DOMAIN header' = Clients
          /\ current' # None => header'[current'] \in {None, cache}
      BY <2>2, <3>1, SentOnLogin DEF ShapeInv, NoOlderLogin
    <3> QED BY <2>1, <2>2, <3>2, <3>3 DEF ShapeInv, LockInv, NoOlderLogin
  <2>3. CASE cache = None /\ StartLogin(t, IF current # None THEN current ELSE FreshClient)
    <3>1. PICK c \in Clients : StartLogin(t, c)
      BY <2>3, ClientNamed DEF ShapeInv
    <3>2. /\ pc' = [pc EXCEPT ![t] = "login"] /\ lock' = t /\ current' = c
          /\ loginClient' = [loginClient EXCEPT ![t] = c]
          /\ header' = [header EXCEPT ![c] = None]
      BY <3>1 DEF StartLogin, LoginHeaders
    <3>3. ShapeInv'
      BY <3>2 DEF ShapeInv
    <3>4. LockInv'
      BY <2>1, <2>3, <3>2 DEF ShapeInv, LockInv
    <3> QED BY <2>1, <2>3, <3>3, <3>4 DEF NoOlderLogin
  <2> QED BY <1>2, <2>2, <2>3 DEF AcquireLock
<1>3. ASSUME NEW t \in Tasks, LoginSucceeds(t) PROVE SessionInv'
  <2>1. PICK new : /\ cache' = new
                   /\ Proceed(t, [header EXCEPT ![loginClient[t]] = new])
    BY <1>3 DEF LoginSucceeds
  <2>2. /\ pc[t] = "login" /\ lock = t /\ lock' = None
        /\ loginClient[t] \in Clients /\ current \in {None, loginClient[t]}
        /\ loginClient' = [loginClient EXCEPT ![t] = None]
    BY <1>3 DEF LoginSucceeds, LockInv
  <2> DEFINE headers == [header EXCEPT ![loginClient[t]] = new]
  <2>3. DOMAIN headers = Clients /\ (current # None => headers[current] \in {None, new})
    BY <2>2 DEF ShapeInv
  <2>4. SendFirst(t, headers) \/ SendAgain(t, headers)
    BY <2>1 DEF Proceed
  <2> HIDE DEF headers
  <2>5. pc' = [pc EXCEPT ![t] = "idle"] \/ pc' = [pc EXCEPT ![t] = "inflight"]
    BY <2>4, Proceeds
  <2>6. /\ current' \in Clients \union {None} /\ DOMAIN header' = Clients
        /\ current' # None => header'[current'] \in {None, new}
    BY <2>3, <2>4, SentOnLogin
  <2>7. ShapeInv'
    BY <2>2, <2>5, <2>6 DEF ShapeInv
  <2>8. LockInv'
    BY <2>2, <2>5 DEF ShapeInv, LockInv
  <2> QED BY <2>1, <2>6, <2>7, <2>8 DEF NoOlderLogin
<1>4. ASSUME NEW t \in Tasks, LoginFails(t) PROVE SessionInv'
  BY <1>4 DEF LoginFails, Fail, ShapeInv, LockInv, NoOlderLogin
<1>5. ASSUME NEW t \in Tasks, RequestSucceeds(t) \/ RequestLost(t) PROVE SessionInv'
  BY <1>5 DEF RequestSucceeds, RequestLost, OnLost, Fail, ShapeInv, LockInv, NoOlderLogin
<1>6. ASSUME NEW t \in Tasks, Unauthorized(t) PROVE SessionInv'
  BY <1>6 DEF Unauthorized, CacheForgotten, Fail, ShapeInv, LockInv, NoOlderLogin
<1>7. ASSUME NEW t \in Tasks, Close(t) PROVE SessionInv'
  BY <1>7 DEF Close, StartClose, FinishClose, ShapeInv, LockInv, NoOlderLogin
<1>8. CASE UNCHANGED <<pc, current, header, cache, lock, loginClient>>
  BY <1>8 DEF ShapeInv, LockInv, NoOlderLogin
<1> QED BY <1>1, <1>2, <1>3, <1>4, <1>5, <1>6, <1>7, <1>8
      DEF Next, Login, Answer, Expire, Renew, vars, taskVars

\* While tokens are cached, no request goes out on an older login, for any number of tasks
\* that log in, are refused and close the client around each other.
THEOREM LatestLogin == Spec => []NoOlderLogin
<1>1. Init => SessionInv
  BY DEF Init, SessionInv, ShapeInv, LockInv, NoOlderLogin
<1>2. SessionInv => NoOlderLogin
  BY DEF SessionInv
<1> QED BY <1>1, <1>2, SessionStep, PTL DEF Spec
-----------------------------------------------------------------------------
(* Types *)

\* The values of the variables, and that a request in flight, or to be retried, has the
\* client it was sent on.
TokenInv ==
    /\ pc \in [Tasks -> {"idle", "wantLock", "login", "inflight", "closing"}]
    /\ local \in [Tasks -> Clients \union {None}] /\ sent \in [Tasks -> Tokens \union {None}]
    /\ again \in [Tasks -> BOOLEAN] /\ result \in [Tasks -> {"none", "ok", "failed"}]
    /\ current \in Clients \union {None} /\ header \in [Clients -> Tokens \union {None}]
    /\ closed \subseteq Clients /\ cache \in Tokens \union {None}
    /\ lock \in Tasks \union {None} /\ loginClient \in [Tasks -> Clients \union {None}]
    /\ valid \subseteq Tokens /\ store \in Tokens \union {None} /\ faults \in 0 .. MaxFaults
    /\ \A t \in Tasks :
          \/ pc[t] = "inflight"
          \/ again[t] /\ pc[t] \in {"wantLock", "login"}
          => local[t] \in Clients

TypesInv == TokenInv /\ SessionInv /\ OnceInv

\* A new token has a number.
LEMMA TokenNamed == ASSUME FreeTokens # {} PROVE FreshToken \in Tokens
<1> HIDE DEF FreeTokens
<1>1. FreeTokens \subseteq Tokens
  BY DEF FreeTokens
<1>2. FreeTokens \subseteq Nat
  BY <1>1 DEF Tokens
<1>3. Least(FreeTokens) \in FreeTokens
  BY <1>2, LeastOf
<1> QED BY <1>1, <1>3 DEF FreshToken

\* What sending a request leaves.
Sent(t) ==
    /\ pc' = [pc EXCEPT ![t] = "idle"] \/ pc' = [pc EXCEPT ![t] = "inflight"]
    /\ pc'[t] = "inflight" => local'[t] \in Clients
    /\ \A u \in Tasks \ {t} : local'[u] = local[u]
    /\ local' \in [Tasks -> Clients \union {None}] /\ sent' \in [Tasks -> Tokens \union {None}]
    /\ result' \in [Tasks -> {"none", "ok", "failed"}]
    /\ current' \in Clients \union {None} /\ header' \in [Clients -> Tokens \union {None}]
    /\ closed' \subseteq Clients

LEMMA SendTypes ==
    ASSUME TokenInv, NEW t \in Tasks, NEW c \in Clients, NEW isClosed \in BOOLEAN,
           NEW headers \in [Clients -> Tokens \union {None}],
           Send(t, c, headers, isClosed),
           current' \in Clients \union {None}, header' = headers, closed' \subseteq Clients
    PROVE  Sent(t)
<1>1. CASE isClosed
  BY <1>1 DEF Send, Sent, TokenInv
<1>2. CASE ~isClosed
  BY <1>2 DEF Send, Sent, TokenInv
<1> QED BY <1>1, <1>2

LEMMA ProceedTypes ==
    ASSUME TokenInv, NEW t \in Tasks, NEW headers \in [Clients -> Tokens \union {None}],
           SendFirst(t, headers) \/ (SendAgain(t, headers) /\ local[t] \in Clients)
    PROVE  Sent(t)
<1>0. current \in Clients \union {None} /\ closed \subseteq Clients
  BY DEF TokenInv
<1>1. CASE SendAgain(t, headers) /\ local[t] \in Clients
  <2>1. Send(t, local[t], headers, local[t] \in closed) /\ header' = headers
        /\ current' = current /\ closed' = closed
    BY <1>1 DEF SendAgain
  <2>2. (local[t] \in closed) \in BOOLEAN
    OBVIOUS
  <2> QED BY <1>0, <1>1, <2>1, <2>2, SendTypes
<1>2. CASE SendFirst(t, headers) /\ current # None
  <2>1. Send(t, current, headers, current \in closed) /\ header' = headers
        /\ current' = current /\ closed' = closed
    BY <1>2 DEF SendFirst
  <2>2. (current \in closed) \in BOOLEAN /\ current \in Clients
    BY <1>0, <1>2
  <2> QED BY <1>0, <2>1, <2>2, SendTypes
<1>3. CASE SendFirst(t, headers) /\ current = None
  <2> DEFINE c == FreshClient
  <2>1. /\ Send(t, c, [headers EXCEPT ![c] = None], FALSE)
        /\ header' = [headers EXCEPT ![c] = None]
        /\ current' = c /\ closed' = closed \ {c}
    BY <1>3 DEF SendFirst, NewClientHeaders
  <2>2. c \in Clients
    BY <1>3, ClientNamed
  <2> HIDE DEF c
  <2>3. [headers EXCEPT ![c] = None] \in [Clients -> Tokens \union {None}]
    BY <2>2
  <2>4. current' \in Clients \union {None} /\ closed' \subseteq Clients /\ FALSE \in BOOLEAN
    BY <1>0, <2>1, <2>2
  <2> QED BY <2>1, <2>2, <2>3, <2>4, SendTypes
<1> QED BY <1>1, <1>2, <1>3

\* Types after a request went out with nothing else changed but the login.
LEMMA SentTypes ==
    ASSUME TokenInv, NEW t \in Tasks, Sent(t), again' = again \/ again' = [again EXCEPT ![t] = FALSE],
           cache' \in Tokens \union {None}, lock' \in Tasks \union {None},
           loginClient' \in [Tasks -> Clients \union {None}], valid' \subseteq Tokens,
           UNCHANGED <<store, faults>>
    PROVE  TokenInv'
<1>1. pc' \in [Tasks -> {"idle", "wantLock", "login", "inflight", "closing"}]
  BY DEF TokenInv, Sent
<1>2. again' \in [Tasks -> BOOLEAN]
  BY DEF TokenInv
<1>3. \A u \in Tasks :
          \/ pc'[u] = "inflight"
          \/ again'[u] /\ pc'[u] \in {"wantLock", "login"}
          => local'[u] \in Clients
  <2> TAKE u \in Tasks
  <2>1. CASE u = t
    BY <2>1 DEF TokenInv, Sent
  <2>2. CASE u # t
    <3>1. pc'[u] = pc[u] /\ again'[u] = again[u] /\ local'[u] = local[u]
      BY <2>2, Zenon DEF TokenInv, Sent
    <3> QED BY <3>1 DEF TokenInv
  <2> QED BY <2>1, <2>2
<1> QED BY <1>1, <1>2, <1>3 DEF TokenInv, Sent

LEMMA TypesStep == ASSUME TypesInv, [Next]_vars PROVE TokenInv'
<1>0. TokenInv /\ SessionInv
  BY DEF TypesInv
<1>1. ASSUME NEW t \in Tasks, BeginCall(t) PROVE TokenInv'
  <2>1. CASE cache # None /\ SendFirst(t, header)
    <3>1. Sent(t)
      BY <1>0, <2>1, ProceedTypes DEF TokenInv
    <3> QED BY <1>0, <1>1, <3>1, SentTypes DEF BeginCall, TokenInv
  <2>2. CASE pc' = [pc EXCEPT ![t] = "wantLock"]
             /\ UNCHANGED <<local, sent, result, current, header, closed>>
    BY <1>0, <1>1, <2>2 DEF BeginCall, TokenInv
  <2> QED BY <1>1, <2>1, <2>2 DEF BeginCall
<1>2. ASSUME NEW t \in Tasks, AcquireLock(t) PROVE TokenInv'
  <2>0. pc[t] = "wantLock" /\ UNCHANGED <<again, cache, valid, store, faults>>
    BY <1>2 DEF AcquireLock
  <2>1. CASE Proceed(t, header) /\ UNCHANGED <<lock, loginClient>>
    <3>1. SendFirst(t, header) \/ (SendAgain(t, header) /\ local[t] \in Clients)
      BY <1>0, <2>0, <2>1 DEF Proceed, TokenInv
    <3>2. Sent(t)
      BY <1>0, <3>1, ProceedTypes DEF TokenInv
    <3> QED BY <1>0, <2>0, <2>1, <3>2, SentTypes DEF TokenInv
  <2>2. CASE StartLogin(t, IF current # None THEN current ELSE FreshClient)
    <3>1. PICK c \in Clients : StartLogin(t, c)
      BY <1>0, <2>2, ClientNamed DEF TokenInv
    <3> QED BY <1>0, <2>0, <3>1 DEF StartLogin, LoginHeaders, TokenInv
  <2> QED BY <1>2, <2>1, <2>2 DEF AcquireLock
<1>3. ASSUME NEW t \in Tasks, LoginSucceeds(t) PROVE TokenInv'
  <2>1. PICK new : /\ new = IF Shared THEN store ELSE FreshToken
                   /\ cache' = new /\ valid' = IF Shared THEN valid ELSE valid \union {new}
                   /\ Proceed(t, [header EXCEPT ![loginClient[t]] = new])
    BY <1>3 DEF LoginSucceeds
  <2>2. /\ pc[t] = "login" /\ lock' = None /\ loginClient' = [loginClient EXCEPT ![t] = None]
        /\ UNCHANGED <<again, store, faults>> /\ loginClient[t] \in Clients
    BY <1>0, <1>3 DEF LoginSucceeds, SessionInv, LockInv
  <2>3. new \in Tokens /\ valid' \subseteq Tokens
    <3>1. CASE Shared
      BY <1>0, <2>1, <3>1 DEF Shared, TokenInv
    <3>2. CASE ~Shared
      BY <1>0, <1>3, <2>1, <3>2, TokenNamed DEF LoginSucceeds, TokenInv
    <3> QED BY <3>1, <3>2
  <2> DEFINE headers == [header EXCEPT ![loginClient[t]] = new]
  <2>4. headers \in [Clients -> Tokens \union {None}]
    BY <1>0, <2>3 DEF TokenInv
  <2>5. SendFirst(t, headers) \/ (SendAgain(t, headers) /\ local[t] \in Clients)
    BY <1>0, <2>1, <2>2 DEF Proceed, TokenInv
  <2> HIDE DEF headers
  <2>6. Sent(t)
    BY <1>0, <2>4, <2>5, ProceedTypes
  <2>7. loginClient' \in [Tasks -> Clients \union {None}] /\ lock' \in Tasks \union {None}
        /\ cache' \in Tokens \union {None}
    BY <1>0, <2>1, <2>2, <2>3 DEF TokenInv
  <2> QED BY <1>0, <2>2, <2>3, <2>6, <2>7, SentTypes
<1>4. ASSUME NEW t \in Tasks, LoginFails(t) PROVE TokenInv'
  BY <1>0, <1>4 DEF LoginFails, Broken, Fail, TokenInv
<1>5. ASSUME NEW t \in Tasks, RequestSucceeds(t) \/ RequestLost(t) PROVE TokenInv'
  BY <1>0, <1>5 DEF RequestSucceeds, RequestLost, Broken, OnLost, Fail, TokenInv
<1>6. ASSUME NEW t \in Tasks, Unauthorized(t) PROVE TokenInv'
  <2>1. CASE again[t]
    BY <1>0, <1>6, <2>1 DEF Unauthorized, Fail, TokenInv
  <2>2. CASE ~again[t]
    <3>1. /\ again' = [again EXCEPT ![t] = TRUE] /\ pc' = [pc EXCEPT ![t] = "wantLock"]
          /\ cache' = None /\ header' = [header EXCEPT ![local[t]] = None]
          /\ UNCHANGED <<local, sent, result, current, closed, lock, loginClient, valid,
                         store, faults>>
      BY <1>6, <2>2 DEF Unauthorized, CacheForgotten
    <3>2. local[t] \in Clients
      BY <1>0, <1>6 DEF Unauthorized, TokenInv
    <3>3. header' \in [Clients -> Tokens \union {None}]
      BY <1>0, <3>1, <3>2 DEF TokenInv
    <3>4. \A u \in Tasks :
             \/ pc'[u] = "inflight"
             \/ again'[u] /\ pc'[u] \in {"wantLock", "login"}
             => local'[u] \in Clients
      BY <1>0, <3>1, <3>2 DEF TokenInv
    <3> QED BY <1>0, <3>1, <3>3, <3>4 DEF TokenInv
  <2> QED BY <2>1, <2>2
<1>7. ASSUME NEW t \in Tasks, Close(t) PROVE TokenInv'
  BY <1>0, <1>7 DEF Close, StartClose, FinishClose, TokenInv
<1>8. ASSUME NEW k \in Tokens, Expire(k) PROVE TokenInv'
  BY <1>0, <1>8 DEF Expire, taskVars, TokenInv
<1>9. CASE Renew
  BY <1>0, <1>9, TokenNamed DEF Renew, taskVars, TokenInv
<1>10. CASE UNCHANGED vars
  BY <1>0, <1>10 DEF vars, taskVars, TokenInv
<1> QED BY <1>1, <1>2, <1>3, <1>4, <1>5, <1>6, <1>7, <1>8, <1>9, <1>10
      DEF Next, Login, Answer

\* Every variable keeps its type: there is always a name for a new client, and no step takes
\* a client, a token or a count from beyond its bounds.
THEOREM TypeCorrect == Spec => []TypeOK
<1>1. Init => TypesInv
  <2>1. Init => TokenInv
    BY DEF Init, TokenInv, Tokens, Clients, None
  <2> QED BY <2>1 DEF Init, TypesInv, SessionInv, ShapeInv, LockInv, NoOlderLogin, OnceInv
<1>2. TypesInv /\ [Next]_vars => TypesInv'
  BY TypesStep, SessionStep, OnceStep DEF TypesInv
<1>3. TypesInv => TypeOK
  BY DEF TypesInv, TokenInv, OnceInv, TypeOK
<1> QED BY <1>1, <1>2, <1>3, PTL DEF Spec
=============================================================================
