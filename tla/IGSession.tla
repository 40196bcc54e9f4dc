-------------------------------- MODULE IGSession --------------------------------
(***************************************************************************)
(* The session of AsyncIGClient (src/app/adapters/ig_client.py): one       *)
(* singleton shared by every task of a process.  A request needs an httpx  *)
(* client (sessions) that carries the tokens of the last login; the tokens *)
(* are cached next to it (auth_tokens).  Both are read and replaced around *)
(* awaits: by requests, by the re-login after a 401, which a lock          *)
(* serialises, and by close(), which every strategy run calls on leaving   *)
(* `async with AsyncIGClient.get_instance()`.                              *)
(*                                                                         *)
(* One account environment.  Everything a task does between two awaits is  *)
(* one step.  Tokens and clients are numbered and their numbers reused     *)
(* once nothing refers to them.                                            *)
(***************************************************************************)
EXTENDS Integers, FiniteSets

None == 0

CONSTANTS
    Tasks,      \* the tasks that share the client
    MaxTokens, MaxClients,  \* bounds: numbers to name tokens and clients by
    MaxFaults,  \* bound: expiries, failed calls and calls of close()
    InitStores  \* what igsession's Redis holds: None where IG_SHARED_SESSION_URL is not set

ASSUME ConstantsAssumption ==
    /\ MaxTokens \in Nat /\ MaxClients \in Nat /\ MaxFaults \in Nat
    /\ InitStores \subseteq 0..MaxTokens
\* There are names for the clients all tasks hold, and for a new one.
ASSUME TasksAssumption ==
    None \notin Tasks /\ IsFiniteSet(Tasks) /\ 2 * Cardinality(Tasks) < MaxClients

VARIABLES
    pc,         \* the await of each task
    local,      \* its local variable client
    sent,       \* the token its request in flight carries
    again,      \* it is retrying after a 401
    done,       \* times the broker has executed its current call
    result,     \* how its last call ended
    current,    \* sessions[env]
    header,     \* the token in each client's headers
    closed,     \* the clients that have been closed
    cache,      \* auth_tokens[env]
    lock,       \* the holder of _lock
    loginClient,    \* the client each task logs in with
    valid,      \* the tokens the broker accepts
    store,      \* the token igsession keeps in Redis (shared sessions)
    faults      \* faults so far

taskVars == <<pc, local, sent, again, done, result>>
vars == <<taskVars, current, header, closed, cache, lock, loginClient,
          valid, store, faults>>

Tokens  == 1..MaxTokens
Clients == 1..MaxClients

Init ==
    /\ pc = [t \in Tasks |-> "idle"] /\ local = [t \in Tasks |-> None]
    /\ sent = [t \in Tasks |-> None] /\ again = [t \in Tasks |-> FALSE]
    /\ done = [t \in Tasks |-> 0] /\ result = [t \in Tasks |-> "none"]
    /\ current = None /\ header = [c \in Clients |-> None] /\ closed = {}
    /\ cache = None /\ lock = None /\ faults = 0 /\ loginClient = [t \in Tasks |-> None]
    /\ store \in InitStores /\ valid = {store} \ {None}

\* Tokens are read from the shared session instead of logging in.
Shared == store # None

Least(S) == CHOOSE x \in S : \A y \in S : x <= y

\* A number for a client nobody refers to any more, and one for a token, while there is one.
FreshClient == Least(Clients \ ({current} \union {local[t] : t \in Tasks}
                                        \union {loginClient[t] : t \in Tasks}))
FreeTokens  == Tokens \ ({cache, store} \union {header[c] : c \in Clients}
                           \union {sent[t] : t \in Tasks} \union valid)
FreshToken  == Least(FreeTokens)

\* client.request on c up to its first await: the headers are copied; a closed client raises.
Send(t, c, headers, isClosed) ==
    IF isClosed
      THEN /\ pc' = [pc EXCEPT ![t] = "idle"] /\ result' = [result EXCEPT ![t] = "failed"]
           /\ local' = [local EXCEPT ![t] = None] /\ UNCHANGED sent
      ELSE /\ pc' = [pc EXCEPT ![t] = "inflight"] /\ UNCHANGED result
           /\ local' = [local EXCEPT ![t] = c] /\ sent' = [sent EXCEPT ![t] = headers[c]]

\* _get_session: the current client, or a new one whose headers carry no token.
NewClientHeaders(headers) == [headers EXCEPT ![FreshClient] = None]

SendFirst(t, headers) ==
    IF current # None
      THEN /\ Send(t, current, headers, current \in closed)
           /\ header' = headers /\ UNCHANGED <<current, closed>>
      ELSE /\ Send(t, FreshClient, NewClientHeaders(headers), FALSE)
           /\ current' = FreshClient /\ closed' = closed \ {FreshClient}
           /\ header' = NewClientHeaders(headers)

\* The retry goes out on the client the request started with.
SendAgain(t, headers) ==
    /\ Send(t, local[t], headers, local[t] \in closed)
    /\ header' = headers /\ UNCHANGED <<current, closed>>

Proceed(t, headers) == IF again[t] THEN SendAgain(t, headers) ELSE SendFirst(t, headers)

\* _api_request up to its first await.
BeginCall(t) ==
    /\ pc[t] = "idle"
    /\ again' = [again EXCEPT ![t] = FALSE] /\ done' = [done EXCEPT ![t] = 0]
    /\ \/ /\ cache = None /\ pc' = [pc EXCEPT ![t] = "wantLock"]
          /\ UNCHANGED <<local, sent, result, current, header, closed>>
       \/ cache # None /\ SendFirst(t, header)
    /\ UNCHANGED <<cache, lock, loginClient, valid, store, faults>>

\* authenticate up to the login: the session's client, its old tokens removed.
LoginHeaders(c) == [header EXCEPT ![c] = None]

StartLogin(t, c) ==
    /\ lock' = t /\ loginClient' = [loginClient EXCEPT ![t] = c]
    /\ pc' = [pc EXCEPT ![t] = "login"]
    /\ current' = c /\ closed' = IF current = None THEN closed \ {c} ELSE closed
    /\ header' = LoginHeaders(c)
    /\ UNCHANGED <<local, sent, result>>

NoLock   == TRUE
LockFree == lock = None

\* The lock is free.  Somebody else may have logged in while this task waited for it.
AcquireLock(t) ==
    /\ pc[t] = "wantLock" /\ LockFree
    /\ \/ cache # None /\ Proceed(t, header) /\ UNCHANGED <<lock, loginClient>>
       \/ cache = None /\ StartLogin(t, IF current # None THEN current ELSE FreshClient)
    /\ UNCHANGED <<again, done, cache, valid, store, faults>>

Fail(t) ==
    /\ pc' = [pc EXCEPT ![t] = "idle"] /\ result' = [result EXCEPT ![t] = "failed"]
    /\ local' = [local EXCEPT ![t] = None] /\ sent' = [sent EXCEPT ![t] = None]

\* A call fails for lack of network, which uses up a fault, or because its client is closed.
Broken(c) == IF c \in closed THEN UNCHANGED faults
                              ELSE faults < MaxFaults /\ faults' = faults + 1

\* POST /session answered (or the shared tokens read): cache and headers get the new
\* tokens, the lock is released, the request goes out.
LoginSucceeds(t) ==
    /\ pc[t] = "login" /\ (Shared \/ FreeTokens # {})
    /\ LET new == IF Shared THEN store ELSE FreshToken IN
         /\ cache' = new /\ valid' = IF Shared THEN valid ELSE valid \union {new}
         /\ Proceed(t, [header EXCEPT ![loginClient[t]] = new])
    /\ lock' = None /\ loginClient' = [loginClient EXCEPT ![t] = None]
    /\ UNCHANGED <<again, done, store, faults>>

LoginFails(t) ==
    /\ pc[t] = "login" /\ Broken(loginClient[t])
    /\ Fail(t)
    /\ lock' = None /\ loginClient' = [loginClient EXCEPT ![t] = None]
    /\ UNCHANGED <<again, done, current, header, closed, cache, valid, store>>

Executed(t) == [done EXCEPT ![t] = @ + 1]

RequestSucceeds(t) ==
    /\ pc[t] = "inflight" /\ sent[t] \in valid
    /\ done' = Executed(t)
    /\ pc' = [pc EXCEPT ![t] = "idle"] /\ result' = [result EXCEPT ![t] = "ok"]
    /\ local' = [local EXCEPT ![t] = None] /\ sent' = [sent EXCEPT ![t] = None]
    /\ UNCHANGED <<again, current, header, closed, cache, lock, loginClient, valid, store,
                   faults>>

\* No answer: the broker may have executed the call all the same.
RetryLost(t) ==
    /\ pc' = [pc EXCEPT ![t] = "wantLock"] /\ again' = [again EXCEPT ![t] = TRUE]
    /\ UNCHANGED <<local, sent, result>>
OnLost(t) == Fail(t) /\ UNCHANGED again

RequestLost(t) ==
    /\ pc[t] = "inflight" /\ Broken(local[t])
    /\ done' \in {done} \union (IF sent[t] \in valid THEN {Executed(t)} ELSE {})
    /\ OnLost(t)
    /\ UNCHANGED <<current, header, closed, cache, lock, loginClient, valid, store>>

\* 401: forget the tokens, remove them from the headers, log in and retry, once.
CacheKept      == cache
CacheForgotten == None

Unauthorized(t) ==
    /\ pc[t] = "inflight" /\ sent[t] \notin valid
    /\ IF again[t]
         THEN Fail(t) /\ UNCHANGED <<again, header, cache>>
         ELSE /\ again' = [again EXCEPT ![t] = TRUE] /\ pc' = [pc EXCEPT ![t] = "wantLock"]
              /\ cache' = CacheForgotten /\ header' = [header EXCEPT ![local[t]] = None]
              /\ UNCHANGED <<local, sent, result>>
    /\ UNCHANGED <<done, current, closed, lock, loginClient, valid, store, faults>>

\* close(): the client is closed at once, and dropped after an await.  The cached tokens
\* stay.
StartClose(t) ==
    /\ pc[t] = "idle" /\ faults < MaxFaults /\ faults' = faults + 1
    /\ pc' = [pc EXCEPT ![t] = "closing"]
    /\ closed' = closed \union ({current} \ {None})
    /\ UNCHANGED <<local, sent, again, done, result, current, header, cache, lock,
                   loginClient, valid, store>>

FinishClose(t) ==
    /\ pc[t] = "closing" /\ pc' = [pc EXCEPT ![t] = "idle"]
    /\ current' = None
    /\ UNCHANGED <<local, sent, again, done, result, header, closed, cache, lock, loginClient,
                   valid, store, faults>>

-----------------------------------------------------------------------------
(* The broker, and igsession *)

Expire(k) ==
    /\ k \in valid /\ faults < MaxFaults /\ faults' = faults + 1
    /\ valid' = valid \ {k}
    /\ UNCHANGED <<taskVars, current, header, closed, cache, lock, loginClient, store>>

Renew ==
    /\ Shared /\ store \notin valid /\ FreeTokens # {}
    /\ store' = FreshToken /\ valid' = valid \union {store'}
    /\ UNCHANGED <<taskVars, current, header, closed, cache, lock, loginClient, faults>>

Login(t)  == AcquireLock(t) \/ LoginSucceeds(t) \/ LoginFails(t)
Answer(t) == RequestSucceeds(t) \/ RequestLost(t) \/ Unauthorized(t)
Close(t)  == StartClose(t) \/ FinishClose(t)

Next == \/ \E t \in Tasks : BeginCall(t) \/ Login(t) \/ Answer(t) \/ Close(t)
        \/ \E k \in Tokens : Expire(k)
        \/ Renew

Spec == Init /\ [][Next]_vars

\* Tasks go on making calls, calls return (the client has a 10 s timeout), the lock is
\* handed on in the order of its waiters, and igsession keeps its login alive.
FairSpec ==
    /\ Spec /\ WF_vars(Renew)
    /\ \A t \in Tasks : /\ WF_vars(BeginCall(t)) /\ WF_vars(Answer(t)) /\ WF_vars(FinishClose(t))
                       /\ SF_vars(AcquireLock(t))
                       /\ WF_vars(LoginSucceeds(t) \/ LoginFails(t))

-----------------------------------------------------------------------------
(* Properties *)

TypeOK ==
    /\ pc \in [Tasks -> {"idle", "wantLock", "login", "inflight", "closing"}]
    /\ local \in [Tasks -> Clients \union {None}] /\ sent \in [Tasks -> Tokens \union {None}]
    /\ again \in [Tasks -> BOOLEAN] /\ done \in [Tasks -> 0..2]
    /\ result \in [Tasks -> {"none", "ok", "failed"}]
    /\ current \in Clients \union {None} /\ header \in [Clients -> Tokens \union {None}]
    /\ closed \subseteq Clients /\ cache \in Tokens \union {None}
    /\ lock \in Tasks \union {None} /\ loginClient \in [Tasks -> Clients \union {None}]
    /\ valid \subseteq Tokens /\ store \in Tokens \union {None} /\ faults \in 0..MaxFaults

\* The broker executes a call at most once, although it is retried after a 401: no order is
\* placed twice by the session handling.
NeverTwice == \A t \in Tasks : done[t] <= 1

\* While tokens are cached, the client the next request goes out on carries these tokens or
\* none: whatever tasks log in and close around each other, no older login is ever used.
NoOlderLogin == (current # None /\ cache # None) => header[current] \in {None, cache}

\* Once tokens stop expiring, the network stops failing and nobody calls close(), every
\* call succeeds from some time on: no order of events leaves the client unusable.
Heals == <>[](\A t \in Tasks : result[t] # "failed")
=============================================================================
