--------------------------- MODULE StreamSupervisor ---------------------------
(***************************************************************************)
(* The supervisors of the price stream (src/app/streamer/manager.py) and   *)
(* the node processes they run (src/app/adapters/js/stream_service.js):    *)
(* one task per market logs in or takes the shared tokens, starts a        *)
(* process that prints ticks into a pipe, waits for it to end, and starts  *)
(* the next after a backoff.  A second task per market reads the pipe and  *)
(* publishes each tick on Redis.                                           *)
(*                                                                         *)
(* A run counts as healthy when it lasted longer than 90 s; the node       *)
(* process ends itself after 120 s without a tick and 60 s after its       *)
(* connection was lost.                                                    *)
(***************************************************************************)
EXTENDS MarketConfigs, Naturals, FiniteSets

CONSTANTS
    InitialBackoff, \* INITIAL_BACKOFF_S
    MaxBackoff,     \* MAX_BACKOFF_S
    InitStores,     \* what igsession's Redis may hold first, None without one
    MuteLinks       \* may the broker keep a link open and quote nothing on it?

ASSUME BackoffAssumption ==
    InitialBackoff \in Nat /\ MaxBackoff \in Nat /\ InitialBackoff < MaxBackoff
ASSUME StoreAssumption == InitStores \subseteq {"good", "stale", None}
ASSUME NoneAssumption == None \notin {"good", "stale"}
ASSUME MuteAssumption == MuteLinks \in BOOLEAN

\* Failures in a row after which a supervisor logs in again.
ReauthAfter == 3

VARIABLES
    cached,     \* auth_tokens[env]: still valid at the broker, expired, or None
    store,      \* the tokens of the shared session, None when the trader has its own login
    pc,         \* supervisor: "idle" (before an attempt), "login", or "run"
    backoff,    \* the next sleep of a supervisor
    fails,      \* consecutive_fast_failures, counted up to ReauthAfter
    alerted,    \* _alerted_cap
    creds,      \* the tokens the process was started with
    link,       \* the process's connection: "none" without a process, "connecting",
                \* "live" (ticks come), "mute" or "blocked" (node waits for the pipe)
    aged,       \* the run has lasted longer than HEALTHY_RUN_THRESHOLD_S
    reading,    \* the task that reads the pipe is alive
    onLogin     \* with its own login: processes started in a row with one login, without a
                \* healthy run

vars == <<cached, store, pc, backoff, fails, alerted, creds, link, aged, reading,
          onLogin>>
process == <<creds, link, aged, reading>>

Tokens == {"good", "stale", None}
Links == {"none", "connecting", "live", "mute", "blocked"}

TypeOK ==
    /\ cached \in Tokens /\ store \in Tokens
    /\ pc \in [Markets -> {"idle", "login", "run"}]
    /\ backoff \in [Markets -> InitialBackoff .. MaxBackoff]
    /\ fails \in [Markets -> 0 .. ReauthAfter]
    /\ alerted \subseteq Markets
    /\ creds \in [Markets -> Tokens]
    /\ link \in [Markets -> Links]
    /\ aged \in [Markets -> BOOLEAN] /\ reading \in [Markets -> BOOLEAN]
    /\ onLogin \in [Markets -> Nat]
    /\ \A m \in Markets : link[m] # "none" <=> pc[m] = "run"

\* _run_session has just logged in and starts one supervisor per market.
Init ==
    /\ store \in InitStores
    /\ cached = IF store = None THEN "good" ELSE store
    /\ pc = [m \in Markets |-> "idle"]
    /\ backoff = [m \in Markets |-> InitialBackoff]
    /\ fails = [m \in Markets |-> 0]
    /\ alerted = {}
    /\ creds = [m \in Markets |-> None]
    /\ link = [m \in Markets |-> "none"]
    /\ aged = [m \in Markets |-> FALSE]
    /\ reading = [m \in Markets |-> FALSE]
    /\ onLogin = [m \in Markets |-> 0]

-----------------------------------------------------------------------------
(* The end of an attempt, healthy or not: the bookkeeping of _stream_market. *)

\* The next backoff after a failure.
Uncapped(b) == 2 * b
Doubled(b) == IF 2 * b < MaxBackoff THEN 2 * b ELSE MaxBackoff

\* A run is healthy when it lasted, whatever came through it.
Healthy(m) == aged[m]

AfterHealthyStillAlerted(m) ==
    /\ backoff' = [backoff EXCEPT ![m] = InitialBackoff]
    /\ fails' = [fails EXCEPT ![m] = 0]
    /\ onLogin' = [onLogin EXCEPT ![m] = 0]
    /\ UNCHANGED alerted
AfterHealthy(m) ==
    /\ backoff' = [backoff EXCEPT ![m] = InitialBackoff]
    /\ fails' = [fails EXCEPT ![m] = 0]
    /\ alerted' = alerted \ {m}
    /\ onLogin' = [onLogin EXCEPT ![m] = 0]

AfterFailure(m) ==
    /\ backoff' = [backoff EXCEPT ![m] = Doubled(@)]
    /\ fails' = [fails EXCEPT ![m] = IF @ < ReauthAfter THEN @ + 1 ELSE @]
    /\ alerted' = IF Doubled(backoff[m]) >= MaxBackoff THEN alerted \union {m} ELSE alerted
    /\ UNCHANGED onLogin

\* The supervisor is done with an attempt that had no process, or whose process ended.
AttemptEnds(m) ==
    /\ pc' = [pc EXCEPT ![m] = "idle"]
    /\ creds' = [creds EXCEPT ![m] = None]
    /\ link' = [link EXCEPT ![m] = "none"]
    /\ aged' = [aged EXCEPT ![m] = FALSE]
    /\ reading' = [reading EXCEPT ![m] = FALSE]
    /\ IF Healthy(m) THEN AfterHealthy(m) ELSE AfterFailure(m)

-----------------------------------------------------------------------------
(* Attempts *)

ReauthNever(m) == FALSE
ReauthDue(m) == fails[m] >= ReauthAfter

\* The sleep is over: after three fast failures the cached tokens are dropped first.
BeginAttempt(m) ==
    /\ pc[m] = "idle"
    /\ cached' = IF ReauthDue(m) THEN None ELSE cached
    /\ pc' = [pc EXCEPT ![m] = "login"]
    /\ UNCHANGED <<store, backoff, fails, alerted, process, onLogin>>

\* One more process on a login, counted up to where nothing depends on it any more.
OnceMore(n) == IF n > ReauthAfter THEN n ELSE n + 1

\* A process runs on the tokens the cache holds, with a reader for its pipe; tries are the
\* processes that were started before it on the same login.
Spawn(m, tokens, tries) ==
    /\ pc' = [pc EXCEPT ![m] = "run"]
    /\ creds' = [creds EXCEPT ![m] = tokens]
    /\ link' = [link EXCEPT ![m] = "connecting"]
    /\ reading' = [reading EXCEPT ![m] = TRUE]
    /\ onLogin' = IF store = None THEN [tries EXCEPT ![m] = OnceMore(@)] ELSE onLogin
    /\ fails' = IF ReauthDue(m) THEN [fails EXCEPT ![m] = 0] ELSE fails
    /\ UNCHANGED <<store, backoff, alerted, aged>>

\* authenticate returns at once when there are tokens, whoever fetched them.
TakeTokens(m) ==
    /\ pc[m] = "login" /\ cached # None
    /\ Spawn(m, cached, onLogin)
    /\ UNCHANGED cached

\* Without tokens the holder of the client's lock logs in, or reads the shared session.
LogIn(m) ==
    /\ pc[m] = "login" /\ cached = None
    /\ cached' = IF store = None THEN "good" ELSE store
    /\ Spawn(m, cached', [n \in Markets |-> 0])

LogInFails(m) ==
    /\ pc[m] = "login" /\ cached = None
    /\ AttemptEnds(m)
    /\ UNCHANGED <<cached, store>>

-----------------------------------------------------------------------------
(* The node process *)

Exit(m) ==
    /\ AttemptEnds(m)
    /\ UNCHANGED <<cached, store>>

\* Disconnected or stalled, or the process could not be started or crashed.
Exits(m) == link[m] \notin {"none", "blocked"} /\ Exit(m)

\* A connection that does not come about is refused, or ended by the recovery timer.
GivesUp(m) == link[m] = "connecting" /\ Exit(m)

\* No tick for HEARTBEAT_TIMEOUT_MS, which is longer than a healthy run.
HeartbeatExpires(m) == link[m] = "mute" /\ aged[m] /\ Exit(m)

LinkBecomes(m, to) ==
    /\ link' = [link EXCEPT ![m] = to]
    /\ UNCHANGED <<cached, store, pc, backoff, fails, alerted, creds, aged, reading,
                   onLogin>>

Connects(m) ==
    /\ link[m] \in {"connecting", "mute"} /\ creds[m] = "good"
    /\ LinkBecomes(m, "live")

\* No quotes on an open connection, as at the weekend.
GoesMute(m) ==
    /\ MuteLinks /\ link[m] \in {"connecting", "live"}
    /\ LinkBecomes(m, "mute")

LosesConnection(m) ==
    /\ link[m] \in {"live", "mute"}
    /\ LinkBecomes(m, "connecting")

\* 90 s have passed since the attempt began.
PassesThreshold(m) ==
    /\ link[m] \in {"live", "mute"} /\ ~aged[m]
    /\ aged' = [aged EXCEPT ![m] = TRUE]
    /\ UNCHANGED <<cached, store, pc, backoff, fails, alerted, creds, link, reading, onLogin>>

\* A Redis error in _process_stream_line ends the task that reads the pipe, and nobody
\* looks at that task before the process has ended.
AfterPublishError(m) == FALSE
PublishFails(m) ==
    /\ link[m] = "live" /\ reading[m]
    /\ reading' = [reading EXCEPT ![m] = AfterPublishError(m)]
    /\ UNCHANGED <<cached, store, pc, backoff, fails, alerted, creds, link, aged,
                   onLogin>>

\* The pipe is full: node waits in a write, and with it its timers and its listeners.
PipeFills(m) ==
    /\ link[m] = "live" /\ ~reading[m]
    /\ LinkBecomes(m, "blocked")

-----------------------------------------------------------------------------
(* The broker, the shared session and the calendar *)

Expired(t) == IF t = "good" THEN "stale" ELSE t
Expire ==
    /\ cached' = Expired(cached) /\ store' = Expired(store)
    /\ creds' = [m \in Markets |-> Expired(creds[m])]
    /\ UNCHANGED <<pc, backoff, fails, alerted, link, aged, reading, onLogin>>

Renew ==
    /\ store = "stale" /\ store' = "good"
    /\ UNCHANGED <<cached, pc, backoff, fails, alerted, process, onLogin>>

-----------------------------------------------------------------------------

Supervise(m) == BeginAttempt(m) \/ TakeTokens(m) \/ LogIn(m) \/ LogInFails(m)
Node(m) ==
    \/ Exits(m) \/ GivesUp(m) \/ HeartbeatExpires(m) \/ Connects(m) \/ GoesMute(m)
    \/ LosesConnection(m) \/ PassesThreshold(m) \/ PublishFails(m) \/ PipeFills(m)

Next == (\E m \in Markets : Supervise(m) \/ Node(m)) \/ Expire \/ Renew

Spec == Init /\ [][Next]_vars

\* Sleeps end and the node process's timers fire (its heartbeat timer after the weekend).
\* Again and again the broker accepts a login and a connection and igsession renews its
\* session.
Fairness ==
    /\ \A m \in Markets :
          /\ WF_vars(BeginAttempt(m)) /\ WF_vars(TakeTokens(m)) /\ SF_vars(LogIn(m))
          /\ WF_vars(GivesUp(m)) /\ WF_vars(HeartbeatExpires(m))
          /\ WF_vars(PassesThreshold(m)) /\ SF_vars(Connects(m))
    /\ WF_vars(Renew)
FairSpec == Spec /\ Fairness

-----------------------------------------------------------------------------

\* The user has been told of a market at the backoff cap exactly while it is there: once per
\* outage, and again in the next one.
AlertedExactlyAtCap == \A m \in Markets : m \in alerted <=> backoff[m] = MaxBackoff

\* With its own login the trader starts at most three processes of a market in a row on one
\* login, unless one of them ran healthily: expired tokens are replaced, although all markets
\* share the cache and each of them may drop or refill it.
LoginTriedThrice == \A m \in Markets : onLogin[m] <= ReauthAfter

Published(m) == link[m] = "live" /\ reading[m]

\* However it disconnects, is refused or fails to log in, every market's ticks come back once
\* tokens stop expiring, as long as the link is not mute and Redis has not failed under the
\* reader of its pipe.
TicksComeBack ==
    \A m \in Markets :
        \/ []<><<Expire>>_vars
        \/ []<>(Published(m) \/ link[m] = "mute" \/ (link[m] # "none" /\ ~reading[m]))

\* "Manages the 24/7 IG Lightstreamer connection" (manager.py:24): every market's ticks come
\* back.  A process whose reader has died on a Redis error blocks on its full pipe and is
\* waited for for good.
StreamsAlways == \A m \in Markets : []<>Published(m)
=============================================================================
