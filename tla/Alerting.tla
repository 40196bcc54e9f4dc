-------------------------------- MODULE Alerting --------------------------------
(***************************************************************************)
(* What the two services have in common that alert the user, Watchdog and  *)
(* PriceSensor: they ask or hear Redis, which may stop, and judge by ages. *)
(***************************************************************************)
EXTENDS Integers

CONSTANTS
    MaxDelay,   \* bound: how long an answer or a tick may wait
    None

ASSUME NoneAssumption == None \notin Int

VARIABLE redisUp

\* Time passes: an age is counted up to where nothing depends on it any more.
Older(age, most) == IF age = None \/ age = most THEN age ELSE age + 1
=============================================================================
