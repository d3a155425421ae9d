---------------------------- MODULE RateLimiter ----------------------------
(***************************************************************************)
(* Pacing of tool calls (RateLimiter over MemoryTokenBucket).  A call      *)
(* takes one token of its agent-tool-incident bucket and one of its        *)
(* agent's bucket, or none at all; both refill continuously.  The store's  *)
(* lock makes an acquisition one step.  A store that fails is not asked    *)
(* again: the call is refused, or goes on without a token, as FailClosed   *)
(* says (off by default, on in production).                                *)
(*                                                                         *)
(* Time passes in ticks, Window of them in the rate window, and levels are *)
(* counted in parts of a token: a token is Window parts, and a tick brings *)
(* a bucket as many parts as its capacity.  A bucket not stored is full.   *)
(***************************************************************************)
EXTENDS Integers

CONSTANTS
  Callers, Tools, Incidents,
  Any,               \* the tool and incident of an agent's own bucket
  PerToolIncident,   \* capacity of an agent-tool-incident bucket, in tokens
  PerAgent,          \* capacity of an agent's bucket, in tokens
  Window,            \* ticks in which an empty bucket fills
  FailClosed,        \* whether a call is refused when the store fails
  MaxWatch           \* ticks for which the history is watched (bound)

ASSUME RateAssumption ==
  /\ Any \notin Tools
  /\ {PerToolIncident, PerAgent, Window, MaxWatch} \subseteq Nat \ {0}
  /\ FailClosed \in BOOLEAN

IncidentKeys == Callers \X Tools \X Incidents
AgentKey(k) == <<k[1], Any, Any>>
Keys == IncidentKeys \cup {AgentKey(k) : k \in IncidentKeys}

Capacity(k) == IF k[2] = Any THEN PerAgent ELSE PerToolIncident
Full(k) == Capacity(k) * Window

VARIABLES
  tokens,   \* the level of each bucket
  watch     \* history: from some moment on, the level each bucket had then,
            \* the tokens given and the ticks passed since, and whether
            \* a call was admitted without one

rateVars == <<tokens, watch>>

---------------------------------------------------------------------------
LessOf(m, n) == IF m <= n THEN m ELSE n

(* The lazy refill of try_acquire_all, for one tick.                       *)
Refilled(k) == LessOf(Full(k), tokens[k] + Capacity(k))

(* One token of each of these keys.                                        *)
TakenFrom(keys) == [k \in Keys |-> IF k \in keys THEN tokens[k] - Window ELSE tokens[k]]

HasToken(k) == tokens[k] >= Window

WatchFrom(level) == [from |-> level, spent |-> 0, age |-> 0, unmetered |-> FALSE]

(* Mutant: the agent's own bucket is drawn on without being looked at.     *)
CanAcquire_OwnBucketOnly(key) == HasToken(key)

(* Both buckets have a token.                                              *)
CanAcquire(key) == HasToken(key) /\ HasToken(AgentKey(key))

(* allow, admitted: all keys have a token and each gives one.              *)
Admit(key) ==
  /\ CanAcquire(key)
  /\ tokens' = TakenFrom({key, AgentKey(key)})
  /\ watch' = [k \in Keys |-> IF k \in {key, AgentKey(key)}
                                THEN [watch[k] EXCEPT !.spent = @ + 1] ELSE watch[k]]

(* Mutant: the buckets are drawn on one by one.                            *)
Refuse_DrawsFirst(key) ==
  /\ ~CanAcquire(key)
  /\ tokens' = IF HasToken(key) THEN TakenFrom({key}) ELSE tokens
  /\ UNCHANGED watch

(* allow, refused: nothing is written.                                     *)
Refuse(key) ==
  /\ ~CanAcquire(key)
  /\ UNCHANGED rateVars

(* allow, with a store that raises: no token is taken, and unless the      *)
(* limiter fails closed the call goes on all the same.                     *)
StoreFails(key) ==
  /\ watch' = [k \in Keys |-> IF k \in {key, AgentKey(key)}
                                THEN [watch[k] EXCEPT !.unmetered = @ \/ ~FailClosed]
                                ELSE watch[k]]
  /\ UNCHANGED tokens

(* Time passes; after MaxWatch ticks the watch starts anew.                *)
Elapse ==
  /\ tokens' = [k \in Keys |-> Refilled(k)]
  /\ watch' = [k \in Keys |->
                 IF watch[k].age < MaxWatch
                   THEN [watch[k] EXCEPT !.age = @ + 1]
                   ELSE WatchFrom(Refilled(k))]

(* History only: any moment may be the first of the watch.                 *)
StartWatch ==
  /\ watch' = [k \in Keys |-> WatchFrom(tokens[k])]
  /\ UNCHANGED tokens

RateInit ==
  /\ tokens = [k \in Keys |-> Full(k)]
  /\ watch = [k \in Keys |-> WatchFrom(Full(k))]

RateNext ==
  \/ \E key \in IncidentKeys : Admit(key) \/ Refuse(key) \/ StoreFails(key)
  \/ Elapse
  \/ StartWatch

RateSpec == RateInit /\ [][RateNext]_rateVars

---------------------------------------------------------------------------
(* Properties.                                                             *)

(* Levels stay between empty and full.                                     *)
RateTypeOK ==
  /\ tokens \in [Keys -> Nat]
  /\ watch \in [Keys -> [from : Nat, spent : Nat, age : 0 .. MaxWatch, unmetered : BOOLEAN]]
  /\ \A k \in Keys : tokens[k] <= Full(k)

(* From any moment on, and until a call passes because the store failed,   *)
(* the calls admitted under a key are at most its capacity and what        *)
(* refills in the time that passed: no order of calls, pauses and refusals *)
(* lets a node run ahead of its cap.                                       *)
BurstIsBounded ==
  \A k \in Keys :
    ~watch[k].unmetered =>
      watch[k].spent * Window <= Capacity(k) * Window + Capacity(k) * watch[k].age

(* Only an admitted call costs anything.  A call that one bucket refuses   *)
(* leaves the other as it was, a refused caller that keeps asking does not *)
(* hold back its own refill, and a call the store failed on takes nothing. *)
RefusalsAreFree ==
  \A k \in Keys :
    tokens[k] + watch[k].spent * Window
      >= LessOf(Full(k), watch[k].from + Capacity(k) * watch[k].age)
===========================================================================
