---------------------------- MODULE RateLimiter ----------------------------
(***************************************************************************)
(* FixedWindowRateLimiter (rate-limit.ts), which server.ts puts before the *)
(* paid NFT orders: a counter per client and one for all clients, each for *)
(* a window that begins with the first request after the last one ended.   *)
(* The counters live in the process.                                       *)
(***************************************************************************)
EXTENDS Integers, FiniteSets

CONSTANTS Keys,         \* clients, by address
          Requests,     \* names of requests, each made at most once
          PerKeyLimit, GlobalLimit,
          Window,       \* length of a window
          MaxClock,     \* bound: the model's last moment
          None

Windows == [count : Nat, resetAt : Nat]

ASSUME LimiterAssumption ==
  /\ PerKeyLimit \in Nat \ {0} /\ GlobalLimit \in Nat \ {0}
  /\ Window \in Nat \ {0} /\ MaxClock \in Nat
  /\ None \notin Windows   \* what is absent is no record

VARIABLES clock,
          global,    \* the window of all clients
          keys,      \* the window of each client
          admitted   \* history: the requests this process let through

limiter == <<global, keys, admitted>>

LimiterTypeOK ==
  /\ clock \in 0 .. MaxClock
  /\ global \in Windows
  /\ keys \in [Keys -> Windows \cup {None}]
  /\ admitted \subseteq [request : Requests, key : Keys, at : 0 .. MaxClock]

\* The constructor, at the present time.
Fresh(now) ==
  [global |-> [count |-> 0, resetAt |-> now + Window], keys |-> [k \in Keys |-> None]]

LimiterInit ==
  /\ clock = 0 /\ admitted = {}
  /\ global = Fresh(0).global /\ keys = Fresh(0).keys

Current(w) ==
  IF w = None \/ clock >= w.resetAt THEN [count |-> 0, resetAt |-> clock + Window] ELSE w

Allowed(k) ==
  Current(keys[k]).count < PerKeyLimit /\ Current(global).count < GlobalLimit

Incremented(w) == [w EXCEPT !.count = @ + 1]

\* consume, for a request it lets through
Admit(r, k) ==
  /\ Allowed(k)
  /\ global' = Incremented(Current(global))
  /\ keys' = [keys EXCEPT ![k] = Incremented(Current(@))]
  /\ admitted' = admitted \cup {[request |-> r, key |-> k, at |-> clock]}

\* consume, for one it does not: only the window of all clients is renewed.
Limit(k) ==
  /\ ~Allowed(k)
  /\ global' = Current(global)
  /\ UNCHANGED <<keys, admitted>>

\* A restarted process counts from zero.
LimiterRestart ==
  /\ global' = Fresh(clock).global /\ keys' = Fresh(clock).keys
  /\ admitted' = {}

LimiterTick ==
  /\ clock < MaxClock
  /\ clock' = clock + 1
  /\ UNCHANGED limiter

Unused == Requests \ {a.request : a \in admitted}

\* The limiter by itself, with requests as the clients please.
LimiterNext ==
  \/ LimiterTick
  \/ /\ UNCHANGED clock
     /\ \/ /\ Unused # {}
           /\ \E k \in Keys : Admit(CHOOSE r \in Unused : TRUE, k)
        \/ \E k \in Keys : Limit(k)
        \/ LimiterRestart

LimiterSpec == LimiterInit /\ [][LimiterNext]_<<clock, limiter>>

Within(S, t) == {a \in S : t <= a.at /\ a.at < t + Window}

\* What windows that begin on demand guarantee for any period of their length,
\* not only for those that begin with a window: less than twice the limit per
\* client, and twice the limit for all, since the first window of all clients
\* begins when the process does.
RateBound ==
  \A t \in 0 .. MaxClock :
    /\ \A k \in Keys : Cardinality(Within({a \in admitted : a.key = k}, t)) < 2 * PerKeyLimit
    /\ Cardinality(Within(admitted, t)) <= 2 * GlobalLimit
=============================================================================
