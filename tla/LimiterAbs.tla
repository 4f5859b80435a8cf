----------------------------- MODULE LimiterAbs -----------------------------
(***************************************************************************)
(* What httpmw.RateLimiter promises, with buckets, stamps and the sweeping *)
(* goroutine left out: every client has a level, which time fills up to    *)
(* Full and only a request that is let through takes from.                 *)
(***************************************************************************)
EXTENDS Integers

CONSTANTS
    Clients,
    Full,    \* the level of a client that has not asked for long
    Gain,    \* what a tick adds
    Price    \* what a request costs

VARIABLES now,     \* the clock
          level    \* level[c]: what client c may still spend
absVars == <<now, level>>

Init == now = 0 /\ level = [c \in Clients |-> Full]

Filled(n) == IF n + Gain > Full THEN Full ELSE n + Gain

Tick == /\ now' = now + 1
        /\ level' = [c \in Clients |-> Filled(level[c])]

Spend(c) == /\ level[c] >= Price
            /\ level' = [level EXCEPT ![c] = @ - Price]
            /\ UNCHANGED now

Next == Tick \/ \E c \in Clients : Spend(c)

Spec == Init /\ [][Next]_absVars
==============================================================================
