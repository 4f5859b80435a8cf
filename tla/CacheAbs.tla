------------------------------ MODULE CacheAbs ------------------------------
(***************************************************************************)
(* What cache.Cache promises the handlers, with entries, expiry stamps and *)
(* the sweeping goroutine left out: a value put under a key is held for    *)
(* exactly TTL, or until another is put in its place, and then is gone.    *)
(***************************************************************************)
EXTENDS Integers

CONSTANTS Keys, Values, TTL

VARIABLES now,    \* the clock
          held    \* held[k]: the value to be had under k, with its age, or Nothing
absVars == <<now, held>>

Nothing == [age |-> -1]

Init == /\ now = 0
        /\ held = [k \in Keys |-> Nothing]

Put(k, v) == /\ held' = [held EXCEPT ![k] = [age |-> 0, value |-> v]]
             /\ UNCHANGED now

\* A value grows older and, past TTL, is gone.
Older(h) == IF h = Nothing \/ h.age = TTL THEN Nothing ELSE [h EXCEPT !.age = @ + 1]

Tick == /\ now' = now + 1
        /\ held' = [k \in Keys |-> Older(held[k])]

Next == Tick \/ \E k \in Keys, v \in Values : Put(k, v)

Spec == Init /\ [][Next]_absVars
==============================================================================
