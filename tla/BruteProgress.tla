--------------------------- MODULE BruteProgress ---------------------------
(***************************************************************************)
(* Why Brute ends, without fairness and timeouts: what is ahead of it only *)
(* gets less, and until it returns one of its goroutines can go on.        *)
(***************************************************************************)
EXTENDS Brute

\* The stages a word goes through from one on.
From(stage) == CASE stage = "send" -> {"send", "A", "AAAA", "CNAME", "add"}
                 [] stage = "A" -> {"A", "AAAA", "CNAME", "add"}
                 [] stage = "AAAA" -> {"AAAA", "CNAME", "add"}
                 [] stage = "CNAME" -> {"CNAME", "add"}
                 [] stage = "add" -> {"add"}
                 [] OTHER -> {}

\* Worker k still takes word w through stage g.
Owes(k, w, g) == word[k] = w /\ g \in From(at[k])

CtxAhead == {c \in {"live"} : ctx = c}
MainAhead == CASE main = "loading" -> {"load", "loop", "join"}
               [] main = "sending" -> {"loop", "join"}
               [] main = "waiting" -> {"join"}
               [] OTHER -> {}
Work == {p \in Words \X From("send") :
           next <= p[1] \/ \E k \in Workers : Owes(k, p[1], p[2])}
Pool == {k \in Workers : at[k] # "exited"}

\* A bound on the steps Brute has still to take.
StepsAhead == Cardinality(CtxAhead) + Cardinality(MainAhead)
              + Cardinality(Work) + Cardinality(Pool)

\* Some goroutine is not waiting for another one.
CanMove == \/ main = "loading"
           \/ main = "sending" /\ (More => \E k \in Workers : at[k] = "idle")
           \/ main = "waiting" /\ PoolDone
           \/ \E k \in Workers : at[k] \in Types \cup {"add"}
           \/ \E k \in Workers : at[k] = "idle" /\ closed

\* Brute is through after 4 steps, 5 for each word and one for each worker at the
\* latest: no word is tried twice and nothing goes round for ever; and before it
\* has returned there is a goroutine that can go on (brute.go:35, 44-54).
Converges == /\ StepsAhead = 4 + 5 * NWords + Cardinality(Workers)
             /\ [][StepsAhead' < StepsAhead]_vars
             /\ [](main # "returned" => CanMove)
==============================================================================
