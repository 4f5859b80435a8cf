------------------------- MODULE EnrichmentProgress -------------------------
(***************************************************************************)
(* Why EnrichHosts ends, without fairness and timeouts: what is ahead of   *)
(* it only gets less, and until it returns one goroutine can go on.        *)
(***************************************************************************)
EXTENDS Enrichment

\* DNS answers are of finite size, and so are the pools.
ASSUME FiniteAssumption == IsFiniteSet(Workers) /\ IsFiniteSet(IPs) /\ IsFiniteSet(Targets)

\* The stages a host goes through from one on.
From(s) == CASE s = "send" -> {"send", "dns", "owner", "takeover", "exists", "append"}
             [] s = "dns" -> {"dns", "owner", "takeover", "exists", "append"}
             [] s = "owner" -> {"owner", "takeover", "exists", "append"}
             [] s = "takeover" -> {"takeover", "exists", "append"}
             [] s = "exists" -> {"exists", "append"}
             [] s = "append" -> {"append"}
             [] OTHER -> {}

\* Worker k still takes position j through stage s, sends it a query of type t,
\* and asks for the owner of an address, which it learns from the answers.
Owes(k, j, s) == rec[k].job = j /\ s \in From(stage[k])
OwesQuery(k, j, t) == rec[k].job = j /\ stage[k] = "dns" /\ t \in open[k]
OwesLookup(k, j, addr) == rec[k].job = j /\ (stage[k] = "owner" => addr \in open[k])
                          /\ stage[k] \in {"dns", "owner"}

CtxAhead == {c \in {"live"} : ctx = c}
MainAhead == CASE main = "sending" -> {"loop", "join"}
               [] main = "waiting" -> {"join"}
               [] OTHER -> {}
Work == {p \in Jobs \X From("send") :
           next <= p[1] \/ \E k \in Workers : Owes(k, p[1], p[2])}
Queries == {p \in Jobs \X QTypes :
              next <= p[1] \/ \E k \in Workers : OwesQuery(k, p[1], p[2])}
Asks == {p \in Jobs \X Strings :
           next <= p[1] \/ \E k \in Workers : OwesLookup(k, p[1], p[2])}
Pool == {k \in Workers : stage[k] # "exited"}

\* A bound on the steps EnrichHosts has still to take.
StepsAhead == Cardinality(CtxAhead) + Cardinality(MainAhead) + Cardinality(Work)
              + Cardinality(Queries) + Cardinality(Asks) + Cardinality(Pool)

\* Some goroutine is not waiting for another one.
CanMove ==
    \/ main = "sending" /\ (More => \E k \in Workers : stage[k] = "idle")
    \/ main = "waiting" /\ PoolDone
    \/ \E k \in Workers :
         \/ stage[k] = "dns" /\ (Joined(k) \/ open[k] \cap QTypes # {})
         \/ stage[k] = "owner" /\ (Joined(k) \/ open[k] \cap Strings # {})
         \/ stage[k] \in {"takeover", "exists", "append"}
         \/ stage[k] = "idle" /\ Closed

\* EnrichHosts is through after as many steps as follow from its hosts, the types
\* of queries and the answers, at the latest, and before it has returned there
\* is a goroutine that can go on: the fan-outs are joined and the send, which
\* does not look at the context, always meets a worker (scan.go:257-289).
Converges ==
    /\ StepsAhead = 3 + NHosts * (6 + Cardinality(QTypes) + Cardinality(Strings))
                      + Cardinality(Workers)
    /\ [][StepsAhead' < StepsAhead]_vars
    /\ [](main # "returned" => CanMove)
=============================================================================
