------------------------- MODULE DiscoveryProgress -------------------------
(***************************************************************************)
(* Why Discover ends, without fairness: what is ahead of it only gets      *)
(* less, and until it returns there is a step that needs no upstream.      *)
(***************************************************************************)
EXTENDS Discovery

\* Answers are of finite size, and a domain has finitely many name servers.
ASSUME FiniteAssumption == IsFiniteSet(Names) /\ IsFiniteSet(Nameservers)

\* Where a source goes from one place on, a retry of crt.sh apart.
From(place) == CASE place = "try" -> {"try", "fetch", "adding", "backoff"}
                 [] place = "fetch" -> {"fetch", "adding", "backoff"}
                 [] place = "adding" -> {"adding", "backoff"}
                 [] place = "backoff" -> {"backoff"}
                 [] OTHER -> {}
Others == Sources \ {"crtsh"}

CtxAhead == {c \in {"live"} : ctx = c}
MainAhead == CASE main = "waiting" -> {"collect", "whois"}
               [] main = "whois" -> {"whois"}
               [] OTHER -> {}
Budgets == {s \in Budgeted : sctx[s] = "live"}
Attempts == {p \in (1..MaxAttempts) \X From("try") :
               /\ From(pc["crtsh"]) # {}
               /\ p[1] > attempt \/ (p[1] = attempt /\ p[2] \in From(pc["crtsh"]))}
Work == {p \in Others \X {"fetch", "adding"} : p[2] \in From(pc[p[1]])}
Servers == {ns \in Nameservers : ns \in nsLeft \/ (EnableAXFR /\ pc["axfr"] = "fetch")}
Adds == {p \in Sources \X Names : p[1] \notin found[p[2]]}
Unsettled == {s \in Sources : pc[s] # "done"}

\* A bound on the steps Discover has still to take.
StepsAhead == Cardinality(CtxAhead) + Cardinality(MainAhead) + Cardinality(Budgets)
              + Cardinality(Attempts) + Cardinality(Work) + Cardinality(Servers)
              + Cardinality(Adds) + Cardinality(Unsettled)

\* A budget can expire, or a goroutine can go on by itself.
CanMove ==
    \/ \E s \in Budgeted : sctx[s] = "live" /\ pc[s] # "done"
    \/ \E s \in Passive : pc[s] = "fetch" /\ (HasKey(s) => sctx[s] # "live")
    \/ pc["crtsh"] \in {"try", "backoff"} \/ (pc["crtsh"] = "fetch" /\ sctx["crtsh"] # "live")
    \/ EnableAXFR /\ (pc["axfr"] = "fetch" \/ (pc["axfr"] = "adding" /\ AllAdded("axfr") /\ nsLeft # {}))
    \/ EnableBrute /\ pc["brute"] = "fetch"
    \/ \E s \in Sources : pc[s] = "returned" \/ Finished(s) \/ (pc[s] = "adding" /\ ~AllAdded(s))
    \/ main = "waiting" /\ Joined
    \/ main = "whois"

\* The steps of a discovery are bounded by its sources, the names they can hand
\* over, the name servers and the attempts at crt.sh, and until it returns there
\* is a step that waits for no HTTP upstream: no source is retried for ever and
\* dwg.Wait waits for none that cannot end (scan.go:88, 184, crtsh.go:29).
Converges ==
    /\ StepsAhead <= 3 + 4 * Cardinality(Sources) + 4 * MaxAttempts + Cardinality(Nameservers)
                       + Cardinality(Sources) * Cardinality(Names)
    /\ [][StepsAhead' < StepsAhead]_vars
    /\ [](main # "returned" => CanMove)
=============================================================================
