--------------------------- MODULE PipelineClaims ---------------------------
(* What a comment of the page says and the page does not do.               *)
EXTENDS MCPipeline

\* internal/web/index.html:159: "Merge enriched records back into the report".
\* The records take the place of the rows: the sources of every host are gone,
\* and the hosts that /api/enrich did not accept.
RecordsAreMerged == submits > 0 /\ pc[submits] = "done" =>
    \A f \in found[submits] : \E row \in rows :
        row.host = f.host /\ f.sources \subseteq row.sources
=============================================================================
