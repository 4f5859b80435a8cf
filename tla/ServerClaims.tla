---------------------------- MODULE ServerClaims ----------------------------
(***************************************************************************)
(* What the documentation says of the server and the code does not do.     *)
(***************************************************************************)
EXTENDS MCServer

\* README.md:159-161: "Request fields (POST JSON or GET query params): domain
\* (required), passive, whois, owner, takeover (default true)".  handleScan
\* decodes the body of a POST into a zero scanRequest (main.go:174-180), so a
\* field it leaves out is false: the scan is done without it.
DefaultsAreOn == \A r \in Ids :
    at[r] = "working" /\ req[r].path = "/api/scan" =>
        \A t \in Toggles \ {"brute"} :
            req[r].given[t] = "absent" => t \in Options(req[r]).enabled
=============================================================================
