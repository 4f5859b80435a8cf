SPECIFICATION Spec
CONSTANTS
    d1 = d1  d2 = d2  apex1 = apex1  apex2 = apex2  www = www  mail = mail  odd = odd
    Domains = {d1, d2}
    Hosts = {apex1, apex2, www, mail, odd}
    HostsOf <- MCHostsOf
    Apex <- MCApex
    Odd = {odd}
    Sources = {"crtsh", "otx"}
    Verdicts = {"ok", "timeout"}
    ScanDomain = d1
    MaxHosts = 2
    MaxSubmits = 2
INVARIANT RecordsAreMerged
CHECK_DEADLOCK FALSE
