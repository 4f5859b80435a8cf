SPECIFICATION FairSpec
CONSTANTS
    c1 = c1  c2 = c2  i1 = i1  i2 = i2  org1 = org1  org2 = org2  as = as
    IPs = {i1, i2}
    Callers = {c1, c2}
    Orgs = {org1, org2}
    ASNs = {as}
INVARIANTS TypeOK OwnersAreReal HerdIsBounded
PROPERTIES OwnersSettle LookupsReturn
