SPECIFICATION ProviderSpec
CONSTANTS
    Hosts = {h1}
    Reconcilers = {rec}
    HostOps = {"provision", "touch", "release", "reconcile"}
    Faults = {"crash", "plan", "ambiguous", "provider", "restart"}
    LeaseRequest <- MCLeaseRequest
    Deployed <- MCDeployed
    Redeployed <- MCRedeployed
    Catalogs <- MCCatalogs
    MaxQuotes = 1
INVARIANTS WithinQuote CeilingCoversAccrual NoOrphan
 
CHECK_DEADLOCK FALSE
