SPECIFICATION BookSpec
CONSTANTS
    None = None
    PM = PM
    admin = admin
    backend = backend
    oracle = oracle
    alice = alice
    org1 = org1
    org2 = org2
    nftA = nftA
    nftB = nftB
    stray = stray
    Admin = admin
    Accounts = {admin, backend, oracle}
    Farmers = {alice}
    Orgs = {org1, org2}
    Distributors = {backend}
    Nfts = {nftA}
    NftAddrs = {nftA, stray}
    Managers = {PM}
    NftGrants = {}
    NftWiring <- MCNftWiring
    MintRequests = {}
    PmGrants = {}
    PmWiring <- MCPmWiring
    SaleRequests <- MCSales
    MIN_SUM_INSURED = 1
    MAX_SUM_INSURED = 2
    MIN_DURATION_DAYS = 0
    MIN_DROUGHT_DURATION_DAYS = 1
    MAX_DURATION_DAYS = 2
    MAX_ACTIVE_POLICIES_PER_FARMER = 2
    MAX_CLAIMS_PER_FARMER_PER_YEAR = 1
    CLAIM_WINDOW_SECS = 2
    SECONDS_PER_DAY = 1
    MAX_LAT_E6 = 1
    MAX_LON_E6 = 1
    MaxPolicies = 2
    MaxTime = 3
CHECK_DEADLOCK FALSE
INVARIANT LifecycleNeverBricked
