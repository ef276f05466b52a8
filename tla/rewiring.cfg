SPECIFICATION Spec
CONSTANTS
    None = None
    PM = PM
    admin = admin
    backend = backend
    relayer = relayer
    alice = alice
    org1 = org1
    org2 = org2
    nftA = nftA
    adapterA = adapterA
    adapterB = adapterB
    receiver1 = receiver1
    receiver2 = receiver2
    key1 = key1
    key2 = key2
    net1 = net1
    net2 = net2
    ref1 = ref1
    Admin = admin
    Accounts = {admin, backend, relayer}
    Orgs = {org1}
    MaxTime = 3
    Nfts = {nftA}
    Distributors = {backend}
    Managers = {PM}
    NftGrants = {}
    NftWiring <- MCNftWiring
    MintRequests = {}
    Farmers = {alice}
    NftAddrs = {nftA}
    PmGrants = {}
    PmWiring <- MCPmWiring
    SaleRequests <- MCSales
    MIN_SUM_INSURED = 4
    MAX_SUM_INSURED = 5
    MIN_DURATION_DAYS = 0
    MIN_DROUGHT_DURATION_DAYS = 2
    MAX_DURATION_DAYS = 2
    MAX_ACTIVE_POLICIES_PER_FARMER = 2
    MAX_CLAIMS_PER_FARMER_PER_YEAR = 2
    CLAIM_WINDOW_SECS = 3
    SECONDS_PER_DAY = 2
    MAX_LAT_E6 = 1
    MAX_LON_E6 = 1
    MaxPolicies = 1
    Adapters = {adapterA, adapterB}
    Receivers = {receiver1, receiver2}
    References = {ref1}
    ZeroReference = ZeroReference
    SaGrants = {}
    SaWiring <- MCSaWiring
    Claims = {}
    MaxObligations = 3
    MAX_RAIN_E2 = 30
    Keys = {key1, key2}
    Domains = {net1}
    PrGrants <- MCRelayerGrant
    PrWiring <- MCPrWiring
    Disturbances = {"adapter", "pause", "evict"}
    Determinations <- MCRivalDeterminations
    CropDeterminations = {}
    LegacyPolicy <- MCLegacyPolicy
    MAX_REPORT_AGE = 1
    SEASON_WINDOW_SECS = 2
INVARIANT PaidExactlyOnce
CHECK_DEADLOCK FALSE
