SPECIFICATION RegistersSpec
CONSTANTS
    None = None
    PM = PM
    admin = admin
    operator = operator
    alice = alice
    bob = bob
    coop = coop
    nftA = nftA
    receiver1 = receiver1
    receiver2 = receiver2
    adapterA = adapterA
    org1 = org1
    org2 = org2
    ref1 = ref1
    ref2 = ref2
    Admin = admin
    Accounts = {admin, operator, alice, bob}
    Orgs = {org1, org2}
    MaxTime = 1
    Nfts = {nftA}
    Distributors = {coop, operator}
    Managers = {PM, operator}
    NftGrants <- MCMinterGrant
    NftWiring <- MCNftWiring
    MintRequests <- MCMints
    Adapters = {adapterA}
    Receivers = {receiver1, receiver2}
    References = {ref1, ref2}
    ZeroReference = ZeroReference
    SaGrants <- MCFunderGrant
    SaWiring <- MCSaWiring
    Claims <- MCClaims
    MaxObligations = 2
INVARIANT NftTypeOK
INVARIANT DistributorIndexExact
INVARIANT SaTypeOK
INVARIANT LookupExact
INVARIANT OrgIndexExact
PROPERTY ImplementsLedger
CHECK_DEADLOCK FALSE
SYMMETRY MCRefSymmetry
