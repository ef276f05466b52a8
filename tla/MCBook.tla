------------------------------- MODULE MCBook -------------------------------
(***************************************************************************)
(* Small instances of PolicyManager with its certificate contracts.        *)
(***************************************************************************)
EXTENDS PolicyManager

CONSTANTS admin, backend, oracle, alice, org1, org2, nftA, nftB, stray

MCAccounts == {admin, backend, oracle, alice}
MCNftWiring == [grants |-> {<<"Minter", PM>>}, manager |-> PM]
MCPmWiring == [grants |-> {<<"Backend", backend>>, <<"Oracle", oracle>>},
               policyNft |-> nftA]
MCPmUnwired == [MCPmWiring EXCEPT !.policyNft = None]
MCBackendGrant == {<<"Backend", backend>>}

Sale(f, o, sum, days) ==
    [farmer |-> f, org |-> o, lat_e6 |-> 0, lon_e6 |-> 0, sum_insured |-> sum,
     premium |-> 1, duration_days |-> days, coverage_type |-> "Drought"]

(* Two orgs, two durations, and one refusal for each check of the sale.    *)
MCSales == {Sale(alice, org1, 2, 2), Sale(alice, org2, 1, 1)}
MCDayCover == {Sale(alice, org1, 1, 1)}
MCSalesAndRefusals ==
    LET ok == Sale(alice, org1, 2, 2) IN
    {ok, Sale(alice, org2, 1, 1),
     [ok EXCEPT !.sum_insured = 0], [ok EXCEPT !.sum_insured = 3],
     [ok EXCEPT !.premium = 0], [ok EXCEPT !.duration_days = 0],
     [ok EXCEPT !.duration_days = 3], [ok EXCEPT !.lat_e6 = 2],
     [ok EXCEPT !.lon_e6 = -2], [ok EXCEPT !.coverage_type = "Comprehensive"]}
=============================================================================
