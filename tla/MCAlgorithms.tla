---------------------------- MODULE MCAlgorithms ----------------------------
(***************************************************************************)
(* The pure algorithms in one instance: the drought index, the digest      *)
(* encoding and the paginated views.  They share no state, so a behaviour  *)
(* exercises one of them and leaves the other two at rest.                 *)
(***************************************************************************)
EXTENDS MCDrought, MCDigest, IndexPaging

VARIABLE exercised

algorithmVars == <<exercised, season, digestVars, pagingVars>>

DroughtAtRest == w1 = 0 /\ r1 = 1 /\ w2 = 0 /\ r2 = 1
DigestAtRest == signed = Plain("drought") /\ other = signed /\ alterations = 0
PagingAtRest == index = << >> /\ walked = << >> /\ limit = 1

AlgorithmsInit ==
    \/ exercised = "drought" /\ DroughtInit /\ DigestAtRest /\ PagingAtRest
    \/ exercised = "digest" /\ DroughtAtRest /\ DigestInit /\ PagingAtRest
    \/ exercised = "paging" /\ DroughtAtRest /\ DigestAtRest /\ PagingInit

ReaderAsks ==
    exercised = "paging" /\ ReadPage /\ UNCHANGED <<exercised, season, digestVars>>

AlgorithmsNext ==
    \/ exercised = "drought" /\ DroughtNext /\ UNCHANGED <<exercised, digestVars, pagingVars>>
    \/ exercised = "digest" /\ DigestNext /\ UNCHANGED <<exercised, season, pagingVars>>
    \/ exercised = "paging" /\ AppendToIndex /\ UNCHANGED <<exercised, season, digestVars>>
    \/ ReaderAsks

AlgorithmsSpec ==
    AlgorithmsInit /\ [][AlgorithmsNext]_algorithmVars /\ WF_pagingVars(ReaderAsks)
=============================================================================
