------------------------------- MODULE MCRent -------------------------------
(* A small instance of the storage rent model.                             *)
EXTENDS StorageRent

CONSTANTS adapterA, adapterB
=============================================================================
