----------------------------- MODULE MCRegistry -----------------------------
(* Instances of Registry for TLC. *)
EXTENDS Registry

CONSTANTS a1, issuer, custody, cold, stranger

MCAsset == {a1}
MCAddress == {issuer, custody, cold, stranger}
MCSigners == {issuer, custody, cold}
MCClassicIssuer == [a \in MCAsset |-> None]
MCAdmins == [a \in MCAsset |-> {issuer, stranger}]
MCReserveLists == {<<custody>>, <<cold, custody>>, <<custody, custody>>,
                   <<issuer>>, <<stranger>>}
MCBalances == {-1, 1}
MCLeafSets == {{0, 1}}
=============================================================================
