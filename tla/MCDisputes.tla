----------------------------- MODULE MCDisputes -----------------------------
(* Instances of Disputes for TLC: one classic asset with both evidence      *)
(* paths, and two assets of different authorities that share the escrow.    *)
EXTENDS Disputes

CONSTANTS a1, a2, issuer, operator, custody, customer

MCAddress == {issuer, operator, custody, customer}
\* a1 is a classic asset, a2 a contract token.
MCClassicIssuer == [a \in Asset |-> IF a = a1 THEN issuer ELSE None]
MCAdmins == [a \in Asset |-> IF a = a1 THEN {} ELSE {operator}]
MCReserveLists == {<<custody>>}
\* A tree with the customer 1 and one without; both are padded.
MCLeafSets == {{0, 1}, {0}}
MCXlm == [x \in MCAddress |-> IF x = custody THEN 0 ELSE 2]
\* Mails that name the customer and the alias of the customer's identifier.
MCEmailProofs == {<<a, 1, id>> : a \in Asset, id \in {1, 3}}
\* Mails of a1 that name a customer in the tree and one who is not, and one of a2.
MCTwoCustomers == {<<a1, 1, 1>>, <<a1, 1, 2>>, <<a2, 1, 1>>}
\* Two deposits, and a bond of one that the deposits won can raise.
MCEscrowXlm == [x \in MCAddress |-> IF x = customer THEN 2 ELSE IF x = custody THEN 0 ELSE 1]
=============================================================================
