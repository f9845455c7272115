------------------------------ MODULE MCToken ------------------------------
(* Two issuers, one third party, and chains of up to three blocks.          *)
EXTENDS Token

MCRootKeys == {101, 102}
MCPartyKeys == {201}
MCRootKeyID == [k \in MCRootKeys |-> IF k = 101 THEN "id101" ELSE "id102"]
=============================================================================
