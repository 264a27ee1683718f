------------------------------ MODULE MCGateway ------------------------------
(* The accounts and callers for the model-checking run of the gateway. *)
EXTENDS Gateway

CONSTANTS o1, o2, e0, e1, c1, c2

MCCaller == {c1, c2}
MCOrg == {o1, o2}
MCEmail == {e0, e1}

Account(email, org) == [email |-> email, org |-> org, roles |-> {}]

\* Beside the seeded administrator: nobody, a member whose organization is empty, or
\* (then the seed's address is taken) members of two organizations.
MCEarlier == {<<>>, <<Account(e1, Blanks)>>, <<Account(e0, o1), Account(e1, o2)>>}

\* One caller uses everything (two routes stand for the two others that make
\* the same calls), beside another that creates accounts.
MCUses == [c \in Caller |->
             IF c = c1 THEN Route \ {"getDocumentStatus", "getVerification"} ELSE {"createUser"}]
=============================================================================
