---------------------------- MODULE MCHartClaims ----------------------------
\* HartClaims for the guests of MCHart, which here also access the address 0.
EXTENDS MCHart, HartClaims

MCClaimsAddresses == {Address(0, 0, 0), Address(0, 1, 0), Address(1, 1, 0)}
MCClaimsFaults    == {0, 8, 24}
MCClaimsContents  == {MCLeaf(<<0, 0>>)}

=============================================================================
