------------------------ MODULE MCCredentialResolution ------------------------
EXTENDS CredentialResolution, TLC

CONSTANTS own, peer, far, llm, index

\* One credential of the account's own and one of somebody else's with the type llm,
\* one of somebody else's with the type index.
MCTypeOf == own :> llm @@ peer :> llm @@ far :> index
=============================================================================
