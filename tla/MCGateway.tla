----------------------------- MODULE MCGateway -----------------------------
EXTENDS Gateway
=============================================================================
