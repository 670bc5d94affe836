---------------------------- MODULE MCBootstrap ----------------------------
EXTENDS KeycloakBootstrap
=============================================================================
