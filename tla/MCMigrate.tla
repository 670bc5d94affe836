----------------------------- MODULE MCMigrate -----------------------------
EXTENDS Migrate
=============================================================================
