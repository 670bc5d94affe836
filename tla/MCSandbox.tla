----------------------------- MODULE MCSandbox -----------------------------
EXTENDS SandboxPool
=============================================================================
