------------------------------- MODULE MCPmap -------------------------------
EXTENDS Pmap
=============================================================================
