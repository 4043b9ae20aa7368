-------------------------------- MODULE MCPy --------------------------------
EXTENDS PyComponent
=============================================================================
