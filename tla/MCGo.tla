-------------------------------- MODULE MCGo --------------------------------
EXTENDS GoProperties
=============================================================================
