--------------------------- MODULE MCPlatformRole ---------------------------
EXTENDS PlatformRole

CONSTANTS root, s1
=============================================================================
