--------------------------- MODULE MCPersistentList ---------------------------
EXTENDS PersistentList

CONSTANTS o1, o2
=============================================================================
