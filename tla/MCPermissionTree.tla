--------------------------- MODULE MCPermissionTree ---------------------------
\* PermissionTree on the rules of MCRules.
EXTENDS PermissionTree, MCRules
=============================================================================
