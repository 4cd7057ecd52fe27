--------------------------- MODULE MCPermissionVec ---------------------------
\* PermissionVec on the rules of MCRules.
EXTENDS PermissionVec, MCRules
=============================================================================
