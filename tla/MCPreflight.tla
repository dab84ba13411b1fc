---------------------------- MODULE MCPreflight ----------------------------
EXTENDS Preflight

CONSTANTS u1, u2

MCURLs == <<u1, u2>>
=============================================================================
