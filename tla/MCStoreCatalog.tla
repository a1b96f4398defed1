--------------------------- MODULE MCStoreCatalog ---------------------------
\* An account with two pages, and another one with one.
EXTENDS StoreCatalog
CONSTANTS a, b
MCPaths == {<<a, "first">>, <<a, "next">>, <<b, "first">>}
=============================================================================
