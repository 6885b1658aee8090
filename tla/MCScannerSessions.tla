-------------------------- MODULE MCScannerSessions --------------------------
\* Two connections, two sources, the watches of one protocol, two rounds of waiting instead of twenty.
EXTENDS ScannerSessions
=============================================================================
