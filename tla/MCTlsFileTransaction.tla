------------------------ MODULE MCTlsFileTransaction ------------------------
EXTENDS TlsFileTransaction

\* The managed bundle, and the bundle that leaves the root pair alone.
MCBundles == {<<1, 2, 3>>, <<2, 3>>}
=============================================================================
