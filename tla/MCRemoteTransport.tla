-------------------------- MODULE MCRemoteTransport --------------------------
EXTENDS RemoteTransport
CONSTANTS r1, r2
=============================================================================
