------------------------- MODULE MCConnectorPairing -------------------------
EXTENDS ConnectorPairing
=============================================================================
