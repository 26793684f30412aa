--------------------------- MODULE MCIngestBridge ---------------------------
EXTENDS IngestBridge
=============================================================================
