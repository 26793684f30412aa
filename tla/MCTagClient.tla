---------------------------- MODULE MCTagClient ----------------------------
EXTENDS TagClient
=============================================================================
