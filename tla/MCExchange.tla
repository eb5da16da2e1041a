------------------------------ MODULE MCExchange ------------------------------
EXTENDS Exchange
=============================================================================
