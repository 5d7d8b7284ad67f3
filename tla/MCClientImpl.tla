---------------------------- MODULE MCClientImpl ----------------------------
EXTENDS ClientImpl
=============================================================================
