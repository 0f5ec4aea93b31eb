------------------------------ MODULE MCUsers ------------------------------
EXTENDS Users
=============================================================================
