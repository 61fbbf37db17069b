------------------------------ MODULE MCKvTest ------------------------------
EXTENDS KvTest
=============================================================================
