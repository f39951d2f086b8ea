----------------------------- MODULE MCKvPlace -----------------------------
EXTENDS KvPlace
=============================================================================
