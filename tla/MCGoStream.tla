----------------------------- MODULE MCGoStream -----------------------------
EXTENDS GoStream
=============================================================================
