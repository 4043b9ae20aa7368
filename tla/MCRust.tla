------------------------------- MODULE MCRust -------------------------------
EXTENDS RustProperties
=============================================================================
