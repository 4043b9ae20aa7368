---------------------------- MODULE MCRustWorkers ----------------------------
EXTENDS RustWorkers
=============================================================================
