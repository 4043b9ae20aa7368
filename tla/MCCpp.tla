------------------------------- MODULE MCCpp -------------------------------
EXTENDS CppComponent
=============================================================================
