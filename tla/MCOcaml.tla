------------------------------ MODULE MCOcaml ------------------------------
EXTENDS OcamlComponent
=============================================================================
