---------------------------- MODULE MCMeshControl ----------------------------
\* Model-checking instance of MeshControl: the constants are in the cfg file.
EXTENDS MeshControl
=============================================================================
