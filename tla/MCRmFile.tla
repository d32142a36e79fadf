------------------------------ MODULE MCRmFile ------------------------------
EXTENDS RmFile
=============================================================================
