------------------------------ MODULE MCRmScan ------------------------------
EXTENDS RmScan
=============================================================================
