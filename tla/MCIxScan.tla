------------------------------ MODULE MCIxScan ------------------------------
EXTENDS IxScan
=============================================================================
