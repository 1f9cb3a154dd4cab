------------------------- MODULE MCCloudExtraction -------------------------
EXTENDS CloudExtraction

CONSTANTS e1, e2
=============================================================================
