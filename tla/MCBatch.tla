------------------------------ MODULE MCBatch ------------------------------
EXTENDS BatchIngestion
CONSTANTS r1, r2, r3, r4
MCRequests == {r1, r2, r3, r4}
MCBatches == {{r1, r2, r3}}
=============================================================================
