--------------------------- MODULE MCHttpAdmission ---------------------------
EXTENDS HttpAdmission

CONSTANTS r1, r2, r3, r4
=============================================================================
