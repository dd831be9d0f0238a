---------------------------- MODULE MCRunAdmission ----------------------------
EXTENDS RunAdmission
=============================================================================
