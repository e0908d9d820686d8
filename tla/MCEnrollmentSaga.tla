-------------------------- MODULE MCEnrollmentSaga --------------------------
(* Small instances of EnrollmentSaga: at most two readers.                  *)
EXTENDS EnrollmentSaga

CONSTANTS d1, d2
=============================================================================
