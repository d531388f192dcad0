---------------------------- MODULE MCAdmission ----------------------------
EXTENDS Admission, TLC

CONSTANTS c1, c2, c3, c4

ConnectSymmetry == Permutations(Clients \ TryClients)
=============================================================================
