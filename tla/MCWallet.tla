------------------------------ MODULE MCWallet ------------------------------
EXTENDS SerialWallet, TLC

ReqSymmetry == Permutations(Req)
=============================================================================
