------------------------------ MODULE MCClaims ------------------------------
EXTENDS Claims, HumanIds, TLC

ReqSymmetry == Permutations(Req)

\* One reason the installation lacks and one it has.
MCEditable == {<<"REJECTED", "VERIFIED">>, <<"PENDING", "VERIFIED">>}
=============================================================================
