---------------------------- MODULE MCPinLockout ----------------------------
(***************************************************************************)
(* Two employees, three concurrent requests, a budget of two attempts, and *)
(* a dictionary too small for both employees.                              *)
(***************************************************************************)
EXTENDS PinLockout, TLC

CONSTANTS u1, u2, r1, r2, r3

MCUsers    == {u1, u2}
MCRequests == {r1, r2, r3}
=============================================================================
