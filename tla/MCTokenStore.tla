------------------------------ MODULE MCTokenStore ------------------------------
(* Instance of TokenStore for TLC: two accounts and two polls under way at once. *)
EXTENDS TokenStore

CONSTANTS a1, a2, k1, k2, k3, p1, p2

MCAccount == {a1, a2}
MCKey == {k1, k2, k3}
MCPoll == {p1, p2}
================================================================================
