------------------------------ MODULE MCLobby ------------------------------
(* Three users, so that a room survives a guest that leaves.               *)
EXTENDS LobbyClient

CONSTANTS u1, u2, u3, r1
=============================================================================
