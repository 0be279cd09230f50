-------------------------- MODULE MCChannelOffset --------------------------
(* Small instances of ChannelOffset for TLC: with the row that every user      *)
(* shares, or without it.                                                     *)
EXTENDS ChannelOffset

CONSTANTS r1, r2, u1, u2, c1

NoSharedRow == [c \in Channels |-> NoRow]
SharedRowOfZero == [c \in Channels |-> 0]
=============================================================================
