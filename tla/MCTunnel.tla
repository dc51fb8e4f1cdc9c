------------------------------ MODULE MCTunnel ------------------------------
(* A small instance of Tunnel for TLC: a CONNECT tunnel beside a connection *)
(* of any other kind.                                                       *)
EXTENDS Tunnel

CONSTANTS c1, c2

TunnelAndOther == [c \in {c1, c2} |-> IF c = c1 THEN {"connect"} ELSE {"plain", "socks5", "bad"}]
=============================================================================
