----------------------------- MODULE ByteStreams -----------------------------
(***************************************************************************)
(* What a CONNECT tunnel promises, without sockets, buffers or goroutines:  *)
(* two streams, each from a source to a sink.  A sink receives what the     *)
(* source has sent, in order and each piece once.  A stream ends when its   *)
(* source has closed and everything has arrived; it is cut short only when  *)
(* the other stream of the tunnel has ended, or its own sink has closed.    *)
(* Tunnel implements this module.                                           *)
(***************************************************************************)
EXTENDS Integers, Sequences

CONSTANTS Tunnels

VARIABLES
  sent,     \* per stream: pieces the source has sent
  closed,   \* per stream: the source has closed
  got,      \* per stream: what the sink has received
  over      \* per stream: it has ended

vars == <<sent, closed, got, over>>

Dirs == {"up", "down"}

\* The other stream of a tunnel: its source is the sink of stream d.
Opposite(d) == IF d = "up" THEN "down" ELSE "up"

Init ==
  /\ sent = [t \in Tunnels |-> [d \in Dirs |-> 0]]
  /\ closed = [t \in Tunnels |-> [d \in Dirs |-> FALSE]]
  /\ got = [t \in Tunnels |-> [d \in Dirs |-> <<>>]]
  /\ over = [t \in Tunnels |-> [d \in Dirs |-> FALSE]]

Send(t, d) ==
  /\ ~closed[t][d]
  /\ sent' = [sent EXCEPT ![t][d] = @ + 1]
  /\ UNCHANGED <<closed, got, over>>

Close(t, d) ==
  /\ ~closed[t][d]
  /\ closed' = [closed EXCEPT ![t][d] = TRUE]
  /\ UNCHANGED <<sent, got, over>>

\* The next n pieces arrive.
Deliver(t, d) ==
  /\ ~over[t][d]
  /\ \E n \in 1..sent[t][d] - Len(got[t][d]) :
       got' = [got EXCEPT ![t][d] = @ \o [i \in 1..n |-> Len(got[t][d]) + i]]
  /\ UNCHANGED <<sent, closed, over>>

End(t, d) ==
  /\ ~over[t][d]
  /\ \/ closed[t][d] /\ Len(got[t][d]) = sent[t][d]
     \/ over[t][Opposite(d)] \/ closed[t][Opposite(d)]
  /\ over' = [over EXCEPT ![t][d] = TRUE]
  /\ UNCHANGED <<sent, closed, got>>

Next ==
  \E t \in Tunnels, d \in Dirs : Send(t, d) \/ Close(t, d) \/ Deliver(t, d) \/ End(t, d)

Spec == Init /\ [][Next]_vars
=============================================================================
