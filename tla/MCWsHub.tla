------------------------------ MODULE MCWsHub ------------------------------
(* Instances of WsHub for TLC; the cfg files choose among them.            *)
EXTENDS WsHub, TLC

CONSTANTS c1, c2, c3, m1

TwoConns    == {c1, c2}
ThreeConns  == {c1, c2, c3}
NoMessages  == {}
OneMessage  == {m1}
OneRoom     == {"ra"}
TwoIPs      == {"ip1", "ip2"}

\* All connections ask for one room, the first two come from one IP.
SameRoom == [c \in Conns |-> "ra"]
SplitIPs == [c \in Conns |-> IF c \in {c1, c2} THEN "ip1" ELSE "ip2"]
ToRoom   == [m \in Messages |-> "ra"]

\* At most one connection is owed a reply.
NoReplies == [c \in Conns |-> 0]
ReplyTo1  == [c \in Conns |-> IF c = c1 THEN 1 ELSE 0]
ReplyTo3  == [c \in Conns |-> IF c = c3 THEN 1 ELSE 0]

Limits(ip, room_) == [MaxConnPerIP |-> ip, MaxConnPerRoom |-> room_]
Unlimited  == {Limits(0, 0)}
OnePerIP   == {Limits(1, 0)}
OnePerRoom == {Limits(0, 1)}

\* Connections of one IP that are owed no reply are interchangeable.
Symmetry == Permutations({c1, c2})

=============================================================================
