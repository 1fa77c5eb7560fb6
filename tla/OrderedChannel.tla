--------------------------- MODULE OrderedChannel ---------------------------
(***************************************************************************)
(* What the bridge between instances promises.  The messages an instance   *)
(* broadcasts are numbered.  Any other instance may miss some; it gets     *)
(* none that was not broadcast, and none of its own.  The messages whose   *)
(* publication the broker answered at once come at most once and in the    *)
(* order in which they were broadcast.  One whose publication went         *)
(* unanswered may come late, and more than once; it is known as such       *)
(* before anybody gets it.                                                 *)
(***************************************************************************)
EXTENDS Naturals, Sequences

CONSTANT Instances

VARIABLES
    sent,         \* sent[i]: how many messages instance i has broadcast
    unanswered,   \* the messages an attempt to publish which was not answered
    got           \* got[j]: the messages that j passed on, one after the other

vars == <<sent, unanswered, got>>

Init ==
    /\ sent = [i \in Instances |-> 0]
    /\ unanswered = {}
    /\ got = [j \in Instances |-> <<>>]

Send(i) ==
    /\ sent' = [sent EXCEPT ![i] = @ + 1]
    /\ UNCHANGED <<unanswered, got>>

Unanswered(m) ==
    /\ \A j \in Instances : \A k \in 1 .. Len(got[j]) : got[j][k] # m
    /\ unanswered' = unanswered \cup {m}
    /\ UNCHANGED <<sent, got>>

\* m is later than what came before it from the same source.
Follows(j, m) ==
    \A k \in 1 .. Len(got[j]) :
        got[j][k][1] = m[1] /\ got[j][k] \notin unanswered => got[j][k][2] < m[2]

Deliver(j, m) ==
    /\ m[1] # j
    /\ m \in unanswered \/ Follows(j, m)
    /\ got' = [got EXCEPT ![j] = Append(@, m)]
    /\ UNCHANGED <<sent, unanswered>>

Next == \E i \in Instances : \/ Send(i)
                             \/ \E n \in 1 .. sent[i] : \/ Unanswered(<<i, n>>)
                                                        \/ \E j \in Instances : Deliver(j, <<i, n>>)

Spec == Init /\ [][Next]_vars
=============================================================================
