------------------------------ MODULE MCPaths ------------------------------
EXTENDS Paths, TLC

CONSTANTS u1, u2, u3, s1, r1, h4, m1, p1, p2

ThreeUsers == {u1, u2, u3}
OneServer == {s1}
OneRelay == {r1}

(* The third user is of another chat.                                      *)
TwoChats == [x \in Tickets |-> IF x = u3 THEN "there" ELSE "here"]

OneHost == {h4}
NetTypes == [h \in Hosts |-> {"4"}]

OneMethod == {m1}
TwoPasswords == {p1, p2}

=============================================================================
