------------------------------ MODULE MCFleet ------------------------------
EXTENDS Fleet, TLC

CONSTANTS s1, r1, g1, g2, u1, o1, o2

OneServer == {s1}
ServerAndRelay == {s1, r1}
OneRelay == {r1}
OneUser == {u1}
OneGoroutine == {g1}
TwoGoroutines == {g1, g2}
OneOp == {o1}
TwoOps == {o1, o2}

Reliable == {"nil", "canceled"}
Unreliable == {"nil", "canceled", "failed"}

Symmetry == Permutations(Goroutines) \cup Permutations(Ops) \cup Permutations(Users)

=============================================================================
