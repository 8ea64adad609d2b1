---------------------------- MODULE MCBandwidth ----------------------------
EXTENDS Bandwidth, TLC

(* Two months of a short year: one of two days, one of three.              *)
TwoMonths == 1 :> 2 @@ 2 :> 3

Limits(resetDay, up, down, total) ==
    [resetDay |-> resetDay, up |-> up, down |-> down, total |-> total]

(* Reset days that every month has.                                        *)
EveryMonth == {Limits(1, 0, 1, 0), Limits(2, 1, 0, 2)}

=============================================================================
