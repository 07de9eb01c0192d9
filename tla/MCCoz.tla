------------------------------- MODULE MCCoz --------------------------------
(* Coordinates and signatures of two bytes, with and without leading zeros, *)
(* and a coordinate that begins like an uncompressed point.                 *)
EXTENDS Coz

MCPoint == {[x |-> <<0, 1>>, y |-> <<171, 1>>],
            [x |-> <<1, 171>>, y |-> <<0, 1>>],
            [x |-> <<4, 0>>, y |-> <<1, 1>>]}

MCSignature == {[r |-> <<0, 1>>, s |-> <<1, 0>>],
                [r |-> <<1, 0>>, s |-> <<0, 1>>],
                [r |-> <<1, 1>>, s |-> <<1, 0>>]}
=============================================================================
