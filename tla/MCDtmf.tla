-------------------------------- MODULE MCDtmf --------------------------------
(* Frames of three samples, windows of two: a frame leaves one sample over, or
   none, as 160 and 102 leave any number.                                    *)
EXTENDS Dtmf

Tones(S) == [k \in Dialled \cup Others |-> IF k \in S THEN 100 ELSE 3]

(* Two buttons, noise, a harmonic, two columns at once, and a row too faint.  *)
Sounds == {Tones({0, 4}), Tones({1, 6}), Tones({}), Tones({1, 6, 12}), Tones({1, 6, 7}),
           [Tones({2, 5}) EXCEPT ![2] = 24]}
=============================================================================
