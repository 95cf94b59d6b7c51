------------------------------- MODULE MCCoord -------------------------------
(* Constants of the TLC runs of Coord: a step that hands over to itself     *)
(* for the safety run, a straight flow of three steps for the others.       *)
EXTENDS Coord, TLC

CONSTANTS k1, k2, s1, s2, s3, c1, c2, m1, m2, d1, d2

\* The kickers are interchangeable in the safety run.
KickerSymmetry == Permutations({k1, k2})

Loop     == [s \in {s1} |-> {s1}]
Straight == [s \in {s1, s2, s3} |->
               CASE s = s1 -> {s2} [] s = s2 -> {s3} [] OTHER -> {}]

\* Two channels, two buffers, a match that accepts anything and one that does
\* not, a wait with a bound and one without.
MixedAwaits ==
  {[chan |-> c1, dst |-> d1,   match |-> {m1},     timeout |-> "bounded"],
   [chan |-> c2, dst |-> NULL, match |-> {m1, m2}, timeout |-> "forever"]}

\* Bounded waits with two channels, two matches and two buffers.
BoundedAwaits ==
  {[chan |-> c1, dst |-> d1, match |-> {m1}, timeout |-> "bounded"],
   [chan |-> c2, dst |-> d2, match |-> {m2}, timeout |-> "bounded"]}

==============================================================================
