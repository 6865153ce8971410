------------------------------- MODULE MCWire -------------------------------
(* Wire with a small set of values: all arrays of at most three simple     *)
(* values, and arrays of small arrays two and three levels deep.           *)
EXTENDS Wire

Leaf(x) == [p \in {<<>>} |-> x]

(* An array of the values in s. *)
ArrayOf(s) ==
  [p \in {<<>>} \cup UNION {{<<i>> \o q : q \in DOMAIN s[i]} : i \in DOMAIN s} |->
     IF p = <<>> THEN Array(Len(s)) ELSE s[Head(p)][Tail(p)]]

Arrays(S, n) == {ArrayOf(s) : s \in UNION {[1..i -> S] : i \in 0..n}}

Simple == {Leaf(x) : x \in {Void, Function, Scalar, String(0), String(1), String(2)}}
Flat   == Arrays(Simple, 3)
Small  == Arrays({Leaf(Void)}, 2)
Nested == Arrays(Small \cup {Leaf(Scalar)}, 3)
Deep   == Arrays(Arrays(Small, 2) \cup {Leaf(Void)}, 2)

MCValues == Simple \cup Flat \cup Nested \cup Deep

=============================================================================
