------------------------------ MODULE MCNatives -----------------------------
(* Natives with small constants: functions of up to three parameters,      *)
(* values of each type and at each edge of its conversion.                 *)
EXTENDS Natives

MCNumerals ==
  <<"1">> :> <<1, FALSE>> @@ <<"1", "2">> :> <<12, FALSE>> @@ <<"0", "x", "1", "f">> :> <<31, FALSE>>
    @@ <<" ", "1", "e", "3">> :> <<1000, FALSE>> @@ <<"1", "6", "7", "7", "7", "2", "1", "7">> :> <<2^24 + 1, FALSE>>

MCSignatures ==
  {<<>>, <<"array">>, <<"string">>, <<"int", "string">>, <<"string", "string">>,
   <<"string", "int", "string">>, <<"int", "string", "array">>, <<"string", "string", "string">>}

Rounded == 2^24 + 1

(* An array of the values in s. *)
ArrayOf(s) ==
  [p \in {<<>>} \cup UNION {{<<i>> \o q : q \in DOMAIN s[i]} : i \in DOMAIN s} |->
     IF p = <<>> THEN Arr ELSE s[Head(p)][Tail(p)]]

Leaves ==
  {Leaf(x) : x \in {Nil, Bool(TRUE), Integer(Rounded), Integer(2^30), Float(0, TRUE), Float(2^24, FALSE),
                    Str(<<>>), Str(<<"a", "b">>), Str(<<"1">>), Str(<<" ", "1", "e", "3">>)}}

One   == Leaf(Integer(1))
Text1 == Leaf(Str(<<"a">>))
Void  == Leaf(Nil)
None  == ArrayOf(<<>>)

MCValues ==
  Leaves \cup {None} \cup {ArrayOf(<<x>>) : x \in Leaves}
    \cup UNION {{ArrayOf(<<x, Void>>), ArrayOf(<<Void, x>>)} : x \in {Void, Leaf(Bool(TRUE))}}
    \cup {ArrayOf(<<ArrayOf(<<x, Void>>), y>>) : x, y \in {Leaf(Integer(0)), Void}}

(* value_clone of an array of a void gives an array of a NULL. *)
MCReturned == {NoValue, Void, One, Leaf(Bool(FALSE)), Text1, ArrayOf(<<One>>), ArrayOf(<<NoValue>>)}

Whole == Leaf(Float(1, FALSE))

MCLiterals ==
  {Void, One, Leaf(Float(1, TRUE)), Whole, Text1, Leaf(Plain(<<"a", "b">>)), Leaf(Other), Leaf(Trap), Leaf(Wide), None,
   ArrayOf(<<Void>>), ArrayOf(<<Text1, Leaf(Other)>>),
   ArrayOf(<<Void, Leaf(Trap)>>), ArrayOf(<<Leaf(Str(<<"1", "2">>)), Leaf(Wide)>>)}

MCCalls ==
  {<<One, One, One, One>>, <<One, One, None>>, <<None, Text1, None>>}
    \cup UNION {[1..n -> {One, Text1, None}] : n \in 0..2} \cup [1..3 -> {One, Text1}]
    \cup UNION {{<<x>>, <<x, Void>>, <<Whole, x>>} : x \in MCLiterals}

=============================================================================
