---------------------------- MODULE Conversions -----------------------------
(***************************************************************************)
(* What becomes of a value on its way into a guest and out of it, for each *)
(* of the four languages.  A value (of the application or of a guest) is a *)
(* tree: a function from the paths of the values in it to what each of     *)
(* them is, a record with one field that is named for its type.  The path  *)
(* of an element is that of its array, followed by its place in the array. *)
(* Strings are sequences of characters, floats are a whole number with or  *)
(* without a half.                                                         *)
(***************************************************************************)
EXTENDS Integers, Sequences, SequencesExt, Functions

CONSTANTS
  FixnumBits,  \* of a small integer of Ruby, one less than of a pointer
  Numerals     \* the strings that Lua takes for numbers, and which number each is

ASSUME ConversionsAssumption ==
  /\ FixnumBits \in {31, 63}
  /\ DOMAIN Numerals \subseteq Seq(STRING) /\ Numerals \in [DOMAIN Numerals -> Int \X BOOLEAN]

Engines == {"lua", "py", "js", "rb"}

Nil         == [nil |-> TRUE]
Bool(b)     == [bool |-> b]
Integer(n)  == [int |-> n]
Float(n, h) == [float |-> <<n, h>>]
Str(s)      == [str |-> s]
Arr         == [arr |-> TRUE]

(* NULL in the place of a value_t, and in a guest what has no counterpart  *)
(* (a function, an object), a table or an array whose elements cannot be   *)
(* read (its metatable or a getter raises an error), an integer that does  *)
(* not fit in 32 bits (such as 2^32), byte strings of Python and symbols   *)
(* of Ruby.                                                                *)
Null      == [null |-> TRUE]
Other     == [other |-> TRUE]
Trap      == [trap |-> TRUE]
Wide      == [wide |-> TRUE]
Plain(s)  == [plain |-> s]

Is(x, type) == type \in DOMAIN x

(* A value that is not an array. *)
Leaf(x) == [p \in {<<>>} |-> x]

NoValue == Leaf(Null)

HasNull(v) == Null \in Range(v)

(* The names that CFunction has for the types of values. *)
KindOf(v) ==
  LET x == v[<<>>]
  IN CASE Is(x, "nil") -> "void"  [] Is(x, "bool") -> "boolean" [] Is(x, "int") -> "int"
       [] Is(x, "float") -> "float" [] Is(x, "str") -> "string" [] Is(x, "arr") -> "array"
       [] OTHER -> "NULL"

-----------------------------------------------------------------------------
Bits(n) == CASE n = 23 -> 8388608 [] n = 24 -> 16777216 [] n = 30 -> 1073741824

(* A float has 24 bits: what lies between two numbers that can be written  *)
(* with them.  (Beyond 2^31 it is more, but then the code has no integers  *)
(* of that size.)                                                          *)
Spacing(n) ==
  Min({128} \cup {s \in {1, 2, 4, 8, 16, 32, 64} : n \in -(Bits(24) * s)..(Bits(24) * s)})

(* To the nearest of these; from the middle, to the one that is even.      *)
Single(f) ==
  LET n    == f[1]
      s    == Spacing(n)
      rest == 2 * (n % s) + IF f[2] THEN 1 ELSE 0
      up   == rest > s \/ (rest = s /\ (n \div s) % 2 = 1)
  IN IF f[2] /\ n \in -Bits(23)..(Bits(23) - 1) THEN f
     ELSE <<s * (n \div s + IF up THEN 1 ELSE 0), FALSE>>

(* INT2FIX does not look whether the number fits, as it always does where  *)
(* pointers have 64 bits.                                                  *)
Small == IF FixnumBits = 31 THEN -Bits(30)..(Bits(30) - 1) ELSE Int

Fixnum(n) ==
  IF n \in Small THEN n ELSE IF n >= Bits(30) THEN n - Bits(30) - Bits(30) ELSE n + Bits(30) + Bits(30)

(* lua_isnumber comes before lua_isstring. *)
Numeric(s) == s \in DOMAIN Numerals

(* push_value, value_to_pyobject, value_to_jsval, value_to_ruby: of values *)
(* without NULLs, which all of them follow.                                *)
Sent(e, x) ==
  CASE Is(x, "int") /\ e = "lua" -> Float(x.int, FALSE)
    [] Is(x, "int") /\ e = "rb"  -> Integer(Fixnum(x.int))
    [] OTHER                     -> x

Out(e, v) == [p \in DOMAIN v |-> Sent(e, v[p])]

(* PyUnicode_AS_DATA gives wide characters: as a C string, the first one.  *)
FirstOnly(s) == IF s = <<>> THEN s ELSE <<Head(s)>>

(* lua_to_value, pyobject_to_value, jsval_to_value, ruby_to_value.  In     *)
(* Python a boolean is an integer, and PyInt_Check comes first; of a long  *)
(* integer the lower 32 bits are left.                                     *)
Got(e, x) ==
  CASE Is(x, "float")                                 -> [float |-> Single(x.float)]
    [] Is(x, "str") /\ e = "py"                       -> Str(FirstOnly(x.str))
    [] Is(x, "plain")                                 -> Str(x.plain)
    [] Is(x, "bool") /\ e = "py"                      -> Integer(IF x.bool THEN 1 ELSE 0)
    [] Is(x, "str") /\ e = "lua" /\ Numeric(x.str)    -> [float |-> Single(Numerals[x.str])]
    [] Is(x, "wide") /\ e = "py"                      -> Integer(0)
    [] x \in {Other, Trap} \/ (x = Wide /\ e # "py") -> Null
    [] OTHER                                          -> x

(* Fault: nils are elements like others. *)
CutNever(e, g, p) == FALSE

(* lua_to_value reads tables until the first nil; the others take all that *)
(* there is.                                                               *)
Cut(e, g, p) ==
  e = "lua" /\ \E j \in 1..Len(p) : \E i \in 1..p[j] : g[Append(SubSeq(p, 1, j - 1), i)] = Nil

In(e, g) == [p \in {q \in DOMAIN g : ~Cut(e, g, q)} |-> Got(e, g[p])]

(* What has no counterpart in this language. *)
Strange(e, g) == \E x \in Range(g) : x \in {Other, Trap} \/ (x = Wide /\ e # "py")

(* Fault: ruby_to_value gives NULL like the others. *)
RaisesNever(e, g) == FALSE

(* ruby_to_value does not give NULL, it raises an exception, and so does   *)
(* NUM2INT for an integer that does not fit; lua_gettable runs __index.    *)
Raises(e, g) ==
  \E p \in DOMAIN g :
    /\ ~Cut(e, g, p)
    /\ (e = "rb" /\ g[p] \in {Other, Trap, Wide}) \/ (e = "lua" /\ g[p] = Trap)

-----------------------------------------------------------------------------
(* What each language cannot hand back as it was. *)
Lossy(e, x) ==
  CASE e = "lua" -> Is(x, "int") \/ (Is(x, "str") /\ Numeric(x.str))
    [] e = "py"  -> Is(x, "bool") \/ (Is(x, "str") /\ Len(x.str) > 1)
    [] e = "rb"  -> Is(x, "int") /\ x.int \notin Small
    [] OTHER     -> FALSE

Lossless(e, v) == \A p \in DOMAIN v : ~Lossy(e, v[p]) /\ ~(e = "lua" /\ p # <<>> /\ v[p] = Nil)

-----------------------------------------------------------------------------
(* What there is in values of the application, and in those of guests.     *)
(* (Integers of the application have 32 bits; nothing here depends on it.) *)

Common == {Nil, Arr} \cup [bool : BOOLEAN] \cup [int : Int] \cup [str : Seq(STRING)]

Singles == {f \in Int \X BOOLEAN : Single(f) = f}

Native  == Common \cup [float : Singles] \cup {Null}
Foreign == Common \cup [float : Int \X BOOLEAN] \cup [plain : Seq(STRING)] \cup {Other, Trap, Wide}

(* A value of what there is in S. *)
Tree(v, S) ==
  /\ v \in [DOMAIN v -> S]
  /\ DOMAIN v \subseteq Seq(Nat \ {0}) /\ <<>> \in DOMAIN v
  /\ \A p \in DOMAIN v \ {<<>>} :
       /\ Front(p) \in DOMAIN v /\ v[Front(p)] = Arr
       /\ \A i \in 1..Last(p) : Append(Front(p), i) \in DOMAIN v

=============================================================================
