------------------------------ MODULE Natives -------------------------------
(***************************************************************************)
(* The application calls a guest's function with a value; the guest calls  *)
(* functions of the application, and returns a value.  The function values *)
(* pass through: the proxies of the four languages (lua_function_proxy,    *)
(* python_method_proxy, js_function_proxy, ruby_function_proxy), then, if  *)
(* the guest has a process of its own, proxy_function_call there and       *)
(* process_callbacks here, then cfunction_call.  Each of them owns the     *)
(* values for a while.  What the wire does is in Wire, and how messages    *)
(* interleave in Proxy.                                                    *)
(***************************************************************************)
EXTENDS CFunction, Conversions

CONSTANTS
  Values,     \* what the application passes
  Returned,   \* what its functions return, for an array perhaps NULL
  Literals,   \* what guests can make
  Calls,      \* what guests call functions with: sequences of literals
  StackRoom   \* of Lua for what is inside of a value

VARIABLES
  engine,     \* the guest's language
  sandboxed,  \* it has a process of its own
  place,      \* who goes on
  held,       \* what the guest was given last, or the application got from it
  own,        \* what that is in the guest
  argv,       \* the arguments of the function, as values
  result,     \* of the function
  part,       \* it is a part of the arguments
  odd,        \* what was out of the ordinary in this call, or still is
  accident,   \* what has happened: a NULL or freed memory was followed, ...
  culprit,    \* in which value
  victim      \* to whom

ASSUME NativesAssumption ==
  /\ \A v \in Values : Tree(v, Native \ {Null})
  /\ \A v \in Returned : Tree(v, Native)
  /\ \A g \in Literals : Tree(g, Foreign)
  /\ Calls \subseteq Seq(Literals)
  /\ StackRoom \in Nat

nvars == <<engine, sandboxed, place, held, own, argv, result, part, odd, accident, culprit, victim>>
vars == <<cvars, nvars>>

(* A guest passes or returns what has no counterpart, or fails; its Lua    *)
(* state raises an error when a name is looked up; a function refuses its  *)
(* arguments, returns NULL, a NULL in an array, or a part of its           *)
(* arguments; a text is written behind the slots, or a value is nested     *)
(* deeper than the stack of Lua has room for.                              *)
Oddities == {"argument", "answer", "thrown", "trap", "refused", "nothing", "hole", "part", "beyond", "deep"}

TypeOK ==
  /\ CTypeOK
  /\ engine \in Engines /\ sandboxed \in BOOLEAN /\ part \in BOOLEAN
  /\ place \in {"application", "guest", "native", "stuck", "over"}
  /\ place = "native" => at # "idle"
  /\ place \in {"application", "guest", "stuck"} => at = "idle"
  /\ Len(argv) = Len(kinds) \/ place = "over"
  /\ odd \subseteq Oddities
  /\ accident \in {"none", "null", "freed", "exception", "overwritten"}
  /\ culprit \in {"nothing", "passed", "name", "arguments", "result", "returned", "thrown", "stack"}
  /\ victim \in {"nobody", "application", "child"}
  /\ accident = "none" <=> victim = "nobody"

Init ==
  /\ CInit
  /\ engine \in Engines /\ sandboxed \in BOOLEAN
  /\ place = "application" /\ held = Leaf(Nil) /\ own = Leaf(Nil)
  /\ argv = <<>> /\ result = Leaf(Nil) /\ part = FALSE /\ odd = {}
  /\ accident = "none" /\ culprit = "nothing" /\ victim = "nobody"

-----------------------------------------------------------------------------
GuestProcess == IF sandboxed THEN "child" ELSE "application"

(* Nothing goes on in a process that is gone. *)
Harm(what, value, whom) ==
  /\ accident' = what /\ culprit' = value /\ victim' = whom /\ place' = "over"
  /\ UNCHANGED <<engine, sandboxed, held, own>>

NoHarm(next) ==
  /\ place' = next
  /\ UNCHANGED <<engine, sandboxed, accident, culprit, victim>>

When(condition, what) == IF condition THEN {what} ELSE {}

Notes(what) == odd' = odd \cup what

NoNative == UNCHANGED <<cvars, argv, result, part>>

(* What can be made in a language. *)
Speaks(g) ==
  \A x \in Range(g) :
    /\ Is(x, "int") => engine # "lua"
    /\ Is(x, "plain") \/ x = Wide => engine \in {"py", "rb"}
    /\ x = Trap => engine \in {"lua", "js"}

(* On the way to an element push_value takes two places on the stack for   *)
(* each table, lua_to_value one, and neither asks for them.                *)
Deep(v, places) == engine = "lua" /\ \E p \in DOMAIN v : places * Len(p) > StackRoom

(* What is out of the ordinary and outlasts a call. *)
Lasting == {"answer", "beyond", "deep"}

(* call_function of the language, with the arguments on their way in; a    *)
(* NULL inside of a value is followed here or in write_value.              *)
AppCalls ==
  /\ place = "application"
  /\ \E v \in Values \cup {held} :
       /\ v # NoValue
       /\ odd' = (odd \cap Lasting) \cup When(Deep(v, 2), "deep")
       /\ IF HasNull(v) THEN Harm("null", "passed", "application")
          ELSE NoHarm("guest") /\ held' = v /\ own' = Out(engine, v)
  /\ NoNative

(* lua_getfield is outside of lua_pcall, and where the guest has given the *)
(* table of names an __index, that runs here.                              *)
LookupRaises ==
  /\ place = "application" /\ engine = "lua"
  /\ Harm("exception", "name", GuestProcess)
  /\ Notes({"trap"})
  /\ NoNative

(* The rest of it.  ruby_to_value is outside of rb_rescue, lua_to_value    *)
(* outside of lua_pcall; write_value of the child follows a NULL inside.   *)
(* Returning no value (NULL) is an error that is reported, by RESP_ERROR   *)
(* from the child.                                                         *)
Returns(g) ==
  /\ place = "guest"
  /\ LET ret == In(engine, g)
     IN IF Raises(engine, g) THEN Harm("exception", "returned", GuestProcess)
        ELSE IF sandboxed /\ ret # NoValue /\ HasNull(ret) THEN Harm("null", "returned", "child")
        ELSE NoHarm("application") /\ held' = ret /\ own' = Leaf(Nil)
  /\ Notes(When(Strange(engine, g), "answer") \cup When(Deep(g, 1), "deep"))
  /\ NoNative

Echoes == Returns(own)

GuestReturns == \E g \in Literals : Speaks(g) /\ Returns(g)

(* An error or an exception.  rb_rescue catches StandardError only, and    *)
(* handle_exception of Python may follow a NULL (Interpreters says when).  *)
GuestFails ==
  /\ place = "guest"
  /\ \/ NoHarm("application") /\ held' = NoValue /\ own' = Leaf(Nil)
     \/ engine = "rb" /\ Harm("exception", "thrown", GuestProcess)
     \/ engine = "py" /\ Harm("null", "thrown", GuestProcess)
  /\ Notes({"thrown"})
  /\ NoNative

-----------------------------------------------------------------------------
(* The function proxies.                                                   *)

(* Lua takes as many as the function has parameters, from the end; the     *)
(* others take what is there.                                              *)
Taken(p, s) == IF engine = "lua" THEN SubSeq(s, Len(s) - Len(p) + 1, Len(s)) ELSE s

(* The values are looked for on the stack of the main state, where those   *)
(* of a coroutine are not.  luaL_argerror, rb_raise and errors in __index  *)
(* do not return here, but to the guest.                                   *)
Unconvertible(p, s, coroutine) ==
  \/ engine = "lua" /\ (Len(s) < Len(p) \/ (coroutine /\ p # <<>>))
  \/ /\ engine = "lua" => Len(s) >= Len(p)
     /\ \E i \in DOMAIN Taken(p, s) :
          \/ engine = "lua" /\ In(engine, Taken(p, s)[i]) = NoValue
          \/ Raises(engine, Taken(p, s)[i])

Unusual(s) ==
  When(\E i \in DOMAIN s : Strange(engine, s[i]), "argument") \cup When(\E i \in DOMAIN s : Deep(s[i], 1), "deep")

(* What the guest was given is not looked at any more. *)
Busy == held' = Leaf(Nil) /\ own' = Leaf(Nil)

GuestIsRefused ==
  /\ place = "guest"
  /\ \E p \in Signatures, s \in Calls, coroutine \in BOOLEAN :
       (\A i \in DOMAIN s : Speaks(s[i])) /\ Unconvertible(p, s, coroutine) /\ Notes(Unusual(s))
  /\ NoHarm("guest") /\ Busy
  /\ NoNative

(* proxy_function_call writes the arguments for the application, and a     *)
(* NULL among them is followed; without a sandbox they go straight to      *)
(* cfunction_call.                                                         *)
GuestCalls ==
  /\ place = "guest"
  /\ \E p \in Signatures, s \in Calls :
       /\ \A i \in DOMAIN s : Speaks(s[i])
       /\ ~Unconvertible(p, s, FALSE)
       /\ Notes(Unusual(s))
       /\ LET args == [i \in DOMAIN Taken(p, s) |-> In(engine, Taken(p, s)[i])]
          IN /\ argv' = args
             /\ IF sandboxed /\ \E i \in DOMAIN args : HasNull(args[i])
                THEN Harm("null", "arguments", "child") /\ UNCHANGED cvars
                ELSE /\ Enter(p, [i \in DOMAIN args |-> KindOf(args[i])])
                     /\ NoHarm("native") /\ Busy
  /\ result' = Leaf(Nil) /\ part' = FALSE

InFunction ==
  /\ place = "native" /\ CStep
  /\ Notes(When(beyond', "beyond"))
  /\ UNCHANGED <<engine, sandboxed, place, held, own, argv, result, part, accident, culprit, victim>>

NullArgument ==
  /\ place = "native" /\ at = "crashed"
  /\ Harm("null", "arguments", "application")
  /\ UNCHANGED odd
  /\ NoNative

(* What was written over the stack of the application, or over that of     *)
(* Lua, may show at any time after that, or never.                         *)
Overwritten ==
  /\ place # "over"
  /\ \/ "beyond" \in odd /\ Harm("overwritten", "stack", "application")
     \/ engine = "lua" /\ "deep" \in odd /\ Harm("overwritten", "stack", GuestProcess)
  /\ UNCHANGED odd
  /\ NoNative

-----------------------------------------------------------------------------
(* Back from cfunction_call.                                               *)

(* Fault: the arguments are kept. *)
ForgetLess ==
  /\ at' = "idle" /\ params' = <<>> /\ kinds' = <<>> /\ filled' = 0
  /\ slots' = [k \in {0} |-> Empty] /\ beyond' = FALSE
  /\ UNCHANGED argv

Forget ==
  /\ at' = "idle" /\ params' = <<>> /\ kinds' = <<>> /\ filled' = 0
  /\ slots' = [k \in {0} |-> Empty] /\ beyond' = FALSE
  /\ argv' = <<>>

Holed == \E i \in DOMAIN argv : HasNull(argv[i])

(* Fault: nobody does. *)
ChecksNever == FALSE

(* Only js_function_proxy and process_callbacks look whether there is a    *)
(* value.                                                                  *)
ChecksResult == engine = "js" \/ sandboxed

(* cfunction_call gave NULL, on its own or because the function did, as    *)
(* one that returns an array can.  The proxies free the arguments,         *)
(* following any NULL inside, and convert the value.  In process_callbacks *)
(* the application gives up, and the child waits for an answer.            *)
NativeFails ==
  /\ place = "native" /\ (at = "refused" \/ (at = "returned" /\ NoValue \in Returned))
  /\ result' = NoValue /\ part' = FALSE
  /\ Notes({IF at = "refused" THEN "refused" ELSE "nothing"})
  /\ \/ ~sandboxed /\ Holed
        /\ Harm("null", "arguments", "application") /\ UNCHANGED <<cvars, argv>>
     \/ (sandboxed \/ ~Holed) /\ ~ChecksResult
        /\ Harm("null", "result", "application") /\ UNCHANGED <<cvars, argv>>
     \/ (sandboxed \/ ~Holed) /\ ChecksResult
        /\ NoHarm(IF sandboxed THEN "stuck" ELSE "guest") /\ Busy /\ Forget

(* The part of a value at a path. *)
Part(v, p) ==
  [q \in {SubSeq(r, Len(p) + 1, Len(r)) : r \in {r \in DOMAIN v : IsPrefix(p, r)}} |-> v[p \o q]]

(* Arrays that the function has been given, and may return. *)
Given == UNION {{Part(argv[i], p) : p \in {q \in DOMAIN argv[i] : argv[i][q] = Arr}} : i \in DOMAIN argv}

(* The function returned r.  In one process the arguments are freed before *)
(* r is converted; process_callbacks writes r, frees it, and then the      *)
(* arguments, so that a part of them is freed twice.                       *)
NativeReturns ==
  /\ place = "native" /\ at = "returned"
  /\ \E r \in (Returned \ {NoValue}) \cup Given :
       /\ result' = r
       /\ part' \in BOOLEAN /\ (part' => r \in Given) /\ (~part' => r \in Returned \ {NoValue})
       /\ Notes(When(part', "part") \cup When(HasNull(r), "hole") \cup When(Deep(r, 2), "deep"))
       /\ IF Holed THEN Harm("null", "arguments", "application") /\ UNCHANGED <<cvars, argv>>
          ELSE IF HasNull(r) \/ part'
          THEN /\ Harm(IF part' THEN "freed" ELSE "null", "result", "application")
               /\ UNCHANGED <<cvars, argv>>
          ELSE NoHarm("guest") /\ held' = r /\ own' = Out(engine, r) /\ Forget

Next ==
  \/ AppCalls \/ LookupRaises \/ Echoes \/ GuestReturns \/ GuestFails
  \/ GuestIsRefused \/ GuestCalls \/ InFunction \/ NullArgument \/ Overwritten
  \/ NativeFails \/ NativeReturns

Spec == Init /\ [][Next]_vars

-----------------------------------------------------------------------------
(* Properties                                                              *)

(* Whatever a guest in a sandbox passes to functions or returns, the       *)
(* application comes to harm only by what its own function returned (an    *)
(* array with a NULL inside, which value_clone of a void value gives, or a *)
(* part of the arguments: process_callbacks, write_value), or after it has *)
(* made a text behind the slots (args_data[i+i]; InBounds says for which   *)
(* calls it does).                                                         *)
HostUnharmed ==
  sandboxed /\ victim = "application" =>
    \/ culprit = "result" /\ (part \/ (result # NoValue /\ HasNull(result)))
    \/ culprit = "stack" /\ "beyond" \in odd

(* What a guest of this language may not survive, or its application.      *)
(* Ruby raises, and rescues, where the others pass NULL on as an argument; *)
(* Ruby and Python may fail at a failure; only Javascript, and the         *)
(* application of a guest in a sandbox, look for the NULL of a function    *)
(* that refuses its arguments.                                             *)
Fatal ==
  {"answer", "hole", "part", "beyond"}
    \cup When(engine # "rb", "argument")
    \cup When(engine \in {"py", "rb"}, "thrown")
    \cup (IF engine = "lua" THEN {"trap", "deep"} ELSE {})
    \cup (IF sandboxed \/ engine = "js" THEN {} ELSE {"refused", "nothing"})

(* "pass strings, integers, floats, nested arrays and booleans back and    *)
(* fro" (README.md:13), and nobody comes to harm: not before something in  *)
(* this call, or in an answer or on a stack that it was left with, was out *)
(* of the ordinary and is of the kind that this language does not survive. *)
HarmHasCause == accident # "none" => odd \cap Fatal # {}

(* "pass strings, integers, floats, nested arrays and booleans back and    *)
(* fro" (README.md:13): what a guest hands back as it got it is what it    *)
(* was, exactly if it has no part that the language loses.                 *)
ArrivesExactly ==
  [][Echoes /\ accident' = "none" => (held' = held <=> Lossless(engine, held))]_vars

=============================================================================
