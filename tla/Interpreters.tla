---------------------------- MODULE Interpreters ----------------------------
(***************************************************************************)
(* Guests of one language in one process, without a sandbox                *)
(* (unsafe_interpreter_by_extension): what language_lua.c, language_py.c,  *)
(* language_js.c and language_rb.c keep, and share, from one call to the   *)
(* next.  The application defines functions and constants in its guests,   *)
(* compiles scripts and calls functions; the guest's code redefines names  *)
(* and calls functions of the application, which may do all of that again  *)
(* before they return.  (In a sandbox, the child is such a process with a  *)
(* single guest.)  The values that go to and fro are in Natives.           *)
(***************************************************************************)
EXTENDS Integers, FiniteSets, Sequences

CONSTANTS
  Guests,      \* interpreters, as language_t
  Names,       \* of functions and constants
  Functions,   \* of the application
  Addresses,   \* where function objects of Javascript can be
  MaxEntries,  \* bound: of all tables together
  Room,        \* on a Lua stack, in each frame (LUA_MINSTACK)
  MaxArguments,\* of a call
  MaxDepth     \* bound: of calls inside of calls

Engines == {"lua", "py", "js", "rb"}

Constants == {"kept", "freed"}

(* What a name stands for that is no function of the application; what a   *)
(* script has made of it may also be the work of an __index.               *)
Others == {"nothing", "script", "value"}

ASSUME InterpretersAssumption ==
  /\ IsFiniteSet(Guests)
  /\ MaxEntries \in Nat /\ MaxDepth \in Nat /\ Room \in Nat /\ MaxArguments \in Nat
  /\ (Names \cup Functions \cup Addresses) \cap ({"none"} \cup Others \cup Constants) = {}

VARIABLES
  engine,    \* the language
  status,    \* of each guest
  up,        \* what the guests share has been set up
  refs,      \* py_reference_count, rb_reference_count
  global,    \* of Ruby: the guest whose table is used
  means,     \* what each name stands for in each guest
  table,     \* entries of global->functions, js->jsfunction_to_function
  given,     \* what was defined last for each name
  calls,     \* what is going on, the innermost last
  left,      \* slots in use of each guest's Lua stack, in the current frame
  causes,    \* for slots to be left: errors reported, results of scripts
  muted,     \* js->noerrors
  accident   \* what has happened, which is the end

vars == <<engine, status, up, refs, global, means, table, given, calls, left, causes, muted, accident>>

(* The application's code runs inside of "native", a guest's in the others *)
Doing == {"compile", "test", "call", "native"}

Data == Functions \cup Constants

(* A function of the application is known by a key: of Lua and Python, the *)
(* closure has it; of Javascript it is the address of the function object, *)
(* of Ruby the name.                                                       *)
Keys == Names \cup Functions \cup Addresses

Frame == [guest : Guests, doing : Doing, due : Data \cup {"none"}, ran : Data \cup {"none"}, base : 0..Room]

Entry(g, k, d) == [guest |-> g, key |-> k, data |-> d]

TypeOK ==
  /\ engine \in Engines
  /\ status \in [Guests -> {"new", "ready", "failed", "destroyed", "discarded"}]
  /\ up \in BOOLEAN
  /\ refs \in Nat
  /\ global \in Guests \cup {"none"}
  /\ means \in [Guests -> [Names -> Keys \cup Others]]
  /\ table \subseteq [guest : Guests, key : Keys, data : Data]
  /\ given \in [Guests -> [Names -> Data \cup {"none"}]]
  /\ calls \in Seq(Frame)
  /\ left \in [Guests -> 0..Room] /\ causes \in [Guests -> 0..Room]
  /\ muted \in [Guests -> BOOLEAN]
  /\ accident \in {"none", "null", "freed", "shut down", "exception", "overflow"}

Init ==
  /\ engine \in Engines
  /\ status = [g \in Guests |-> "new"]
  /\ up = FALSE /\ refs = 0 /\ global = "none"
  /\ means = [g \in Guests |-> [n \in Names |-> "nothing"]]
  /\ table = {}
  /\ given = [g \in Guests |-> [n \in Names |-> "none"]]
  /\ calls = <<>>
  /\ left = [g \in Guests |-> 0] /\ causes = [g \in Guests |-> 0]
  /\ muted = [g \in Guests |-> FALSE]
  /\ accident = "none"

-----------------------------------------------------------------------------
Top == calls[Len(calls)]

AppRuns == accident = "none" /\ (calls # <<>> => Top.doing = "native")

GuestRuns == accident = "none" /\ calls # <<>> /\ Top.doing # "native"

Usable(g) == status[g] = "ready" /\ (engine # "lua" => up)

Begin(g, doing, due, ran) ==
  calls' = Append(calls, [guest |-> g, doing |-> doing, due |-> due, ran |-> ran, base |-> left[g]])

End == calls' = SubSeq(calls, 1, Len(calls) - 1)

(* Once there is no room it does not matter how many are beyond it. *)
More(m, n) == IF m + n < Room THEN m + n ELSE Room

(* Slots of the Lua stack are left in use. *)
Leave(g, n) == left' = [left EXCEPT ![g] = More(@, n)]

(* There was an error, or the results of a script. *)
Because(g, n) == causes' = [causes EXCEPT ![g] = More(@, n)]

Harm(what) ==
  /\ accident' = what
  /\ UNCHANGED <<engine, status, up, refs, global, means, table, given, calls, left, causes, muted>>

(* All of Ruby has one set of names. *)
Sharing(g) == IF engine = "rb" THEN Guests ELSE {g}

Means(g, n, k) == [h \in Guests |-> IF h \in Sharing(g) THEN [means[h] EXCEPT ![n] = k] ELSE means[h]]

-----------------------------------------------------------------------------
(* Setting up and tearing down                                             *)

(* Fault: the global of Ruby is set each time. *)
EveryTime(r) == TRUE

First(r) == r = 0

(* Fault: the counter is looked at before it is decremented. *)
LastGoneLate(r) == r = 0

(* Fault: each guest takes the engine down. *)
LastGoneAlways(r) == TRUE

(* --py_reference_count == 0, --rb_reference_count == 0 *)
LastGone(r) == r - 1 = 0

Counted == engine \in {"py", "rb"}

Initialize(g) ==
  /\ AppRuns /\ status[g] = "new"
  /\ status' = [status EXCEPT ![g] = "ready"]
  /\ up' = (engine # "lua")
  /\ refs' = IF Counted THEN refs + 1 ELSE refs
  /\ global' = IF engine = "rb" /\ First(refs) THEN g ELSE global
  /\ UNCHANGED <<engine, means, table, given, calls, left, causes, muted, accident>>

(* initialize_js stops half-way, and then destroy_js does not look what    *)
(* there is: it may find no context, or take the engine down.              *)
InitializeFails(g) ==
  /\ AppRuns /\ status[g] = "new" /\ engine = "js"
  /\ \/ Harm("null")
     \/ /\ status' = [status EXCEPT ![g] = "failed"] /\ up' = FALSE
        /\ UNCHANGED <<engine, refs, global, means, table, given, calls, left, causes, muted, accident>>

(* Of a guest that nobody is in.  JS_ShutDown is for all of the process;   *)
(* ruby_finalize is taken to forget all names; lua_close frees the stack.  *)
Destroy(g) ==
  /\ AppRuns /\ Usable(g) /\ \A i \in 1..Len(calls) : calls[i].guest # g
  /\ status' = [status EXCEPT ![g] = "destroyed"]
  /\ refs' = IF Counted THEN refs - 1 ELSE refs
  /\ up' = (Counted /\ ~LastGone(refs))
  /\ left' = [left EXCEPT ![g] = 0] /\ causes' = [causes EXCEPT ![g] = 0]
  /\ means' = IF engine = "rb" /\ LastGone(refs) THEN [h \in Guests |-> [n \in Names |-> "nothing"]] ELSE means
  /\ UNCHANGED <<engine, global, table, given, calls, muted, accident>>

(* Fault: what was never initialized is counted. *)
DiscardCounted(g) ==
  /\ AppRuns /\ status[g] = "new"
  /\ status' = [status EXCEPT ![g] = "discarded"]
  /\ refs' = refs - 1
  /\ UNCHANGED <<engine, up, global, means, table, given, calls, left, causes, muted, accident>>

Discard(g) ==
  /\ AppRuns /\ status[g] = "new"
  /\ status' = [status EXCEPT ![g] = "discarded"]
  /\ UNCHANGED <<engine, up, refs, global, means, table, given, calls, left, causes, muted, accident>>

-----------------------------------------------------------------------------
(* Names                                                                   *)

(* destroy_rb frees what global points to. *)
GlobalGone == engine = "rb" /\ refs > 0 /\ status[global] # "ready"

Store(g, k, d) ==
  /\ Cardinality(table) < MaxEntries
  /\ table' = table \cup {Entry(g, k, d)}

(* rb_define_global_function adds to Kernel, and a script's own methods    *)
(* come before those of Kernel.                                            *)
StoreGlobal(g, n, d) ==
  /\ means' = IF means[g][n] = "script" THEN means ELSE Means(g, n, n)
  /\ Store(global, n, d)

(* A new function object may be where one was that nothing refers to.      *)
DefineFunction(g, n, f) ==
  /\ AppRuns /\ Usable(g) /\ ~GlobalGone
  /\ \/ engine \in {"lua", "py"} /\ means' = Means(g, n, f) /\ UNCHANGED table
     \/ /\ engine = "js"
        /\ \E a \in {b \in Addresses : \A m \in Names : means[g][m] # b} : means' = Means(g, n, a) /\ Store(g, a, f)
     \/ engine = "rb" /\ StoreGlobal(g, n, f)
  /\ given' = [given EXCEPT ![g][n] = f]
  /\ UNCHANGED <<engine, status, up, refs, global, calls, left, causes, muted, accident>>

(* Ruby keeps the value itself, which define_int_constant and              *)
(* define_string_constant free; the others convert it.                     *)
DefineConstant(g, n, d) ==
  /\ AppRuns /\ Usable(g) /\ ~GlobalGone
  /\ \/ engine # "rb" /\ means' = Means(g, n, "value") /\ UNCHANGED table
     \/ engine = "rb" /\ StoreGlobal(g, n, d)
  /\ given' = [given EXCEPT ![g][n] = IF engine = "rb" THEN d ELSE "none"]
  /\ UNCHANGED <<engine, status, up, refs, global, calls, left, causes, muted, accident>>

-----------------------------------------------------------------------------
(* What the application starts                                             *)

Compile(g) ==
  /\ AppRuns /\ Usable(g) /\ Len(calls) < MaxDepth
  /\ Begin(g, "compile", "none", "none")
  /\ UNCHANGED <<engine, status, up, refs, global, means, table, given, left, causes, muted, accident>>

(* is_function_js runs the name as a script.  The others only look, Lua    *)
(* with LookupRaises.                                                      *)
IsFunction(g) ==
  /\ engine = "js"
  /\ AppRuns /\ Usable(g) /\ Len(calls) < MaxDepth
  /\ Begin(g, "test", "none", "none")
  /\ muted' = [muted EXCEPT ![g] = TRUE]
  /\ UNCHANGED <<engine, status, up, refs, global, means, table, given, left, causes, accident>>

CallFunction(g, n) ==
  /\ AppRuns /\ Usable(g) /\ Len(calls) < MaxDepth
  /\ means[g][n] \notin {"nothing", "value"}
  /\ Begin(g, "call", "none", "none")
  /\ UNCHANGED <<engine, status, up, refs, global, means, table, given, left, causes, muted, accident>>

(* call_function_lua does not pop what is no function.                     *)
CallMissing(g, n) ==
  /\ engine = "lua"
  /\ AppRuns /\ Usable(g)
  /\ means[g][n] \in {"nothing", "value"}
  /\ Leave(g, 1) /\ Because(g, 1)
  /\ UNCHANGED <<engine, status, up, refs, global, means, table, given, calls, muted, accident>>

(* lua_getfield (is_function, call_function) and lua_setglobal (the define *)
(* functions) are outside of lua_pcall.                                    *)
LookupRaises(g, n) ==
  /\ engine = "lua" /\ AppRuns /\ Usable(g) /\ means[g][n] = "script"
  /\ Harm("exception")

(* Nothing asks Lua for room (lua_checkstack): what an operation pushes    *)
(* when there is none may end up behind the stack.                         *)
Overflow(g) ==
  /\ engine = "lua" /\ AppRuns /\ Usable(g)
  /\ left[g] + 1 + MaxArguments > Room
  /\ Harm("overflow")

-----------------------------------------------------------------------------
(* What the guest does                                                     *)

Redefine(n) ==
  /\ GuestRuns /\ Usable(Top.guest)
  /\ means' = Means(Top.guest, n, "script")
  /\ UNCHANGED <<engine, status, up, refs, global, table, given, calls, left, causes, muted, accident>>

(* The dictionaries find an entry of the key, of which there may be many.  *)
Found(g, k) ==
  IF engine \in {"lua", "py"} THEN {k}
  ELSE {e.data : e \in {x \in table : x.key = k /\ x.guest = (IF engine = "rb" THEN global ELSE g)}}

(* In Lua, a function of the application has a stack of its own. *)
Invoke(n) ==
  /\ GuestRuns /\ Usable(Top.guest) /\ ~GlobalGone /\ Len(calls) < MaxDepth
  /\ means[Top.guest][n] \in Keys
  /\ \E f \in Found(Top.guest, means[Top.guest][n]) \cap Functions : Begin(Top.guest, "native", given[Top.guest][n], f)
  /\ left' = [left EXCEPT ![Top.guest] = 0]
  /\ UNCHANGED <<engine, status, up, refs, global, means, table, given, causes, muted, accident>>

ReadFreed(n) ==
  /\ GuestRuns /\ Usable(Top.guest) /\ ~GlobalGone
  /\ means[Top.guest][n] \in Keys /\ "freed" \in Found(Top.guest, means[Top.guest][n])
  /\ Harm("freed")

(* Fault: noerrors stays when the name cannot be evaluated. *)
MutedStill(c, ok) == [muted EXCEPT ![c.guest] = @ /\ ~(c.doing = "test" /\ ok)]

MutedAfter(c, ok) == [muted EXCEPT ![c.guest] = @ /\ c.doing # "test"]

(* Fault: call_function_lua does not pop the result. *)
StaysUnpopped(c, ok, results) == IF ~ok THEN 1 ELSE IF c.doing = "compile" THEN results ELSE 1

(* On a Lua stack: the message of an error, and what a script returns. *)
Stays(c, ok, results) == IF ~ok THEN 1 ELSE IF c.doing = "compile" THEN results ELSE 0

Ends(ok) ==
  /\ End
  /\ \E results \in 0..Room :
       /\ results > 0 => ok /\ Top.doing = "compile" /\ engine = "lua"
       /\ IF engine = "lua"
          THEN Leave(Top.guest, Stays(Top, ok, results)) /\ Because(Top.guest, IF ok THEN results ELSE 1)
          ELSE UNCHANGED <<left, causes>>
  /\ muted' = MutedAfter(Top, ok)
  /\ UNCHANGED <<engine, status, up, refs, global, means, table, given, accident>>

Succeed == GuestRuns /\ Usable(Top.guest) /\ Ends(TRUE)

(* handle_exception of Python releases the traceback, and there is none of *)
(* a script that cannot be parsed, or of a function that cannot take the   *)
(* arguments; it releases the message too, and there is none of an         *)
(* exception whose __str__ fails.                                          *)
Fail ==
  /\ GuestRuns /\ Usable(Top.guest)
  /\ \/ engine = "py" /\ Harm("null")
     \/ Ends(FALSE)

(* rb_rescue is for StandardErrors only, and the result is converted       *)
(* outside of it, and outside of lua_pcall.                                *)
Escapes ==
  /\ engine \in {"lua", "rb"}
  /\ GuestRuns /\ Usable(Top.guest) /\ Top.doing = "call"
  /\ Harm("exception")

(* return 1: the result, and nothing else of the function's frame. *)
FunctionReturns ==
  /\ AppRuns /\ calls # <<>>
  /\ End
  /\ left' = [left EXCEPT ![Top.guest] = Top.base]
  /\ UNCHANGED <<engine, status, up, refs, global, means, table, given, causes, muted, accident>>

-----------------------------------------------------------------------------
(* An engine that is down is used by any guest that is still there, and    *)
(* global by each definition and each call of a function.                  *)
UseShutDown ==
  /\ engine # "lua" /\ ~up /\ (\E g \in Guests : status[g] = "ready")
  /\ AppRuns \/ GuestRuns
  /\ Harm("shut down")

UseFreed ==
  /\ GlobalGone
  /\ AppRuns \/ (GuestRuns /\ \E n \in Names : means[Top.guest][n] \in Keys)
  /\ Harm("freed")

Next ==
  \/ \E g \in Guests : Initialize(g) \/ InitializeFails(g) \/ Destroy(g) \/ Discard(g) \/ Compile(g) \/ IsFunction(g)
       \/ Overflow(g)
  \/ \E g \in Guests, n \in Names :
       \/ \E f \in Functions : DefineFunction(g, n, f)
       \/ \E d \in Constants : DefineConstant(g, n, d)
       \/ CallFunction(g, n) \/ CallMissing(g, n) \/ LookupRaises(g, n)
  \/ \E n \in Names : Redefine(n) \/ Invoke(n) \/ ReadFreed(n)
  \/ Succeed \/ Fail \/ Escapes \/ FunctionReturns \/ UseShutDown \/ UseFreed

Spec == Init /\ [][Next]_vars

-----------------------------------------------------------------------------
(* Properties                                                              *)

Ready == {g \in Guests : status[g] = "ready"}

Outlived == \E g, h \in Guests : status[g] \in {"failed", "destroyed"} /\ status[h] = "ready"

(* Python and Ruby are set up exactly while there is a guest to use them   *)
(* (py_reference_count, rb_reference_count).  Javascript is down under a   *)
(* guest only if another one was destroyed or not set up (JS_ShutDown).    *)
EngineUp ==
  /\ Counted => (up <=> Ready # {})
  /\ engine = "js" /\ ~up => Ready = {} \/ Outlived

(* What the guests' code does is not the end of the application, except    *)
(* for what these causes explain: in Javascript and Ruby, that a guest     *)
(* outlives another one, and in Ruby also a constant that was passed by    *)
(* define_int_constant or define_string_constant; in Python that an error  *)
(* has no traceback or no message, in Javascript that a guest cannot be    *)
(* set up; in Lua and Ruby that an exception goes past the interpreter; in *)
(* Lua that its stack is full.                                             *)
AccidentHasCause ==
  /\ accident = "null" => engine \in {"py", "js"}
  /\ accident = "exception" => engine \in {"lua", "rb"}
  /\ accident = "overflow" => engine = "lua"
  /\ accident = "shut down" => engine = "js" /\ Outlived
  /\ accident = "freed" => engine = "rb" /\ (Outlived \/ \E e \in table : e.data = "freed")

(* A Lua stack is full only after as many errors in calls of this guest as *)
(* fill it (show_error and call_function_lua leave a slot each time), or   *)
(* results of scripts, up to what one more call needs.  What goes well     *)
(* takes no room, however often, and however deep calls are nested.        *)
OverflowHasCause ==
  accident = "overflow" => \E g \in Guests : causes[g] + 1 + MaxArguments > Room

Doubled(h) == \E d, e \in table : d # e /\ d.guest = h /\ e.guest = h /\ d.key = e.key

GivenToAnother(c) == \E h \in Guests \ {c.guest}, n \in Names : given[h][n] = c.ran

Mistaken(c) ==
  \/ engine = "js" /\ Doubled(c.guest)
  \/ engine = "rb" /\ (Doubled(global) \/ GivenToAnother(c))

Rightly == \A i \in 1..Len(calls) : calls[i].doing = "native" /\ calls[i].ran # calls[i].due => Mistaken(calls[i])

(* A name finds a function of the application ("which we've never seen     *)
(* before", "couldn't retrieve" do not happen), and it is the one that was *)
(* defined last for the name in that guest, except: in Javascript if a     *)
(* second function object was where another had been, and in Ruby if a     *)
(* name was defined twice, or for another guest.                           *)
RightFunction ==
  /\ \A g \in Ready, n \in Names :
       means[g][n] \in Keys /\ Usable(g) /\ ~GlobalGone => Found(g, means[g][n]) # {}
  /\ Rightly

(* Errors are kept quiet (noerrors) only while is_function looks at a name *)
(* of that guest, even when one is_function runs within another.           *)
ErrorsHeard ==
  \A g \in Guests : muted[g] => \E i \in 1..Len(calls) : calls[i].guest = g /\ calls[i].doing = "test"

-----------------------------------------------------------------------------
(* What makes the properties inductive.                                    *)

(* The counter is the number of guests, and global is one that is ready or *)
(* was.                                                                    *)
Lifecycle ==
  /\ Counted => refs = Cardinality(Ready) /\ (up <=> refs > 0)
  /\ engine = "js" /\ ~up => Ready = {} \/ Outlived
  /\ engine = "rb" /\ refs > 0 => global \in Guests /\ status[global] \in {"ready", "destroyed"}

(* Guests' code and functions of the application take turns, and only      *)
(* guests that are ready take part.                                        *)
Nested ==
  /\ \A i \in 1..Len(calls) : status[calls[i].guest] = "ready"
  /\ calls # <<>> => calls[1].doing # "native"
  /\ \A i \in 1..(Len(calls) - 1) :
       /\ calls[i + 1].doing = "native" <=> calls[i].doing # "native"
       /\ calls[i + 1].doing = "native" => calls[i + 1].guest = calls[i].guest

(* Slots are left for a cause, in the current frame and in those around it *)
Explained ==
  /\ \A g \in Guests : left[g] <= causes[g]
  /\ \A i \in 1..Len(calls) : calls[i].base <= causes[calls[i].guest]

(* Each name that stands for a function has its entry.                     *)
NamesOfClosures == \A g \in Guests, n \in Names : means[g][n] \in Keys => means[g][n] = given[g][n]

NamesOfObjects ==
  /\ \A e \in table : e.data \in Functions
  /\ \A g \in Guests, n \in Names : means[g][n] \in Keys => Entry(g, means[g][n], given[g][n]) \in table

GivenToSomeone(e) ==
  \/ \E h \in Guests : given[h][e.key] = e.data
  \/ \E d \in table : d # e /\ d.guest = e.guest /\ d.key = e.key

NamesOfRuby ==
  /\ \A e \in table : e.key \in Names /\ status[e.guest] # "new"
  /\ \A e \in table : e.guest = global => GivenToSomeone(e)
  /\ \A g \in Guests, n \in Names :
       /\ means[g][n] \in Keys => refs > 0 /\ means[g][n] = n /\ \E d \in Data : Entry(global, n, d) \in table
       /\ status[g] = "ready" /\ given[g][n] # "none" => Entry(global, n, given[g][n]) \in table
       /\ status[g] = "new" => given[g][n] = "none"

Named ==
  /\ engine \in {"lua", "py"} => NamesOfClosures
  /\ engine = "js" => NamesOfObjects
  /\ engine = "rb" => NamesOfRuby

=============================================================================
