# A verification project for cagekeeper

cagekeeper runs guest programs (Python, Javascript, Ruby, Lua) for an application. A guest can be
loaded into the application's own process, or behind a *proxy*: a forked, jailed child process to
which every operation is forwarded over two pipes. This directory holds TLA+ modules that model
the parts of `src/` with state and control of their own, configurations that check them with TLC,
and theorems about eight of them that TLAPS checks: every safety property of the table in section 3 is proved for all
values of the constants, refinements included.

Run `tlc -config <name>.cfg <module>.tla` for a run of the table below, and `tlapm` on each of the modules whose
name ends in `Proofs` for the proofs. `PROJECT.json` lists runs, mutations, the lines every
definition stands for, hazards, findings and theorems.

## 1. Inventory

| component | source | state it keeps | operations |
|---|---|---|---|
| proxy, host side | `language_proxy.c` 179-361, 551-616 | `in_call`, the table of callback functions, `timeout`; what is in the pipes | define_constant, define_function, compile_script, is_function, call_function, destroy |
| proxy, child side | `language_proxy.c` 363-549 | the command being executed, the guest's functions | `child_loop`, `proxy_function_call`, `sandbox_log` |
| timed reads | `util.c` 132-193 | the `timeval` handed from read to read | read_with_retry, read_with_timeout |
| wire format | `language_proxy.c` 42-177 | position in a nested value, element count | write_value, read_value, read_value_nolimit |
| guest processes | `language_proxy.c` 500-616 | child pids, descriptors, the kernel's process table | spawn_child, proxy_new, destroy_proxy |
| calls with an alarm | `language.c` 31-120 | one alarm, one handler, one jump buffer for the process | call_function_with_timeout and relatives |
| hash table | `dict.c` | slots, count, key type | put, lookup, contains, del, del2, clone, clear, init |
| values | `function.c` | heap-owned trees of values, arrays that grow | constructors, append, clone, destroy |
| C functions | `function.c` 161-452 | signature, types and the slots of arguments during a call | cfunction_call |
| Lua | `language_lua.c` | one engine for each guest, with its stack | the operations of `language_t`, conversions of values, the proxy for functions of the application |
| Python | `language_py.c` | a counter of guests; globals of each | the same |
| Javascript | `language_js.c` | runtime, context, `noerrors` and table of functions of each guest | the same |
| Ruby | `language_rb.c` | a counter of guests, one table of functions in `global` for all of them | the same |
| jail | `seccomp.c` | none of its own (a filter in the kernel) | seccomp_lockdown |
| settings, logs, files | `settings.c`, `util.c` | two constants | |
| test driver | `spec/run.c`, `run_specs` | none | a client of the library |

**How they interact.** The application calls a `language_t` (calls). The proxy's implementation
writes commands to the child and waits for its answers (messages over pipes of bounded capacity, in
bytes, without framing); while it waits, it executes callbacks, which are functions of the
application and may use the proxy, another guest or the alarm again (callbacks). The child drives
the engine. All guests of one application share its descriptors and its process table, and all
calls with an alarm share one alarm (shared state).

**What is hard here.**

* Two processes, each of which decides alone when to give up. The host has a time limit, the child
  does not learn of it and goes on. Nothing in the pipe tells whose answer a byte belongs to.
* Messages have no frame: who stops reading inside one reads payload as a header next.
* Reentrancy: callbacks, inside of which the application may do anything.
* Pipes are bounded, and only reads by the host have a time limit.
* The child may end at any moment; `fork` and `pipe` may fail; a process may be stopped.
* Process ids and descriptors are shared and reused.
* One alarm and one handler for calls inside of each other, and several early returns.
* A hash table whose lookups reorder, move and rebuild it.
* Trees on the heap that are owned by convention: nothing in a value says whether it is in an array already.
* Guests of one process share what they should not (Ruby's `global`, the Javascript engine), one of them counts, another does not.
* The application and a guest take turns inside of each other, to any depth, and errors leave things behind on the way out.
* A value passes through three or four owners and two conversions on its way; each looks for some errors and not for others.

**What makes each component correct.**

* Proxy: an answer belongs to the question just asked; payload is never taken for a header; a
  callback is for a function the host knows; every operation returns.
* Wire format: what is accepted is what was sent; refusal has a reason; what is accepted is
  bounded; reading ends.
* Guests: destroying one neither touches the others nor leaves anything behind, and returns.
* Alarm: a limit aborts the call; nothing is left armed; the handler is put back.
* Hash table: a bag of pairs for its users; counts are right; growth is enough.
* Values: every value is freed once, no vector is too short, a clone shares nothing.
* C functions: each argument arrives in its parameter, whatever it has to be converted to, and nothing is lost.
* Interpreters: a value that makes the round trip comes back as it was; what a guest does cannot harm the application; an
  engine is up while a guest uses it; a name calls the function defined for it; the stack of Lua is used up by errors only; errors are
  muted only while they should be.

## 2. Modules

| module | models | state and actions |
|---|---|---|
| `Session` | what `compile_script` and `call_function` of a proxy promise | asking, answered, state; Ask, Answer, Fail, Spoil |
| `Proxy` | host and child of one proxy, with their pipes | one action for each way through an operation, see below |
| `ProxyInvariant` | the inductive invariant `IInv` of `Proxy` | |
| `ProxyProofs` | theorems about `Proxy` | |
| `Multimap` | what a dictionary is to its users | contents: how often each pair is present |
| `Dict` | `dict.c` | slots as lists; Put, Lookup, Delete, Clone, Clear, InitAgain |
| `DictProofs` | theorems about `Dict` | |
| `Wire` | one value going through a pipe | a tree; the place of the writer in it, tokens, the reader's recursion as a stack of arrays |
| `WireProofs` | theorems about `Wire` | |
| `Guests` | the processes of several guests | pid, fds, the process table; spawn_child and destroy_proxy step by step |
| `GuestsProofs` | theorems about `Guests` | |
| `Alarm` | nested calls of `with_timeout` | a stack of calls; alarm, handler |
| `Trees` | what values are to their users: trees without identity | held: a tree for each value in use |
| `Values` | the values of `function.c` | the heap: kind, content, items and room of each cell; New, Append, Clone, Destroy |
| `ValuesProofs` | theorems about `Values` | |
| `CFunction` | one call of `cfunction_call` | the slots of `args_data`; a step for each parameter and each way out |
| `Conversions` | what each language makes of a value, in both directions | operators `Out` and `In`, on trees |
| `Natives` | a guest and the application calling each other, composed of `CFunction` and `Conversions` | who goes on, what it holds; AppCalls, Returns, GuestCalls, NativeReturns and the failures of each |
| `NativesProofs` | theorems about `CFunction`, `Conversions` and `Natives` | |
| `Interpreters` | several guests of one language in one process | what they share, names and tables, the stack of calls |
| `InterpretersProofs` | theorems about `Interpreters` | |
| `AlarmProofs` | theorems about `Alarm` | |
| `MC...` | small constants for TLC | |

**Proxy.** `hpc` and `cpc` are where the two processes are in their programs. An operation of the
application is `Invoke` (it chooses one), then the write of its command (`DefineConstant`,
`DefineFunction`, `IsFunction`, `Request`, `RequestRefused`); a compile or call then goes through
`process_callbacks`: `ReadHeader` reads the byte that decides, and an action for each case of the
switch and each early return in it follows (`ReadLog`/`LogLost`, `ReadArgs`/`ArgsLost`,
`CallbackReturns`/`CallbackFails`/`WriteReply`, `ReadResult`/`ResultLost`, `ReadError`,
`RespGivesUp`). `Fail` is the common end of the failures: note that it does not reset `in_call`.
Since a callback may call the proxy, `op` (the compile or call in progress) and `cmd` (the operation
being executed) are different variables, and `Back` returns to the callback if there is one.

The child takes commands (`TakeFunction`, `TakeCommand`), and then the *guest* moves: it may log, call
back, return, fail, do nothing for ever, or die, in any order. That covers all four engines.
What the child writes is two steps, header and payload (`partial`), since the host may give up between
them; a command is one, since the child waits for commands without a limit.

Messages carry the number of their operation. The pipes do not: no guard of the model reads these
numbers, only the properties do. The auxiliary variables are marked in the module.

When a process reads payload as a header its control point is `"garbled"`. What happens then depends on data which the guest has made, so
the model allows whatever some data would bring about: `process_callbacks` skips bytes (`GarbledRead`), finds in them a callback with any name, also one the host
does not know (`GarbledCallback`), a return (`GarbledReturn`), a log line, an error or arguments that cannot be read (`GarbledRest`); the child takes values for
commands and may write bytes that nobody asked for (`GarbledTake`, `GarbledSend`). `mishap` records how far host and child have come apart:
"late" is an ordinary failure; "payload", "reentered", "uninvited" and "misread" (the set
`Spoiling`) are the four ways in which the session can lose its order; "stale" and "unknown" are what may come of it.

**Dict.** A slot is a sequence, the first entry first. `Hash` is a constant. `last` is the answer of the
latest operation. The size of the first growth (15) is the constant `Floor`. `Expand` says where each entry goes without
following the loop: an entry is in front of those of its new list that the loop meets before it, so its place is the number of
those met later. Iteration and printing
change no state and are left out.

**Wire.** A value is a tree, a function from paths to labels; the element `i` of the array at path `p` is at `Append(p, i)`. The
recursion of `write_value` is the path `at` it has come to: `Following` is where its loops go next. The recursion of `_read_value` is
`stack`, from which `Here` is the path of what is being read. A token is what one `write` puts into the pipe. A string is known by its length, other simple
values are one token. `limited` tells which of the two readers is modelled.

**Guests.** `Target(c)` is what `waitpid(c)` and `kill(c)` take `c` for, -1 included. `Dies`, `Stops`,
`Continues` are the kernel and the child. `misled` records a poll answered by a stop or a continuation,
after which `destroy_proxy` believes the child to be gone.

**Values.** A cell of the heap is a value; cells are used again after they have been freed. `items` is `data` as far as
`length`, `room` is how many elements the vector has space for. `Below(c)` is all that recursion from `c` comes to, as
the least set closed under elements. The callers are the interpreters, the proxy and the application, as far as they keep to
the convention: append or destroy only what you own, and only once. They may append the NULL that `value_clone`
returns for void and function values, as `value_clone` itself does; whoever follows it crashes. Any value below an owned one may be
cloned, since callers clone what they borrow (`spec/run.c:56`). Function values are like void values here.
`Tree(c)` is what the cell `c` means: a tree, that is, a function from the paths that recursion takes from `c` (`Ways`) to what is at their ends, without
the cells. `Values` implements `Trees` with a handle for each owned cell and its tree as what is held.

**CFunction.** Slot `k` is `args_data[k]`. A slot holds the argument itself (or a pointer to something in it), the text of an
argument, or a pointer to the slot that has the text. A slot is read by the C function for the parameter of its number, so `Arrives`
is about the slots when `ffi_call` is reached. Which types fit is kept in full; what number a number becomes is not. A text that is written behind the slots is
on the application's stack: the behaviour is undefined, so nothing is said of whether the function finds it, and `Natives` lets the application come to harm by it.

**Conversions** and **Natives.** A value is a tree here too; its labels are records whose one field names their type. What a language
does to a label is `Sent` and `Got`; what it does to the tree is `Cut` (Lua's tables end at the first nil). Strings are sequences of characters, since what
Python and Lua do to a string depends on its length and on whether Lua can read it as a number: which strings those are, and which numbers, is the constant
`Numerals`, because it is the library of C that decides. Floats have a whole part and perhaps a half,
and are rounded as a float32 is (`Spacing`, `Single`). `FixnumBits` is 31 or 63: how many bits a small integer of Ruby has depends on the machine. The four
proxies for functions and the four `call_function`s are one set of actions with the language as a variable, because they only
differ in what `Taken`, `Unconvertible`, `ChecksResult`, `Out` and `In` say. `sandboxed` puts `proxy_function_call` and
`process_callbacks` in between; messages are not modelled again (`Proxy` does that), only who frees and follows
which value. An accident ends the process it happens in, and the model with it. `culprit` says in which value it was met, `odd` what was out of the ordinary in this call
(or lasts: a text behind the slots, a value nested too deep for the Lua stack, an answer without a counterpart).
Accidents include what `src/` does not catch: exceptions of Ruby that are no `StandardError` or are raised by the conversion of a result (`language_rb.c:259`, `264`), and errors
of Lua raised by an `__index` outside of `lua_pcall` (`language_lua.c:179`, `257`, `269`).

**Interpreters.** `calls` is the C stack: what the application starts (`compile`, `test` for is_function, `call`) alternates with
functions of the application (`native`). `means` is what a name stands for in the guest: a key to a function, the guest's own script,
a plain value. For Lua and Python the key is the function, which the closure carries; for Javascript the address of a function object, which
may be used again once no name refers to the object; for Ruby the name. `table` holds the dictionaries of Javascript and Ruby, as a set because
`dict_lookup` finds any of several entries for a key (`Dict` says which is not promised). `due` and `ran` of a frame are the function that was
last defined for the name, and the one that is run. `left` counts the slots of the current frame of a guest's Lua stack that are in use and not
given back, up to `Room` (`LUA_MINSTACK`): nobody asks Lua for more (`lua_checkstack`), so an operation that needs more than there are may write behind them (`Overflow`). `causes` is
auxiliary: errors so far, and results of scripts. `LookupRaises` and `Escapes` are exceptions that no protected call is around. The engines are external: the model says of them only that `JS_ShutDown`
and `ruby_finalize` end them for the process, that a C function of Lua has a stack frame of its own, that a script of Ruby shadows `Kernel`,
and that an object nobody refers to may be collected.

**Alarm.** A stack of frames. `Second` is time passing; SIGALRM has no handler in the program.

## 3. Runs

| run | module, bounds | distinct states | what it shows |
|---|---|---|---|
| `MCProxy` | two names, time limit 1, pipes of 3 messages, 3 operations | 2 611 692 | `TypeOK`, `IInv`, `InFrame`, `KnownCallback`, `StaleHasCause`, and that `Proxy` implements `Session` |
| `ProxyLive` | one name, time limit 1, pipes of 2 messages, 3 operations | 965 580 | `CallReturns` |
| `ProxyLogs` | | violation | a log line is taken for the answer of `is_function` |
| `MCDict` | three keys of which two collide, two data, at most 4 entries, initial sizes 0 and 1, `Floor` 4 | 13 929 | types, `CountRight`, `GrowsEnough`, and that `Dict` implements `Multimap` |
| `MCWire` | 552 values of depth up to 3, limits 2 (strings) and 3 (arrays), both readers | 239 320 | `RoundTrip`, `RefusedForCause`, `Limited`, `ReadEnds` |
| `MCGuests` | 4 guests, 3 pids, 22 descriptors | 461 779 | `TypeOK`, `Isolated`, `NoSurvivor`, `DestroyReturns` |
| `GuestsFork` | | violation | after a failed `fork`, destroying that guest kills the others |
| `MCAlarm` | limits of 1 or 2 seconds, depth 3, 4 calls | 1 970 | `TypeOK`, `NoLateAlarm`, `HandlerRestored` |
| `AlarmKills` | | violation | the limit ends the application |
| `MCValues` | 5 cells, two data, arrays of at most 2, `Mask` 0 | 17 961 | types, `InRoom`, `OwnedOnce`, `NoLeak`, and that `Values` implements `Trees` |
| `MCNatives` | four languages, with and without a sandbox; 8 signatures, 36 sequences of arguments, values of every type and at each edge of a conversion, five strings that are numbers, small integers of 31 bits, room for 3 slots | 112 944 | types, `Delivered`, `InBounds`, `HostUnharmed`, `HarmHasCause`, `ArrivesExactly` |
| `MCInterpreters` | two guests, two names, two functions, two addresses, 2 entries, calls 3 deep, room for 2 slots, no arguments | 1 926 160 | types, `EngineUp`, `AccidentHasCause`, `RightFunction`, `OverflowHasCause`, `ErrorsHeard` |

**Why the bounds are enough.**

* *Operations* (`MaxOps` 3): the shortest interesting histories are a definition, a request that is given up,
  and then a request or `is_function` that could meet its leftovers; or a request with a callback out of which
  the proxy is used twice. Three operations contain them, each at every interleaving, and so does what happens after payload was read as a
  header. The guest's own messages are not bounded except by the pipe.
* *Pipes*: 3 messages hold a log line, an unread answer and a callback at once, which is what mix-ups of data need; a fourth
  command blocks. `ProxyLive` has pipes of 2 with 3 operations, so that writes block early.
* *Time*: a limit of 1 distinguishes time left and none. All reads of an operation share it, so that it may run out in any of them, and those after it still get what is in the pipe.
* *Names*: two, one of which may be redefined or missing. They are symmetric.
* *Dict*: keys 0, 1, 8 under a hash that halves: two of them always collide, and the third shares their
  list in tables of size 1 and 4 and leaves it in one of size 9. With 4 entries, both growth steps
  happen (0 to 1 by put, 1 to 4 and 4 to 9 by lookup). `Floor` 4 instead of 15 keeps the second step reachable.
* *Wire*: at limit 3, arrays of 0 to 3 elements lie on both sides of it, also when the count comes from earlier
  arrays, and nesting of 3 shows that levels are counted separately.
* *Guests*: 22 descriptors let three guests be created, and the fourth fail in `pipe` between its pipes. Three guests
  are one being destroyed, a bystander, and one that got the process id of a guest destroyed before.
* *Values*: 5 cells hold an array with two elements, one of them an array, and a clone of that element; or a value, an array
  that gets it, and cells freed and used again. `Mask` 0 instead of 3 makes the vector grow at length 0 and 1, so that both
  the first growth and a later one happen (in the code: at 0, 7, 15, 31). Cells are interchangeable, and so are data.
* *Natives*: signatures of up to three parameters, since slot `i + i` is another parameter's for the second of three and behind the end for
  the third; values of depth up to 2 with an empty slot in every place, 2^24 + 1 and 2^30 as integers. Three slots of room on the Lua stack tell values of depth 1 and 2 apart on
  their way in, where each level takes two. Fixnums of 31 bits lose something; the theorem is for 63 as well. One call inside of one call is all there is, since nothing
  is kept from one to the next.
* *Interpreters*: two guests show what one does to the other, and the lemmas for any number are proved. Depth 3 is a call, a function
  of the application in it, and a call in that. Two entries make the first double. With room for two slots a single error is not enough
  to fill the stack, and it may be filled by errors on different levels of calls. Guests, names, functions and addresses are interchangeable.
* *Alarm*: depth 3 gives an inner, a middle and an outer call, and a fourth call follows one that returned.

`CHECK_DEADLOCK FALSE` is set where the system may stop for good: after `destroy`, after SIGPIPE has ended the
host, when all operations are used up, when both wait for each other in full pipes (which `CallReturns` speaks about), when a value has been
read, when all guests are gone, when the calls are used up, when no cell is free, when a NULL was followed or another accident has happened, when all guests are destroyed. `MCDict` checks for deadlock.

**Fairness.** `Proxy`: the host is a running program whose callbacks return, so `WF(HostStep)`; time passes while
it waits in `select`, so `WF(WaitTick)`. Nothing is assumed of the child or the guest, not even that the child
starts: that is the point of a time limit. `Wire`: the reader runs, and the writer goes on or dies; without the
latter a reader without limits could wait for ever. `Guests`: the host runs inside `destroy_proxy` (`Kill`, `Wait`), and a
process that was sent SIGKILL dies. Children do not otherwise have to end.

**What the properties say.**

* `SessionKept` (refinement of `Session`): although requests and answers carry no numbers, an answer is always
  that of the current request, and after a failure there is none, because `in_call` is never reset on a failing
  path: a wrong looking line that carries the whole protocol. The four exceptions are explicit.
* `InFrame`: `process_callbacks` takes payload for a header only after one of them.
* `KnownCallback`: the error path "Calling unknown callback function" (`language_proxy.c:231`) is reached in spoiled sessions only. There it is: once a payload
  was refused, its bytes are read as headers, and a guest can have put a callback with any name into them.
* `StaleHasCause`: `is_function` answers about another name only after an answer was left in the pipe.
* `CallReturns`: the time limit works, with two exceptions found by TLC when they were not stated: a write to a full
  pipe, and a guest that logs or calls back without end.
* `IsMultimap`, `CountRight`, `GrowsEnough`: reordering, growth and copying lose nothing; `assert(hashsize < newlen)`
  in `dict_expand` holds at its call from lookup.
* `RoundTrip`, `RefusedForCause`, `Limited`: the limits refuse only what exceeds them and bound what is accepted, by
  depth times limit rather than by the limit, since an array counts only when it is complete.
* `Isolated`, `NoSurvivor`, `DestroyReturns`: correct until a `fork` fails, with stops and continuations as the one
  way to leave a process behind.
* `OwnedOnce`, `NoLeak`: if callers keep to the convention, nothing is freed twice, used after it was freed, or lost. That
  destroying a value frees a whole tree and nothing of another depends on every other operation.
* `AreTrees`: pointers cannot be seen: a clone has the content of its original, and no change of one value is a change of
  another. The exception is the code's: void values have no clones.
* `InRoom`: `array_append` never writes behind its vector, in clones neither.
* `Delivered`, `InBounds`: exactly which arguments `args_data[i+i]` loses, for every signature, and when it writes behind the array.
* `HostUnharmed`: a guest in a sandbox harms the application by no value, whatever it passes or returns, with two exceptions: the application's own function returns
  an array with a NULL inside or a part of its arguments; or a call with a number, or an array, for a string parameter made `cfunction_call` write behind its slots, on the
  application's stack. The second is in the hands of the guest, and `InBounds` says for which signatures. The four child processes, by contrast, can be brought down.
* `HarmHasCause`: as long as everything in a call is ordinary, nobody comes to harm; and of each oddity it is known which of the four languages do not survive it (`Fatal`). It
  depends on which of eight functions look for NULL, where exceptions are caught, and which conversions are inside of the protected call.
* `ArrivesExactly`: a value that is handed to a guest and comes back is what it was, if and only if no part of it is `Lossy`: in Lua a string that is read as a number, an integer or
  a hole, in Python a string of several characters or a boolean, in Ruby an integer that is no Fixnum (there are none of these where pointers have 64 bits).
* `EngineUp`: the reference counters agree with the guests there are, and the one that is missing (Javascript) shows when a guest
  outlives another.
* `AccidentHasCause` of `Interpreters`: what can end the application in each language. Freed memory, for example, is only met by Ruby when a guest outlives the first one, or by
  its constants; exceptions pass the interpreters of Lua and Ruby only.
* `OverflowHasCause`: the Lua stack overflows only after as many errors (a name that is no function, an error in a call) and results of scripts as fill it, because nothing that
  succeeds leaves anything on it, in whatever depth of calls. It does overflow then: nothing resets or extends the stack.
* `RightFunction`: the error paths "couldn't retrieve constant" and "which we've never seen before" are dead code, and a call runs the function last defined for
  the name in this guest, with the exceptions in `Mistaken`.
* `ErrorsHeard`: the flag that mutes errors is set only while `is_function` looks at a name of that guest. It does not say the converse: an inner `is_function` unmutes the
  outer one (`language_js.c:254`), and errors of calls inside of `is_function` are muted.
* `NoLateAlarm`, `HandlerRestored`: each way out of `with_timeout` cleans up, except that a failed compile
  leaves the handler. `NoLateAlarm` is about the end of the outermost call: that an inner call cancels the limit of the outer is no violation of it (section 5).

**What some of them do not say.** `Limited` bounds values that were read completely, not what is allocated on the way to a refusal. `Delivered` says of texts behind the slots neither
that they arrive nor that they do not. `NoLeak` is about values on the heap of `Values`, for callers that keep to the convention; that callers do not always, see section 5.
`RightFunction` takes `ruby_finalize` to forget all names, and excuses, in Javascript and Ruby, all calls in whose table some key has two entries, not only of that key.

## 4. Theorems

For all values of the constants: any names, time limit, pipe size, number of operations; any number of guests,
pids and descriptors.

`ProxyProofs`, from `ProxyAssumption`:

* `TypeCorrect`: `Spec => []TypeOK`. Among the rest, no budget goes below zero.
* `Invariant`: `Spec => []IInv`.
* `StaysInFrame`, `CallbacksKnown`, `AnswersAreOwn`: `InFrame`, `KnownCallback` and `StaleHasCause`, from `IInv`.
* `KeepsSession`: `Spec => SessionKept`, the refinement.

*The argument.* None of the properties is inductive: that an answer is the right one depends on everything else
in the two pipes. `IInv` says what is in them. While the session is neither closed (`in_call` left set with no
request in progress) nor spoiled, host and child are in exactly one of these phases (`InStep`): no call; the command
still queued behind definitions; running; calling back, with the callback last in the pipe; called, with both pipes empty;
replied, with only the reply in the pipe; finished, with the answer last in the pipe. In front of them there can only
be log lines and answers to `is_function`, which `process_callbacks` skips. Besides, `OpPlace` and `HeaderRead` tie
the host's place to what it has read, `Numbered` orders requests, and `Registry` says that
whatever may call back has been recorded: the child's functions, the definitions under way and the callbacks
under way. `LoneAnswers` follows the question of `is_function`, for which there is no session: as long as no host has stopped waiting for a
lone byte or left one, the question is in at most one place (a command, the command being executed, or a byte on its way back), and in none
unless the host waits for it. The proof has one lemma per part; that of the phases (`SynchronisedStep`) is split by who moves.
`Permanent` shows that closed and spoiled sessions stay so, which is why phases can be dropped there.

`GuestsProofs`, from `GuestsAssumption`:

* `TypeCorrect`: types; in particular the host never opens more descriptors than it may.
* `Invariant`: `Orderly` holds until a fork has failed: each live guest has a child that is in the
  process table and its own, each process in the table belongs to a live guest or to one whose poll was misled, and only the
  child being waited for has been killed.
* `GuestsIsolated`, `NothingSurvives`: `Isolated` and `NoSurvivor`, from it.

`ValuesProofs`, from `ValuesAssumption` (a NULL is not a value, and memory is finite), for any heap, nesting and length:

* `Invariance`: `IInv`, which is types, `OwnedOnce`, `NoLeak`, and that only arrays have elements.
* `NothingFreedInUse`, `NothingLost`: `OwnedOnce` and `NoLeak`, from it.
* `TypeCorrect`, `NothingBehind`: `TypeOK` and `InRoom`.
* `ValuesAreTrees`: `Spec => AreTrees`, the refinement of `Trees`.

*The argument.* The two properties need each other and the types, and together they are inductive: values are a forest, in which each
has one pointer to it or one owner. What is below a value is the least closed set, and every fact about it follows from that
without induction: the trees of two roots are disjoint (`Apart`), so `value_destroy` leaves all other trees alone; nothing
is below itself (`Acyclic`), so the root of a clone is no element; what is reached stays reached when
elements are only added (`Growing`), so nothing is lost by an append. `Copying` says what a clone leaves where.

For `InRoom`: `RoomFor`, the room of a vector that was filled by appending, is a
recursive function on numbers, whose equations are derived from the definition (`Recursion`), and `RoomEnough` says that it is enough.

For the refinement: a *map* of a value (`MapOf`) says which cell is at the end of each path from it. There is only one (`SameMap`), and what it means is the tree of the
value (`TreeNow`, `TreeThen`); that `Ways` makes such a map (`Charted`) is the one place where the number of cells matters, since a path from an owned value
never meets a cell twice and is therefore no longer than that (`ShortTrail`). So for each operation it is enough to write down a map of each value after it, made of
the maps before: the same one if nothing below changed (`MapStays`), two joined at the new index for an append (`Joining`), the part below a path with every cell
replaced by its copy for a clone (`Subtrees`, `CloneTree`). Whoever meets a NULL element has a NULL in the tree (`CrashTree`, and `DestroyTree` and `CloneTree`
for the converse), so `value_destroy` and `value_clone` crash
only where the tree they go through has a NULL, and never get past one.

`DictProofs`, from `DictAssumption`, for any keys, data, hash, initial sizes and `Floor`:

* `TypeCorrect`, `CountKept` (`CountRight`), `Grows` (`GrowsEnough`).
* `KeepsPairs`: `Spec => IsMultimap`, the refinement of `Multimap`.

*The argument.* What a table holds of a pair is the number of places where it is, so nothing has to be said about order: an operation is a bijection
between places that keeps the entries (`Matching`), with one place more (`Inserting`) or less (`TakingOut`). `Ranking` shows that the places given by `Expand` are
such a bijection, `Expanding` that each entry comes to the list of its hash; `Presence`, that a lookup which walks only that list misses nothing. The
search for a greater size (`NewSizes`) ends because sizes grow (`GoingUp`).

`WireProofs`, from `WireAssumption` (values are finite trees, the limits are positive), for values of any size and depth, any limits, and all ways in which the
two sides take turns or the writer dies:

* `Roundtrip`, `RefusalHasCause`, `LimitsHold`: `RoundTrip`, `RefusedForCause`, `Limited`.

*The argument.* Both sides go through the tree in the same order with loops of their own: the writer's place is a path, the reader's a stack. `Route` turns the
stack into a path, and `Around` says that the stack is what the path and the tree make it. What is in the pipe are the tokens from the reader's place to
the writer's (`Line`); what is built is the tree before the reader's place (`Built`); what is counted are the elements of complete arrays. `Order` and `AfterElement` are the facts
about the order, `LevelSum` adds up what the limit allows on each level.

`NativesProofs`, from `CFunctionAssumption`, `ConversionsAssumption` (small integers have 31 or 63 bits, numerals are strings that stand for numbers) and `NativesAssumption`. The last says that values are trees of what the application or a guest can make, and that the
application passes no NULL at first (what it got from a guest it may pass on). Its functions may return NULL for an array (`function.c:439-441`).

* About one call, for any signature and arguments: `CInvariant` (what has been converted is where `Converted` says and is not touched again; slot 0 has the text of the
  first parameter, because every other text goes to a slot whose pointer or value is written later or is there already), and from it `TextsGetLost` and `WritesBehind`.
* About guests of all four languages, for values of any depth: `NativesTypes`, `HostStaysUnharmed`, `HarmHasCauses`, `ValuesArrive`, and
  `GuestsDeliver` and `GuestsWriteBehind`, which carry the two theorems about one call over to calls made by guests.

*The argument.* `IInv` adds to the properties what each party holds: a guest is never given a NULL, the application has one inside of a value only from a guest in its own
process that is not in Ruby (`Holding`), and while a function runs the kinds it was entered with are those of its arguments, with a NULL in one only if that was noted (`Running`). `LabelRoundTrip` goes through
the labels and languages; that rounding twice is rounding once (`SingleIs`) is in it. `ValueRoundTrip` lifts it to trees: with `OnTheWay`, a nil anywhere before an element cuts it off.
The invariants of `Wire` and `Natives` were checked by TLC on the instances of `MCWire` and `MCNatives` before they were proved.

`InterpretersProofs`, from `InterpretersAssumption` (the guests are finitely many, and the words for what is no function are no keys; `Room` and `MaxArguments` are any numbers), for any number of guests, names, functions and
addresses and any depth:

* `LivesInvariant`: `Lifecycle`: the counter is the number of guests that are ready, the engine is up when it is positive, and `global` is a guest
  that is ready or was destroyed. From it `TypeCorrect` (the counter is a natural number only because of it) and `EngineIsUp`.
* `FramedInvariant`: `Nested`: the stack alternates between guest and application, a function of the application has the guest of the
  frame below it, and every guest in it is ready. From it `ErrorsAreHeard`.
* `NamesInvariant`: `Named`, one part for each way of finding functions, and `Rightly`. That a call which is once mistaken stays so (`MistakenStays`) is
  what makes it inductive: when the other guest of Ruby that had been given the function is given another, the table has two entries.
* `OverflowsHaveCauses`: with `Explained`, which says that in the current frame and in every frame below it no more slots are left than there were causes in that guest.
* `RightFunctionRuns` and `AccidentsHaveCauses`: from all of these.

`AlarmProofs`, from `AlarmAssumption`, for any limit and depth: `AlarmInvariant` adds to the two properties which handler each active call has saved (the
first the application's, all others `sigalarm`); `TypeCorrect`, `AlarmsAreOff`, `HandlersComeBack` follow.

**Induction.** What is true of all numbers is proved from the least counterexample (`NatMin`, from the well-foundedness of `<`), applied to a set that is
written out. That is how the proofs speak of trees of any depth, loops of any length and recursive functions on numbers.

**Only model-checked.** Liveness (`CallReturns`, `ReadEnds`, `DestroyReturns`), which is out of the prover's reach.

## 5. Disagreements with the repository

Each is a run that TLC answers with a counterexample.

* `ProxyLogs`: `is_function_proxy` takes the next byte for its answer; a log line (`RESP_LOG`) makes it true.
* `GuestsFork`: the -1 of a failed `fork` is kept as `child_pid` and given to `waitpid` and `kill`.
* `AlarmKills`: the alarm raises SIGALRM, the handler is installed for SIGPROF.

Seen while modelling, part of the models, and without a run:

* The command is written before `in_call` is looked at (`language_proxy.c:266`, `326`), so what the host refuses is executed
  by the child later (`RequestRefused` leaves it in `toChild`).
* Time in callbacks and writes is not counted against `config_maxtime` (`WaitTick` is the only action that takes from a budget).
* After one failed request the proxy refuses all others, with a message about callbacks (`language_proxy.c:335`).
  The models show why it has to: resetting `in_call` is the mutation that breaks `SessionKept`.
* A second `define_function` of a name is reported as an error, but replaces the function in the guest, while
  the host goes on using the first (`language_proxy.c:196-203`).
* Writes have no time limit; a guest that writes without end is never timed out (`language_proxy.c:44`, `248`).
* Descriptors are not closed by `destroy_proxy`: six per guest (`language_proxy.c:576`).
* A stop or continuation report makes `destroy_proxy` skip the kill (`language_proxy.c:558`).
* An inner call of `with_timeout` replaces and then cancels the alarm of the outer one (`language.c:44`); a failed compile
  leaves the handler (`language.c:58`).
* `cfunction_call` puts the text of an argument into `args_data[i+i]`: only a first parameter gets it (`function.c:327`, `344`, `389`). A wrong number of
  arguments loses the signature and the types (`function.c:288`).
* The proxies of Lua, Python and Ruby do not look whether a function returned a value (`language_lua.c:229`, `language_py.c:139`, `language_rb.c:172`); in the
  sandbox the application gives up and the child goes on waiting for an answer (`language_proxy.c:237`).
* Python, Javascript and Lua put a NULL in the place of an element they cannot convert (`language_py.c:55`, `language_js.c:114`,
  `language_lua.c:184`); the next who looks at it crashes.
* `ruby_to_value` raises outside of `rb_rescue` (`language_rb.c:264`), also through `NUM2INT` (`language_rb.c:55`); `rb_rescue` lets `exit` and other exceptions pass that are no
  `StandardError` (`language_rb.c:259`), unlike `compile_script_rb`. Lua looks names up and converts results outside of `lua_pcall` (`language_lua.c:257`, `269`, `288`), where an `__index` may raise.
* A payload that was refused is read as headers by the next call (`language_proxy.c:289`, `208`), so that a guest decides which callbacks are run, and gets
  to `language_proxy.c:231`.
* Memory is lost also by calls that succeed: the vector of arguments and the copies of strings in Javascript (`language_js.c:270`, `93`), what a Python function returns
  (`language_py.c:259`), log messages (`language_proxy.c:249`); and on failing paths, arrays that could not be read (`language_js.c:105-113`) and arguments that a jump leaves behind
  (`language_lua.c:222`). Only the ownership of values on the heap of `Values` is followed in the models, so there is no property about these.
* Python's wide strings come back as their first character, its booleans as integers (`language_py.c:31`, `36`); Lua's strings that read as numbers ("12", "0x1f", " 1e3") come back as numbers, and its
  arrays end at the first hole (`language_lua.c:167`, `180`); Ruby gets integers without their upper bit where a Fixnum has 31 (`language_rb.c:93`).
* A function called from a coroutine of Lua is refused its arguments (`language_lua.c:158`).
* `destroy_rb` frees `global` with the first guest (`language_rb.c:275`); `destroy_js` shuts down the engine of all guests and does not look what `initialize_js`
  got to (`language_js.c:297-299`); Ruby keeps constants that are freed (`language.c:143`); Python's traceback may be NULL, and so may the text of an exception (`language_py.c:185`, `163`).
* In Ruby a function belongs to all guests (`language_rb.c:160`), in Javascript an address may belong to two functions (`language_js.c:215`).
* `call_function_lua` leaves what is no function, and the message of an error, on the stack for good (`language_lua.c:271-285`), and pushes arguments without
  `lua_checkstack`; so do the conversions of nested arrays (`language_lua.c:142`).
* The limit for nested arrays is per level (`language_proxy.c:139-150`).
* `value_clone` has no case for void and function values and returns NULL, which `value_clone` and callers append unchecked
  (`function.c:119`, `spec/run.c:56`).
* A key put twice is found in its older definition after the table has grown (`dict.c:232`); `dict_clear` forgets the
  key type (`dict.c:469`).

## 6. Not modelled, and why

* The system call filter (`seccomp.c`): a table for the kernel, no state of its own.
* Settings, logging, files, the test driver: no state, or clients of what is modelled.
* The engines themselves. `Proxy` allows everything an engine can do on the pipes, so nothing it shows depends on them; `Natives` and
  `Interpreters` say of them what the calls in `src/` rely on. Their own reference counts and collectors are left out, except that an
  object of Javascript may be collected; so is memory that is no value of `function.c` (section 5 lists what of it is lost).
* Strings and arrays that Ruby keeps inside of their object, which the code reads as if they were on the heap (`as.heap`), and
  Python objects that guests share through modules.
* Functions as arguments of functions; `value_to_int`, which nothing uses; two early returns of `cfunction_call` that no caller can reach.
* A guest that gives a function of the application another name.
* The `longjmp` of `language.c`: the signal it is for is never raised.
* `INT_MAX` in `_read_value`, and text of all kinds.

## 7. Plan

Done: all modules of section 2, and proofs of all safety properties. What is left, in order of importance:

1. Ownership of names and buffers (not of values) in `read_string` and `child_loop`.
2. Two guests that call each other's functions, one behind a proxy and one not: a composition of `Proxy` and `Interpreters`.
