------------------------------ MODULE MCCases -------------------------------
(* The compiler's algorithms and the library's in one run: a behaviour picks *)
(* one input of one of them.                                                 *)
EXTENDS CompilerCases

CONSTANTS MaxDepth, MaxLong, SizeBits, ParamCount, ElementCount, TraceLength

L == INSTANCE LibraryCases
F == INSTANCE LoweringCases
M == INSTANCE LoaderCases
I == INSTANCE GenericCases
K == INSTANCE ClosureCases
T == INSTANCE DispatchCases

MCWidth == [i1 |-> 1, i8 |-> 2, i16 |-> 3, i32 |-> 4, i64 |-> 8]
MCMantissa == [half |-> 2, bfloat |-> 2, float |-> 3, double |-> 6]
MCNaN == -5000

CasesSpec == Init /\ [][Next \/ L!Pick \/ F!PickProgram \/ M!PickWorld \/ T!PickProgram \/ I!PickProgram
                              \/ K!PickProgram]_case

\* A scan finds what the document says of the path, escapes and white space
\* aside, the first of equal keys and the last entry of a table, or says that
\* it is missing or of another type; and of a text that has been cut off
\* anywhere it never tells anything else.
ScanAgrees == [][\A c \in {case'} : L!ScanOn(c)]_case

\* No copy or conversion between two buffers touches a byte outside them or one
\* of a read-only buffer, and none that would fit is refused, as long as 64 bits
\* hold the sums; a 16-bit float survives a round trip and a 32-bit one becomes
\* the nearest, ties to even; text of any bytes becomes text, with every ASCII
\* byte kept, and a substring has the characters left after its index.
LibraryExact == [][\A c \in {case'} : L!LibraryExactOn(c)]_case

\* The blocks a function is compiled to do what its statements mean, whatever
\* the calls in it answer: the same calls in the same order, a `continue` that
\* moves the loop on, drops at the ends of blocks and before returns, and tail
\* calls with the arguments as they were; and LLVM can take them: every block
\* ends once and every phi knows where control comes from.  Lambdas see and set
\* the variables of the functions around them, also after these have returned,
\* through boxes that are released once, when nobody can reach them any more.
CompiledRunsAlike == [][\A c \in {case'} : F!RunsAlikeOn(c) /\ K!RunsAlikeOn(c)]_case

\* Whatever the modules import, also each other, a program is loaded once each,
\* what a module imports before it; an import that cannot be resolved, is not
\* exported or takes a bound name is an error, and nothing else is; and a name
\* means the function the module declares or, if none, what it imports or, if
\* nothing, what the standard library offers.  x.f and x.m() reach what x's
\* struct has or the only one it embeds at the time; an impl of a trait is taken
\* if every method is there and fits, and a call through a bound or a trait
\* object then runs the impl's method or the struct's, the same one unless the
\* program defines a method later; the object's drop releases each value inside
\* it once.
NamesResolve == [][\A c \in {case'} : M!LoadsOn(c) /\ T!DispatchedOn(c)]_case

\* A call of a generic function, with its type arguments or without, in a body
\* of another one too, goes to the instance for just the types it stands for in
\* the module that says them; equal lists share one instance, bounds are met,
\* and instances that need ever more instances are an error.
InstancesRight == [][\A c \in {case'} : I!InstancesOn(c)]_case
=============================================================================
