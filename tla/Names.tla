-------------------------------- MODULE Names --------------------------------
(***************************************************************************)
(* Names, defined functions and the stack of contexts ()SI): the value     *)
(* stack of each symbol (Symbol, ValueStackItem), the function objects and *)
(* what refers to them (UserFunction, Executable), the contexts            *)
(* (StateIndicator, Prefix), and how the command loop enters and leaves    *)
(* them (Command::finish_context).                                         *)
(*                                                                         *)
(* A function is replaced, expunged, erased and localised while it, or a   *)
(* caller of it, is executing or suspended.  The code says which functions *)
(* are in use by searching the contexts, not by counting references, and   *)
(* only lambdas are counted.                                               *)
(***************************************************************************)
EXTENDS Naturals, Sequences, FiniteSets

CONSTANTS
  Symbols,   \* the names of variables and functions
  Functions, \* what []FX and the editor are given
  Lambdas,   \* the lambdas { ... } in functions and statements
  Objects,   \* addresses of function objects
  None,      \* no object, no lambda
  Care,      \* what programs and users take care not to do, see NamesAssumption
  MaxDepth,  \* bound: contexts on the stack
  MaxOwners  \* bound: references to a lambda

\* A function or lambda: its name, the names it localises and their first
\* bindings (arguments have a value, labels are labels, the result and other
\* locals are unused), the names in its body, the lambda in its body, and
\* whether it may be suspended (execution properties of []FX).
TextType ==
  [name : Symbols \cup {None}, locals : UNION { [ns -> {"unused", "value", "label"}] : ns \in SUBSET Symbols },
   uses : SUBSET Symbols, lambda : Lambdas \cup {None}, suspends : BOOLEAN]

\* A function object: its text, the lambda in its body, the references counted
Object ==
  [text : Functions \cup Lambdas, part : Objects \cup {None}, owners : Nat]

ASSUME NamesAssumption ==
  /\ None \notin Objects \cup Lambdas \cup Symbols /\ None \notin Object
  /\ "unused" \notin Objects /\ "value" \notin Objects /\ "label" \notin Objects
  /\ \A t \in Functions : t \in TextType /\ t.name \in Symbols
  /\ \A t \in Lambdas : t \in TextType /\ t.name = None /\ t.lambda = None
  /\ IsFiniteSet(Symbols) /\ IsFiniteSet(Objects)
  /\ MaxDepth \in Nat /\ MaxOwners \in Nat
  \* "waiting": to expunge a function that was read and is not called yet;
  \* "executing": to expunge a lambda that is executing;
  \* "shared": to redefine a name that shares its lambda with a body.
  \* Without one of them, one of the properties below does not hold.
  /\ Care \subseteq {"waiting", "executing", "shared"}

VARIABLES
  vs,       \* the value stack of each symbol
  fn,       \* the function at each address: its text, the lambda in its body,
            \* the references counted (lambdas only); or None
  si,       \* the contexts, the innermost one last
  expunged, \* functions to be deleted later (Workspace::expunged_functions)
  running,  \* the interpreter executes (and does not wait for a line)
  stranded  \* history: how many of the contexts an interrupt, or a branch
            \* without a function, has left on the stack while in []EC

vars == <<vs, fn, si, expunged, running, stranded>>

Binding == Objects \cup {"unused", "value", "label"}

\* A context: what it executes, the lambda in the body of a statement, the
\* function on its parser stack that was read and is not called yet, and
\* its safe_execution_count.
Context ==
  [kind : {"statements", "execute", "function"}, fun : Objects \cup {None},
   part : Objects \cup {None}, held : Objects \cup {None}, safe : Nat]

TypeOK ==
  /\ vs \in [Symbols -> Seq(Binding) \ {<<>>}]
  /\ fn \in [Objects -> Object \cup {None}]
  /\ si \in Seq(Context)
  /\ expunged \subseteq Objects
  /\ running \in BOOLEAN
  /\ stranded \in Nat

Top == si[Len(si)]
Last(s) == s[Len(s)]
Bound(n) == Last(vs[n])
Alive(o) == fn[o] # None
IsLambda(o) == fn[o].text \in Lambdas
IsFunction(n) == Bound(n) \in Objects

\* The names that a context localises
Localised(c) == IF c.kind = "function" /\ Alive(c.fun) THEN DOMAIN fn[c.fun].text.locals ELSE {}

\* How often the contexts in a set of positions localise n
Depth(n, positions) == Cardinality({ i \in positions : n \in Localised(si[i]) })
-----------------------------------------------------------------------------
(* Function objects                                                        *)

\* What refers to function objects: value stacks, contexts, the list of
\* expunged functions, and bodies.
Bodies(f) == { f[o].part : o \in { p \in Objects : f[p] # None } }
InContexts(s) == UNION { {s[i].fun, s[i].part, s[i].held} : i \in DOMAIN s }
OnStacks(v) == UNION { { v[n][i] : i \in DOMAIN v[n] } : n \in Symbols }
Referred(v, f, s, e) == OnStacks(v) \cup Bodies(f) \cup InContexts(s) \cup e

Free == { o \in Objects : ~Alive(o) } \ Referred(vs, fn, si, expunged)

\* An object that nothing refers to is forgotten, also when the code leaks it.
Kept(f, v, s, e) ==
  LET kept == Referred(v, f, s, e)
  IN  [o \in Objects |-> IF o \in kept THEN f[o] ELSE None]

\* Each lambda of ls has lost one of its owners (Executable::decrement_refcount).
Released(f, ls) ==
  [o \in Objects |->
     IF o \in ls /\ f[o] # None
     THEN IF f[o].owners <= 1 THEN None ELSE [f[o] EXCEPT !.owners = @ - 1]
     ELSE f[o]]

\* MUTANT: an assigned lambda is not counted
NotGained(f, l) == f

\* l has got one more owner (Executable::increment_refcount).
Gained(f, l) == [f EXCEPT ![l].owners = @ + 1]

\* o is deleted, and its body with it (~Executable, clear_body).
Deleted(f, o) ==
  IF f[o] = None THEN f ELSE Released([f EXCEPT ![o] = None], {f[o].part})

\* The lambda t is made at l, owned by the body that holds it.
WithLambda(f, l, t) ==
  IF l = None THEN f ELSE [f EXCEPT ![l] = [text |-> t, part |-> None, owners |-> 1]]

\* The function t is made at o, and the lambda in its body at l.
WithFunction(f, o, t, l) ==
  [WithLambda(f, l, t.lambda) EXCEPT ![o] = [text |-> t, part |-> l, owners |-> 0]]

\* An address for a lambda, if there is one
Place(t) == IF t = None THEN {None} ELSE Free
-----------------------------------------------------------------------------
(* What is in use                                                          *)

\* MUTANT: only the innermost context is looked at
ExecutingOnTop(o) == si # <<>> /\ Top.fun = o

\* Workspace::oldest_exec
Executing(o) == \E i \in DOMAIN si : si[i].fun = o

\* uses_function() looks for o in a context and its callers, but from the
\* second one on for the executable of the context it has just left: a
\* function that has called itself counts as any function.
Recursion == \E i \in 2 .. Len(si) : si[i].fun # None /\ si[i-1].fun = si[i].fun

\* The body of a function that is executing has the name of o.
Mentioned(o) ==
  \E i \in DOMAIN si :
    si[i].fun # None /\ Alive(si[i].fun) /\ fn[o].text.name \in fn[si[i].fun].text.uses

\* MUTANT: the parser stacks are not looked at
CertainlyExecuting(o) ==
  \/ Executing(o)
  \/ Mentioned(o)
  \/ Recursion

CertainlyCalled(o) ==
  \/ Executing(o)
  \/ \E i \in DOMAIN si : si[i].held = o
  \/ Mentioned(o)
  \/ Recursion

\* The answers that Workspace::is_called may give: what the statements on the
\* stack mention is left open.
Called(o) ==
  IF CertainlyCalled(o) THEN {TRUE}
  ELSE {FALSE} \cup {~IsLambda(o) : i \in { j \in DOMAIN si : si[j].kind # "function" }}
-----------------------------------------------------------------------------
(* Contexts                                                                *)

\* The context i has started a safe execution (is_safe_execution_start).
SafeStart(i) == si[i].safe > (IF i = 1 THEN 0 ELSE si[i-1].safe)
Safe == IF si = <<>> THEN 0 ELSE Top.safe

Suspends(c) == c.kind = "function" /\ Alive(c.fun) => fn[c.fun].text.suspends

\* The lambda in the body that a context executes
Body(c) == IF c.fun = None THEN c.part ELSE fn[c.fun].part

\* The functions that the top context can read next
Readable == { Bound(n) : n \in { m \in Symbols : IsFunction(m) } } \cup ({Body(Top)} \ {None})

\* What the top context may have on its parser stack when it calls something:
\* the function it has read there already, or the one to the left of the call.
MayHold == IF Top.held # None THEN {Top.held} ELSE {None} \cup Readable

Holding(h) == [si EXCEPT ![Len(si)].held = h]

\* The value stacks when a function is called (eval_B() and its relatives)
Localising(locals) ==
  [n \in Symbols |-> IF n \in DOMAIN locals THEN Append(vs[n], locals[n]) ELSE vs[n]]

NewContext(kind, o, l, safe) ==
  [kind |-> kind, fun |-> o, part |-> l, held |-> None, safe |-> safe]

\* The last one of the contexts S
Latest(S) == { i \in S : \A j \in S : j <= i }
OfKind(kind) == { i \in DOMAIN si : si[i].kind = kind }

\* MUTANT: the names of the context that remains are popped too
UnwoundTooFar(m) ==
  [n \in Symbols |-> SubSeq(vs[n], 1, Len(vs[n]) - Depth(n, (IF m = 0 THEN 1 ELSE m) .. Len(si)))]

\* The value stacks when the contexts above m are gone (pop_local_vars)
Unwound(m) ==
  [n \in Symbols |-> SubSeq(vs[n], 1, Len(vs[n]) - Depth(n, m+1 .. Len(si)))]

\* The contexts above m are popped and s is left of the others; this pops the
\* names that they localise and deletes the statements (~StateIndicator).
PopTo(m, s) ==
  /\ vs' = Unwound(m)
  /\ si' = s
  /\ fn' = Kept(Released(fn, { si[i].part : i \in m+1 .. Len(si) }), vs', s, expunged)
  /\ UNCHANGED expunged

Below(m) == SubSeq(si, 1, m)

\* The same, and those of the stranded contexts remain that are not popped.
Leave(m, s) ==
  /\ PopTo(m, s)
  /\ stranded' = IF stranded < m THEN stranded ELSE m

\* The contexts that are stranded when m contexts remain, unless none of them
\* is in []EC
Stranded(m) == IF m > 0 /\ si[m].safe > 0 THEN m ELSE 0

\* The contexts above m are popped and the one at m gets a result; a finished
\* statement list has no caller, and the next line is read.
Answer(m) ==
  /\ Leave(m, Below(m))
  /\ running' = (si[m+1].kind # "statements")
-----------------------------------------------------------------------------
(* Statements, and the ways out of them                                    *)

Init ==
  /\ vs = [n \in Symbols |-> <<"unused">>]
  /\ fn = [o \in Objects |-> None]
  /\ si = <<>>
  /\ expunged = {}
  /\ running = FALSE
  /\ stranded = 0

\* The user types a statement.
Type ==
  /\ ~running /\ Len(si) < MaxDepth
  /\ \E t \in Lambdas \cup {None} : \E l \in Place(t) :
       /\ si' = Append(si, NewContext("statements", None, l, Safe))
       /\ fn' = WithLambda(fn, l, t)
  /\ running' = TRUE
  /\ UNCHANGED <<vs, expunged, stranded>>

\* The execute function or []EC
Execute ==
  /\ running /\ Len(si) < MaxDepth
  /\ \E t \in Lambdas \cup {None}, h \in MayHold, s \in {Top.safe, Top.safe + 1} :
     \E l \in Place(t) :
       /\ si' = Append(Holding(h), NewContext("execute", None, l, s))
       /\ fn' = WithLambda(fn, l, t)
  /\ UNCHANGED <<vs, expunged, running, stranded>>

\* o is called while h is on the parser stack.
Enter(o, h) ==
  /\ running /\ Len(si) < MaxDepth /\ Alive(o)
  /\ si' = Append(Holding(h), NewContext("function", o, None, Top.safe))
  /\ vs' = Localising(fn[o].text.locals)
  /\ UNCHANGED <<fn, expunged, running, stranded>>

Call == running /\ \E o \in Readable, h \in MayHold : Enter(o, h)

\* The function on the parser stack is called.
CallHeld ==
  /\ running /\ Top.held # None
  /\ \E h \in {None} \cup Readable : Enter(Top.held, h)

\* The context is done.
Return ==
  /\ running /\ Top.held = None
  /\ Answer(Len(si) - 1)

\* The user has interrupted: ATTENTION is thrown when a result is passed on,
\* before the finished statements are popped or after another context was.
\* The contexts remain, those of []EC too.
Attention ==
  /\ running /\ Top.held = None
  /\ LET m == IF Top.kind = "statements" THEN Len(si) ELSE Len(si) - 1
     IN  PopTo(m, Below(m)) /\ stranded' = Stranded(m)
  /\ running' = FALSE

\* An error. In safe execution the contexts up to the one that has started it
\* are popped, and []EC returns. Otherwise those that may not be suspended are.
Error ==
  /\ running
  /\ IF Safe > 0
     THEN \E i \in DOMAIN si : SafeStart(i) /\ si[i].safe = Safe /\ Answer(i - 1)
     ELSE /\ \E m \in Latest({ i \in DOMAIN si : Suspends(si[i]) }) : Leave(m, Below(m))
          /\ running' = FALSE

\* A branch to a line: in the function, back into the last function from
\* statements, or out of []EC. Without a function, it fails where it is.
Branch ==
  /\ running
  /\ IF Top.kind = "function"
     THEN Leave(Len(si), Holding(None)) /\ UNCHANGED running
     ELSE IF SafeStart(Len(si)) THEN Answer(Len(si) - 1)
     ELSE IF OfKind("function") # {}
     THEN /\ \E m \in Latest(OfKind("function")) : Leave(m, [Below(m) EXCEPT ![m].held = None])
          /\ UNCHANGED running
     ELSE /\ running' = FALSE
          /\ stranded' = Stranded(Len(si))
          /\ UNCHANGED <<vs, si, fn, expunged>>

\* The branch to nowhere, typed by the user, retries what is suspended.
Retry ==
  /\ running /\ Top.kind = "statements" /\ Len(si) > 1
  /\ Leave(Len(si) - 1, Below(Len(si) - 1))
  /\ UNCHANGED running

\* MUTANT: only the innermost context is left
EscapeTop ==
  /\ si # <<>>
  /\ IF running /\ SafeStart(Len(si)) THEN Answer(Len(si) - 1)
     ELSE Leave(Len(si) - 1, Below(Len(si) - 1)) /\ running' = FALSE

\* The escape, typed by the user or executed.
Escape ==
  /\ si # <<>>
  /\ IF running /\ SafeStart(Len(si)) THEN Answer(Len(si) - 1)
     ELSE \E m \in Latest(OfKind("statements")) : Leave(m-1, Below(m-1)) /\ running' = FALSE

\* )SIC and )RESET, and through the execute function
ClearSI ==
  /\ si # <<>> /\ (running => ~SafeStart(Len(si)))
  /\ Leave(0, <<>>)
  /\ running' = FALSE

\* )CLEAR, and through the execute function
ClearWS ==
  /\ running => ~SafeStart(Len(si))
  /\ vs' = [n \in Symbols |-> <<"unused">>]
  /\ si' = <<>>
  /\ fn' = Kept(Released(fn, { si[i].part : i \in DOMAIN si }), vs', si', expunged)
  /\ running' = FALSE
  /\ stranded' = 0
  /\ UNCHANGED expunged
-----------------------------------------------------------------------------
(* What becomes of a name                                                  *)

\* MUTANT: the outermost binding is changed
RebindFirst(n, b, f, e) ==
  /\ vs' = [vs EXCEPT ![n][1] = b]
  /\ fn' = Kept(f, vs', si, e)
  /\ expunged' = e
  /\ UNCHANGED <<si, running, stranded>>

\* n is bound to b; f and e are what becomes of functions and expunged ones.
Rebind(n, b, f, e) ==
  /\ vs' = [vs EXCEPT ![n][Len(vs[n])] = b]
  /\ fn' = Kept(f, vs', si, e)
  /\ expunged' = e
  /\ UNCHANGED <<si, running, stranded>>

\* Symbol::assign
Assign(n) ==
  /\ running /\ Bound(n) \in {"unused", "value"}
  /\ Rebind(n, "value", fn, expunged)

\* n gets the lambda in the body of the top context. (An assignment to a name
\* that is a function already fails before assign_named_lambda is called.)
AssignLambda(n) ==
  /\ running /\ Bound(n) = "unused"
  /\ LET l == Body(Top)
     IN  /\ l # None /\ fn[l].owners < MaxOwners
         /\ Rebind(n, l, Gained(fn, l), expunged)

\* []EX
Expunge(n) ==
  /\ running
  /\ IF ~IsFunction(n) THEN Rebind(n, "unused", fn, expunged)
     ELSE LET o == Bound(n)
          IN  /\ "waiting" \in Care => \A i \in DOMAIN si : si[i].held # o
              /\ IF IsLambda(o)
                 THEN /\ "executing" \in Care => ~Executing(o)
                      /\ Rebind(n, "unused", Released(fn, {o}), expunged)
                 ELSE IF Executing(o)
                 THEN Rebind(n, "unused", fn, expunged \cup {o})
                 ELSE Rebind(n, "unused", Deleted(fn, o), expunged)

\* )ERASE, and through the execute function
Erase(n) ==
  /\ Len(vs[n]) = 1 /\ Bound(n) # "unused"
  /\ IF ~IsFunction(n) THEN Rebind(n, "unused", fn, expunged)
     ELSE LET o == Bound(n)
          IN  /\ FALSE \in Called(o)
              /\ Rebind(n, "unused", IF IsLambda(o) THEN Released(fn, {o}) ELSE Deleted(fn, o), expunged)

\* []FX and the editor (UserFunction::fix)
Fix(t) ==
  LET n == t.name
      old == IF IsFunction(n) THEN Bound(n) ELSE None
  IN  /\ Bound(n) \notin {"value", "label"}
      /\ old # None => /\ FALSE \in Called(old)
                       /\ "shared" \in Care /\ IsLambda(old) => fn[old].owners = 1
      /\ \E o \in Free, l \in Place(t.lambda) :
           /\ o # l
           /\ Rebind(n, o, WithFunction(IF old = None THEN fn ELSE Deleted(fn, old), o, t, l), expunged)

\* )CHECK deletes what was expunged.
Check ==
  /\ si = <<>> /\ expunged # {}
  /\ expunged' = {}
  /\ fn' = Kept(Released([o \in Objects |-> IF o \in expunged THEN None ELSE fn[o]],
                         Bodies([o \in Objects |-> IF o \in expunged THEN fn[o] ELSE None])), vs, si, {})
  /\ UNCHANGED <<vs, si, running, stranded>>

Next ==
  \/ Type
  \/ Execute
  \/ Call
  \/ CallHeld
  \/ Return
  \/ Attention
  \/ Error
  \/ Branch
  \/ Retry
  \/ Escape
  \/ ClearSI
  \/ ClearWS
  \/ \E n \in Symbols : Assign(n)
  \/ \E n \in Symbols : AssignLambda(n)
  \/ \E n \in Symbols : Expunge(n)
  \/ \E n \in Symbols : Erase(n)
  \/ \E t \in Functions : Fix(t)
  \/ Check

Spec == Init /\ [][Next]_vars
-----------------------------------------------------------------------------
\* Every name has one binding for the workspace and one for each context that
\* localises it, however its functions were replaced, expunged or erased while
\* they were executing (pop_local_vars, Symbol::expunge, is_called).
ScopesFollowSI ==
  \A n \in Symbols : Len(vs[n]) = 1 + Depth(n, DOMAIN si)

\* What a value stack, a context, a body or the list of expunged functions
\* refers to has not been deleted (Symbol::expunge, UserFunction::fix,
\* erase_one_symbol, cleanup_expunged, decrement_refcount).
FunctionsInUseExist == \A o \in Referred(vs, fn, si, expunged) \ {None} : o \in Objects => Alive(o)

\* The names, bodies and statements that refer to the object l
Named(v, l) ==
  { p \in Symbols \X (1 .. MaxDepth + 1) : p[2] \in DOMAIN v[p[1]] /\ v[p[1]][p[2]] = l }
Shares(v, f, s, l) ==
  Named(v, l) \cup { <<o, 0>> : o \in { p \in Objects : f[p] # None /\ f[p].part = l } }
              \cup { <<None, i>> : i \in { j \in DOMAIN s : s[j].part = l } }

\* A lambda counts at least the names and bodies that refer to it
\* (increment_refcount, decrement_refcount).
LambdasAreOwned ==
  \A l \in Objects : Alive(l) /\ IsLambda(l) => fn[l].owners >= Cardinality(Shares(vs, fn, si, l))

\* While the interpreter waits for a line, no context on the stack has started
\* a safe execution: an error in that line is not taken for one in []EC. This
\* is so whatever was called, failed, was escaped from, branched out of or
\* retried, but for the contexts that an interrupt, or a branch without a
\* function, has stranded on the stack while in []EC (finish_context).
InputIsNotSafe == ~running => \A i \in DOMAIN si : i > stranded => ~SafeStart(i)

\* The scopes: the workspace, and one for each context
ScopesOfSI ==
  <<[n \in Symbols |-> vs[n][1]]>> \o
  [i \in DOMAIN si |-> [n \in Localised(si[i]) |-> vs[n][1 + Depth(n, 1 .. i)]]]

\* Value stacks implement dynamic scope.
Dynamic == INSTANCE Scopes WITH
  Names <- Symbols, Bindings <- Binding, Unused <- "unused", scopes <- ScopesOfSI

DynamicScope == Dynamic!Spec
=============================================================================
