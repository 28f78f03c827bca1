------------------------------ MODULE ScopesProofs ------------------------------
(***************************************************************************)
(* Value stacks, as Names changes them, are dynamic scope, as Scopes       *)
(* defines it: every step of Names enters a scope, leaves some, binds a    *)
(* name in the innermost scope that has it, clears the workspace, or       *)
(* changes no scope.                                                       *)
(***************************************************************************)
EXTENDS NamesProofs

Scope == UNION { [ns -> Binding] : ns \in SUBSET Symbols }

\* The bindings of the workspace, and of the context at position i
Global(v) == [n \in Symbols |-> v[n][1]]
Position(f, s, n, i) == 1 + Cardinality(InDepth(f, s, n, 1 .. i))
ScopeAt(v, f, s, i) == [n \in LocalisedIn(f, s[i]) |-> v[n][Position(f, s, n, i)]]
AllScopes(v, f, s) == <<Global(v)>> \o [i \in DOMAIN s |-> ScopeAt(v, f, s, i)]

LEMMA LocalisedSymbols ==
  ASSUME NEW v, NEW f, NEW s, NEW e, Sound(v, f, s, e), NEW i \in 1 .. Len(s)
  PROVE  LocalisedIn(f, s[i]) \subseteq Symbols
<1>1. CASE s[i].kind = "function" /\ f[s[i].fun] # None
  <2>1. Types(v, f, s, e)
    BY DEF Sound
  <2>2. s[i].fun \in Objects
    BY <1>1, <2>1, ContextFields DEF Types
  <2>3. f[s[i].fun] \in Object
    BY <1>1, <2>1, <2>2 DEF Types
  <2>4. f[s[i].fun].text \in TextType
    BY <2>3, NamesAssumption DEF Object
  <2>5. f[s[i].fun].text.locals \in UNION { [ns -> {"unused", "value", "label"}] : ns \in SUBSET Symbols }
    BY <2>4 DEF TextType
  <2>6. PICK ns \in SUBSET Symbols : f[s[i].fun].text.locals \in [ns -> {"unused", "value", "label"}]
    BY <2>5
  <2> QED BY <1>1, <2>6 DEF LocalisedIn
<1> QED BY <1>1 DEF LocalisedIn

\* The positions of a name's bindings grow with the contexts that localise it.
LEMMA Positions ==
  ASSUME NEW v, NEW f, NEW s, NEW e, Sound(v, f, s, e), NEW n \in Symbols,
         NEW i \in 0 .. Len(s), NEW j \in i .. Len(s)
  PROVE  /\ Position(f, s, n, i) \in 1 .. Len(v[n])
         /\ Position(f, s, n, j) \in 1 .. Len(v[n])
         /\ Position(f, s, n, i) <= Position(f, s, n, j)
         /\ (\E k \in i+1 .. j : n \in LocalisedIn(f, s[k])) => Position(f, s, n, i) < Position(f, s, n, j)
         /\ (\A k \in i+1 .. j : n \notin LocalisedIn(f, s[k])) => Position(f, s, n, i) = Position(f, s, n, j)
<1>1. Len(s) \in Nat
  BY ContextFields DEF Sound
<1>2. /\ InDepth(f, s, n, 1 .. i) \subseteq InDepth(f, s, n, 1 .. j)
      /\ InDepth(f, s, n, 1 .. j) \subseteq InDepth(f, s, n, 1 .. Len(s))
  BY <1>1 DEF InDepth
<1>3. /\ IsFiniteSet(InDepth(f, s, n, 1 .. j)) /\ IsFiniteSet(InDepth(f, s, n, 1 .. Len(s)))
      /\ Cardinality(InDepth(f, s, n, 1 .. i)) \in Nat /\ Cardinality(InDepth(f, s, n, 1 .. j)) \in Nat
      /\ Cardinality(InDepth(f, s, n, 1 .. Len(s))) \in Nat
  BY <1>1, DepthFacts
<1>4. /\ Cardinality(InDepth(f, s, n, 1 .. i)) <= Cardinality(InDepth(f, s, n, 1 .. j))
      /\ Cardinality(InDepth(f, s, n, 1 .. j)) <= Cardinality(InDepth(f, s, n, 1 .. Len(s)))
  BY <1>2, <1>3, Fewer
<1>5. Len(v[n]) = 1 + Cardinality(InDepth(f, s, n, 1 .. Len(s)))
  BY DEF Sound, ScopesIn
<1>6. ASSUME NEW k \in i+1 .. j, n \in LocalisedIn(f, s[k])
      PROVE  Position(f, s, n, i) < Position(f, s, n, j)
  <2>1. k \in InDepth(f, s, n, 1 .. j) \ InDepth(f, s, n, 1 .. i)
    BY <1>1, <1>6 DEF InDepth
  <2>2. Cardinality(InDepth(f, s, n, 1 .. i)) + 1 <= Cardinality(InDepth(f, s, n, 1 .. j))
    BY <1>2, <1>3, <2>1, Fewer
  <2> QED BY <1>3, <2>2 DEF Position
<1>7. ASSUME \A k \in i+1 .. j : n \notin LocalisedIn(f, s[k])
      PROVE  Position(f, s, n, i) = Position(f, s, n, j)
  <2>1. InDepth(f, s, n, 1 .. i) = InDepth(f, s, n, 1 .. j)
    BY <1>1, <1>7 DEF InDepth
  <2> QED BY <2>1 DEF Position
<1> QED BY <1>3, <1>4, <1>5, <1>6, <1>7 DEF Position

\* The scopes are a sequence of scopes: the workspace and the contexts.
LEMMA ScopesFacts ==
  ASSUME NEW v, NEW f, NEW s, NEW e, Sound(v, f, s, e)
  PROVE  /\ AllScopes(v, f, s) \in Seq(Scope)
         /\ Len(s) \in Nat /\ Len(AllScopes(v, f, s)) = Len(s) + 1
         /\ AllScopes(v, f, s)[1] = Global(v)
         /\ \A i \in 1 .. Len(s) : /\ AllScopes(v, f, s)[i+1] = ScopeAt(v, f, s, i)
                                   /\ LocalisedIn(f, s[i]) \subseteq Symbols
         /\ Global(v) \in [Symbols -> Binding]
<1>1. Len(s) \in Nat /\ DOMAIN s = 1 .. Len(s)
  BY ContextFields DEF Sound
<1>2. \A n \in Symbols : \A i \in 1 .. Len(v[n]) : v[n][i] \in Binding
  BY StacksAreBounded
<1>3. Global(v) \in [Symbols -> Binding]
  <2>1. \A n \in Symbols : 1 \in 1 .. Len(v[n])
    BY StacksAreBounded
  <2> QED BY <1>2, <2>1 DEF Global
<1>4. ASSUME NEW i \in 1 .. Len(s) PROVE ScopeAt(v, f, s, i) \in Scope
  <2>1. LocalisedIn(f, s[i]) \subseteq Symbols
    BY LocalisedSymbols
  <2>2. \A n \in Symbols : Position(f, s, n, i) \in 1 .. Len(v[n])
    BY <1>1, Positions
  <2>3. ScopeAt(v, f, s, i) \in [LocalisedIn(f, s[i]) -> Binding]
    BY <1>2, <2>1, <2>2 DEF ScopeAt
  <2> QED BY <2>1, <2>3 DEF Scope
<1> DEFINE g == <<Global(v)>>
           l == [i \in DOMAIN s |-> ScopeAt(v, f, s, i)]
<1>5. Global(v) \in Scope
  BY <1>3 DEF Scope
<1>6. g \in Seq(Scope) /\ Len(g) = 1 /\ g[1] = Global(v)
  BY <1>5
<1>7. l \in Seq(Scope) /\ Len(l) = Len(s) /\ \A i \in 1 .. Len(s) : l[i] = ScopeAt(v, f, s, i)
  BY <1>1, <1>4
<1>8. AllScopes(v, f, s) = g \o l
  BY DEF AllScopes
<1> HIDE DEF g, l
<1>9. /\ g \o l \in Seq(Scope) /\ Len(g \o l) = 1 + Len(s)
      /\ \A i \in 1 .. 1 + Len(s) : (g \o l)[i] = IF i <= 1 THEN g[i] ELSE l[i - 1]
  <2>1. /\ g \o l \in Seq(Scope) /\ Len(g \o l) = Len(g) + Len(l)
        /\ \A i \in 1 .. Len(g) + Len(l) : (g \o l)[i] = IF i <= Len(g) THEN g[i] ELSE l[i - Len(g)]
    BY <1>6, <1>7, ConcatProperties
  <2> QED BY <1>1, <1>6, <1>7, <2>1
<1>10. \A i \in 1 .. Len(s) : (g \o l)[i+1] = l[i] /\ i+1 \in 1 .. 1 + Len(s)
  BY <1>1, <1>9
<1>11. (g \o l)[1] = g[1]
  BY <1>1, <1>9
<1> QED BY <1>1, <1>3, <1>6, <1>7, <1>8, <1>9, <1>10, <1>11, LocalisedSymbols

-----------------------------------------------------------------------------
(* What a step does to the scopes.                                         *)

\* Functions that are there before and after have the same text.
SameText(f, g) == \A o \in Objects : f[o] # None /\ g[o] # None => g[o].text = f[o].text

\* The contexts at the bottom of s and r execute the same functions.
SameBelow(s, r, m) == \A i \in 1 .. m : r[i].kind = s[i].kind /\ r[i].fun = s[i].fun

\* They localise the same names.
LEMMA SameLocals ==
  ASSUME NEW v, NEW f, NEW s, NEW e, Sound(v, f, s, e),
         NEW w, NEW g, NEW r, NEW d, Sound(w, g, r, d),
         SameText(f, g), NEW m \in 0 .. Len(s), m <= Len(r), SameBelow(s, r, m)
  PROVE  /\ \A i \in 1 .. m : LocalisedIn(g, r[i]) = LocalisedIn(f, s[i])
         /\ \A n : \A i \in 0 .. m : Position(g, r, n, i) = Position(f, s, n, i)
<1>1. /\ Len(s) \in Nat /\ Len(r) \in Nat /\ DOMAIN s = 1 .. Len(s) /\ DOMAIN r = 1 .. Len(r)
  BY ContextFields DEF Sound
<1>2. ASSUME NEW i \in 1 .. m PROVE LocalisedIn(g, r[i]) = LocalisedIn(f, s[i])
  <2>1. /\ i \in 1 .. Len(s) /\ i \in 1 .. Len(r)
        /\ r[i].kind = s[i].kind /\ r[i].fun = s[i].fun
    BY <1>1 DEF SameBelow
  <2>2. CASE s[i].kind = "function"
    <3>1. s[i].fun \in Objects
      <4>1. Types(v, f, s, e)
        BY DEF Sound
      <4>2. s[i].fun \in Objects \cup {None}
        BY <2>1, <4>1, ContextFields
      <4> QED BY <2>1, <2>2, <4>1, <4>2 DEF Types
    <3>2. s[i].fun \in InContexts(s) /\ s[i].fun \in InContexts(r)
      BY <1>1, <2>1 DEF InContexts
    <3>3. f[s[i].fun] # None /\ g[s[i].fun] # None
      BY <3>1, <3>2 DEF Sound, AliveIn, Referred
    <3> QED BY <2>1, <3>1, <3>3 DEF SameText, LocalisedIn
  <2> QED BY <2>1, <2>2 DEF LocalisedIn
<1>3. ASSUME NEW n, NEW i \in 0 .. m PROVE Position(g, r, n, i) = Position(f, s, n, i)
  <2>1. InDepth(g, r, n, 1 .. i) = InDepth(f, s, n, 1 .. i)
    BY <1>1, <1>2 DEF InDepth
  <2> QED BY <2>1 DEF Position
<1> QED BY <1>2, <1>3

\* A scope with the same bindings of the same names
LEMMA SameScope ==
  ASSUME NEW v, NEW f, NEW s, NEW e, Sound(v, f, s, e),
         NEW w, NEW g, NEW r, NEW d, Sound(w, g, r, d),
         SameText(f, g), NEW m \in 0 .. Len(s), m <= Len(r), SameBelow(s, r, m),
         \A n \in Symbols : \A i \in 1 .. Len(v[n]) : i \in 1 .. Len(w[n]) => w[n][i] = v[n][i]
  PROVE  /\ Global(w) = Global(v)
         /\ \A i \in 1 .. m : ScopeAt(w, g, r, i) = ScopeAt(v, f, s, i)
<1>1. Len(s) \in Nat /\ Len(r) \in Nat
  BY ContextFields DEF Sound
<1>2. \A n \in Symbols : w[n][1] = v[n][1]
  <2>1. \A n \in Symbols : 1 \in 1 .. Len(v[n]) /\ 1 \in 1 .. Len(w[n])
    BY StacksAreBounded
  <2> QED BY <2>1
<1>3. ASSUME NEW i \in 1 .. m PROVE ScopeAt(w, g, r, i) = ScopeAt(v, f, s, i)
  <2>1. LocalisedIn(g, r[i]) = LocalisedIn(f, s[i]) /\ LocalisedIn(f, s[i]) \subseteq Symbols
    BY <1>1, SameLocals, LocalisedSymbols
  <2>2. ASSUME NEW n \in Symbols PROVE w[n][Position(g, r, n, i)] = v[n][Position(f, s, n, i)]
    <3>1. Position(g, r, n, i) = Position(f, s, n, i)
      BY <1>1, SameLocals
    <3>2. Position(f, s, n, i) \in 1 .. Len(v[n]) /\ Position(g, r, n, i) \in 1 .. Len(w[n])
      BY <1>1, Positions
    <3> QED BY <3>1, <3>2
  <2> QED BY <2>1, <2>2 DEF ScopeAt
<1> QED BY <1>2, <1>3 DEF Global

\* Contexts are popped: scopes leave.
LEMMA ScopesLeave ==
  ASSUME NEW v, NEW f, NEW s, NEW e, Sound(v, f, s, e),
         NEW w, NEW g, NEW r, NEW d, Sound(w, g, r, d),
         SameText(f, g), Len(r) <= Len(s), SameBelow(s, r, Len(r)),
         \A n \in Symbols : \A i \in 1 .. Len(v[n]) : i \in 1 .. Len(w[n]) => w[n][i] = v[n][i]
  PROVE  /\ AllScopes(w, g, r) = SubSeq(AllScopes(v, f, s), 1, Len(r) + 1)
         /\ Len(r) + 1 \in 1 .. Len(AllScopes(v, f, s))
<1> DEFINE S == AllScopes(v, f, s)
           T == AllScopes(w, g, r)
           m == Len(r)
<1>1. /\ S \in Seq(Scope) /\ Len(S) = Len(s) + 1 /\ Len(s) \in Nat
      /\ S[1] = Global(v) /\ \A i \in 1 .. Len(s) : S[i+1] = ScopeAt(v, f, s, i)
  BY ScopesFacts
<1>2. /\ T \in Seq(Scope) /\ Len(T) = m + 1 /\ m \in Nat
      /\ T[1] = Global(w) /\ \A i \in 1 .. m : T[i+1] = ScopeAt(w, g, r, i)
  BY ScopesFacts
<1>3. /\ Global(w) = Global(v)
      /\ \A i \in 1 .. m : ScopeAt(w, g, r, i) = ScopeAt(v, f, s, i)
  <2>1. m \in 0 .. Len(s) /\ m <= Len(r) /\ SameBelow(s, r, m)
    BY <1>1, <1>2
  <2> QED BY <2>1, SameScope
<1> HIDE DEF S, T, m
<1>4. \A i \in 1 .. m + 1 : i = 1 \/ (i - 1 \in 1 .. m /\ i = (i - 1) + 1)
  BY <1>2
<1>5. m <= Len(s)
  BY DEF m
<1>6. \A i \in 1 .. m + 1 : T[i] = S[i]
  <2> TAKE i \in 1 .. m + 1
  <2>1. CASE i = 1
    BY <1>1, <1>2, <1>3, <2>1
  <2>2. CASE i - 1 \in 1 .. m /\ i = (i - 1) + 1
    <3>1. i - 1 \in 1 .. Len(s)
      BY <1>1, <1>2, <1>5, <2>2
    <3> QED BY <1>1, <1>2, <1>3, <2>2, <3>1
  <2> QED BY <1>4, <2>1, <2>2
<1>7. /\ SubSeq(S, 1, m + 1) \in Seq(Scope) /\ Len(SubSeq(S, 1, m + 1)) = m + 1
      /\ \A i \in 1 .. m + 1 : SubSeq(S, 1, m + 1)[i] = S[i]
  <2>1. \A i \in 1 .. m + 1 : S[i] \in Scope
    BY <1>1, <1>2, <1>5, ElementOfSeq
  <2> QED BY <1>2, <2>1, SubSeqProperties
<1>8. T = SubSeq(S, 1, m + 1)
  BY <1>2, <1>6, <1>7, SeqEqual
<1>9. m + 1 \in 1 .. Len(S)
  BY <1>1, <1>2, <1>5
<1> QED BY <1>8, <1>9 DEF S, T, m

\* A context is pushed: a scope is entered.
LEMMA ScopesEnter ==
  ASSUME NEW v, NEW f, NEW s, NEW e, Sound(v, f, s, e),
         NEW w, NEW g, NEW r, NEW d, Sound(w, g, r, d),
         SameText(f, g), Len(r) = Len(s) + 1, SameBelow(s, r, Len(s)),
         \A n \in Symbols : \A i \in 1 .. Len(v[n]) : i \in 1 .. Len(w[n]) => w[n][i] = v[n][i]
  PROVE  \E x \in Scope : AllScopes(w, g, r) = Append(AllScopes(v, f, s), x)
<1> DEFINE S == AllScopes(v, f, s)
           T == AllScopes(w, g, r)
           m == Len(s)
<1>1. /\ S \in Seq(Scope) /\ Len(S) = m + 1 /\ m \in Nat
      /\ S[1] = Global(v) /\ \A i \in 1 .. m : S[i+1] = ScopeAt(v, f, s, i)
  BY ScopesFacts
<1>2. /\ T \in Seq(Scope) /\ Len(T) = Len(r) + 1 /\ Len(r) = m + 1
      /\ T[1] = Global(w) /\ \A i \in 1 .. Len(r) : T[i+1] = ScopeAt(w, g, r, i)
  BY ScopesFacts
<1>3. /\ Global(w) = Global(v)
      /\ \A i \in 1 .. m : ScopeAt(w, g, r, i) = ScopeAt(v, f, s, i)
  <2>1. m \in 0 .. Len(s) /\ m <= Len(r) /\ SameBelow(s, r, m)
    BY <1>1, <1>2
  <2> QED BY <2>1, SameScope
<1> HIDE DEF S, T, m
<1>4. \A i \in 1 .. m + 1 : i = 1 \/ (i - 1 \in 1 .. m /\ i = (i - 1) + 1)
  BY <1>1
<1>5. \A i \in 1 .. m + 1 : T[i] = S[i]
  <2> TAKE i \in 1 .. m + 1
  <2>1. CASE i = 1
    BY <1>1, <1>2, <1>3, <2>1
  <2>2. CASE i - 1 \in 1 .. m /\ i = (i - 1) + 1
    <3>1. i - 1 \in 1 .. Len(r)
      BY <1>1, <1>2, <2>2
    <3> QED BY <1>1, <1>2, <1>3, <2>2, <3>1
  <2> QED BY <1>4, <2>1, <2>2
<1>6. m + 2 \in 1 .. Len(T) /\ Len(T) = m + 2
  BY <1>1, <1>2
<1> DEFINE x == T[m + 2]
<1>7. x \in Scope
  BY <1>2, <1>6, ElementOfSeq
<1> HIDE DEF x
<1>8. /\ Append(S, x) \in Seq(Scope) /\ Len(Append(S, x)) = m + 2
      /\ \A i \in 1 .. m + 1 : Append(S, x)[i] = S[i]
      /\ Append(S, x)[m + 2] = x
  BY <1>1, <1>7, AppendProperties
<1>9. \A i \in 1 .. m + 2 : i = m + 2 \/ i \in 1 .. m + 1
  BY <1>1
<1>10. T = Append(S, x)
  <2>1. \A i \in 1 .. Len(T) : T[i] = Append(S, x)[i]
    BY <1>5, <1>6, <1>8, <1>9 DEF x
  <2> QED BY <1>2, <1>6, <1>8, <2>1, SeqEqual
<1> QED BY <1>7, <1>10 DEF S, T

\* A set of positions has a last one.
LEMMA LastPosition ==
  ASSUME NEW k \in Nat, NEW B \in SUBSET (0 .. k), B # {}
  PROVE  \E m \in B : \A i \in B : i <= m
<1> DEFINE T == { i .. k : i \in B }
<1>1. IsWellFoundedOn(StrictSubsetOrdering(Nat), FiniteSubsetsOf(Nat))
  BY FS_StrictSubsetOrderingWellFounded
<1>2. \A i \in B : i .. k \in SUBSET Nat /\ IsFiniteSet(i .. k)
  BY FS_Interval
<1>3. T \subseteq FiniteSubsetsOf(Nat) /\ T # {}
  BY <1>2 DEF FiniteSubsetsOf
<1>4. PICK x \in T : \A y \in T : ~(<<y, x>> \in StrictSubsetOrdering(Nat))
  BY <1>1, <1>3, WFMin
<1>5. PICK m \in B : x = m .. k
  OBVIOUS
<1>6. ASSUME NEW i \in B, ~(i <= m) PROVE FALSE
  <2>1. i .. k \in T /\ i .. k \subseteq m .. k /\ i .. k # m .. k
    BY <1>6
  <2>2. <<i .. k, x>> \in StrictSubsetOrdering(Nat)
    BY <1>2, <1>5, <2>1 DEF StrictSubsetOrdering
  <2> QED BY <1>4, <2>1, <2>2
<1> QED BY <1>6

\* The innermost scope that binds n
Inner(S, n) ==
  CHOOSE i \in DOMAIN S : n \in DOMAIN S[i] /\ \A j \in i+1 .. Len(S) : n \notin DOMAIN S[j]

\* It has the binding on top of the value stack, the other ones have others.
LEMMA InnerScope ==
  ASSUME NEW v, NEW f, NEW s, NEW e, Sound(v, f, s, e), NEW n \in Symbols
  PROVE  \E k \in 0 .. Len(s) :
           /\ Inner(AllScopes(v, f, s), n) = k + 1
           /\ Position(f, s, n, k) = Len(v[n])
           /\ k > 0 => n \in LocalisedIn(f, s[k]) /\ Len(v[n]) # 1
           /\ \A i \in 1 .. Len(s) : n \in LocalisedIn(f, s[i]) /\ i # k => Position(f, s, n, i) # Len(v[n])
<1> DEFINE S == AllScopes(v, f, s)
           B == { i \in 0 .. Len(s) : i = 0 \/ n \in LocalisedIn(f, s[i]) }
<1>1. /\ S \in Seq(Scope) /\ Len(S) = Len(s) + 1 /\ Len(s) \in Nat
      /\ S[1] = Global(v) /\ \A i \in 1 .. Len(s) : S[i+1] = ScopeAt(v, f, s, i)
  BY ScopesFacts
<1>2. DOMAIN S = 1 .. Len(S)
  BY <1>1, LenProperties
<1>3. /\ DOMAIN S[1] = Symbols
      /\ \A i \in 1 .. Len(s) : DOMAIN S[i+1] = LocalisedIn(f, s[i])
  BY <1>1 DEF Global, ScopeAt
<1> HIDE DEF S
<1>4. 0 \in B /\ B \in SUBSET (0 .. Len(s))
  BY <1>1
<1>5. PICK k \in B : \A i \in B : i <= k
  BY <1>1, <1>4, LastPosition
<1>6. k \in 0 .. Len(s) /\ (k > 0 => n \in LocalisedIn(f, s[k]))
  OBVIOUS
<1>7. \A i \in k+1 .. Len(s) : n \notin LocalisedIn(f, s[i])
  <2> SUFFICES ASSUME NEW i \in k+1 .. Len(s), n \in LocalisedIn(f, s[i]) PROVE FALSE
    OBVIOUS
  <2>1. i \in B /\ ~(i <= k)
    BY <1>1, <1>6
  <2> QED BY <1>5, <2>1
<1> HIDE DEF B
<1>8. \A i \in 1 .. Len(s) : i # k /\ n \in LocalisedIn(f, s[i]) => i < k
  BY <1>1, <1>6, <1>7
<1>9. n \in DOMAIN S[k+1] /\ \A j \in k+2 .. Len(S) : n \notin DOMAIN S[j]
  <2>1. n \in DOMAIN S[k+1]
    BY <1>3, <1>6
  <2>2. ASSUME NEW j \in k+2 .. Len(S) PROVE n \notin DOMAIN S[j]
    <3>1. j - 1 \in k+1 .. Len(s) /\ j - 1 \in 1 .. Len(s) /\ j = (j - 1) + 1
      BY <1>1, <1>6
    <3> QED BY <1>3, <1>7, <3>1
  <2> QED BY <2>1, <2>2
<1>10. ASSUME NEW i \in DOMAIN S, n \in DOMAIN S[i], \A j \in i+1 .. Len(S) : n \notin DOMAIN S[j]
       PROVE  i = k + 1
  <2>1. i \in 1 .. Len(S) /\ k + 1 \in 1 .. Len(S)
    BY <1>1, <1>2, <1>6
  <2>2. ~(i > k + 1)
    BY <1>1, <1>6, <1>9, <1>10, <2>1
  <2>3. ~(i < k + 1)
    BY <1>1, <1>6, <1>9, <1>10, <2>1
  <2> QED BY <1>6, <2>1, <2>2, <2>3
<1>11. Inner(S, n) = k + 1
  <2>1. k + 1 \in DOMAIN S /\ (k + 1) + 1 = k + 2
    BY <1>1, <1>2, <1>6
  <2>2. \E i \in DOMAIN S : n \in DOMAIN S[i] /\ \A j \in i+1 .. Len(S) : n \notin DOMAIN S[j]
    BY <1>9, <2>1
  <2>3. /\ Inner(S, n) \in DOMAIN S /\ n \in DOMAIN S[Inner(S, n)]
        /\ \A j \in Inner(S, n)+1 .. Len(S) : n \notin DOMAIN S[j]
    BY <2>2 DEF Inner
  <2> QED BY <1>10, <2>3
<1>12. Position(f, s, n, Len(s)) = Len(v[n]) /\ Len(v[n]) \in Nat
  <2>1. Len(v[n]) = 1 + Cardinality(InDepth(f, s, n, 1 .. Len(s)))
    BY DEF Sound, ScopesIn
  <2> QED BY <2>1, StacksAreBounded DEF Position
<1>13. Position(f, s, n, k) = Len(v[n])
  <2>1. Len(s) \in k .. Len(s)
    BY <1>1, <1>6
  <2> QED BY <1>6, <1>7, <1>12, <2>1, Positions
<1>14. ASSUME NEW i \in 0 .. Len(s), i < k PROVE Position(f, s, n, i) < Position(f, s, n, k)
  <2>1. k \in i .. Len(s) /\ k \in i+1 .. k /\ n \in LocalisedIn(f, s[k])
    BY <1>1, <1>6, <1>14
  <2> QED BY <2>1, Positions
<1>15. \A i \in 1 .. Len(s) : n \in LocalisedIn(f, s[i]) /\ i # k => Position(f, s, n, i) # Len(v[n])
  <2> SUFFICES ASSUME NEW i \in 1 .. Len(s), i < k PROVE Position(f, s, n, i) # Len(v[n])
    BY <1>8
  <2>1. Position(f, s, n, i) < Position(f, s, n, k)
    BY <1>14
  <2> QED BY <1>12, <1>13, <2>1
<1>16. k > 0 => Len(v[n]) # 1
  <2> SUFFICES ASSUME k > 0 PROVE Len(v[n]) # 1
    OBVIOUS
  <2>1. 0 \in 0 .. Len(s) /\ Position(f, s, n, 0) < Len(v[n])
    BY <1>1, <1>13, <1>14
  <2>2. Len(s) \in 0 .. Len(s)
    BY <1>1
  <2>3. Position(f, s, n, 0) \in 1 .. Len(v[n])
    BY <2>1, <2>2, Positions
  <2>4. \A x \in 1 .. 1 : ~(x < 1)
    OBVIOUS
  <2> QED BY <2>1, <2>3, <2>4
<1> QED BY <1>6, <1>11, <1>13, <1>15, <1>16 DEF S

BoundIn(S, n, b) == [S EXCEPT ![Inner(S, n)][n] = b]

\* The top of a value stack is changed: the name is bound in the innermost scope.
LEMMA ScopesBind ==
  ASSUME NEW v, NEW f, NEW s, NEW e, Sound(v, f, s, e),
         NEW w, NEW g, NEW d, Sound(w, g, s, d),
         SameText(f, g), NEW n \in Symbols, NEW b,
         w = Rebound(v, n, b)
  PROVE  AllScopes(w, g, s) = BoundIn(AllScopes(v, f, s), n, b)
<1> DEFINE S == AllScopes(v, f, s)
           T == AllScopes(w, g, s)
           o == Inner(S, n)
           R == [S EXCEPT ![o][n] = b]
<1>1. /\ S \in Seq(Scope) /\ Len(S) = Len(s) + 1 /\ Len(s) \in Nat
      /\ S[1] = Global(v) /\ \A i \in 1 .. Len(s) : S[i+1] = ScopeAt(v, f, s, i)
  <2> HIDE DEF o, R
  <2> QED BY ScopesFacts
<1>14. \A i \in 1 .. Len(s) : LocalisedIn(f, s[i]) \subseteq Symbols
  BY LocalisedSymbols
<1>2. /\ T \in Seq(Scope) /\ Len(T) = Len(s) + 1
      /\ T[1] = Global(w) /\ \A i \in 1 .. Len(s) : T[i+1] = ScopeAt(w, g, s, i)
  <2>1. Sound(w, g, s, d)
    OBVIOUS
  <2> HIDE DEF S, o, R
  <2> QED BY ONLY <2>1, ScopesFacts
<1>3. /\ \A i \in 1 .. Len(s) : LocalisedIn(g, s[i]) = LocalisedIn(f, s[i])
      /\ \A m : \A i \in 0 .. Len(s) : Position(g, s, m, i) = Position(f, s, m, i)
  <2>1. Len(s) \in 0 .. Len(s) /\ Len(s) <= Len(s) /\ SameBelow(s, s, Len(s))
    BY <1>1 DEF SameBelow
  <2> QED BY <2>1, SameLocals
<1>4. PICK k \in 0 .. Len(s) :
        /\ o = k + 1
        /\ Position(f, s, n, k) = Len(v[n])
        /\ k > 0 => n \in LocalisedIn(f, s[k]) /\ Len(v[n]) # 1
        /\ \A i \in 1 .. Len(s) : n \in LocalisedIn(f, s[i]) /\ i # k => Position(f, s, n, i) # Len(v[n])
  BY InnerScope
<1>5. v \in [Symbols -> Seq(Binding)] /\ DOMAIN v[n] = 1 .. Len(v[n]) /\ 1 \in 1 .. Len(v[n])
  <2>1. v \in [Symbols -> Seq(Binding)]
    BY DEF Sound, Types
  <2>2. DOMAIN v[n] = 1 .. Len(v[n]) /\ Len(v[n]) \in 1 .. MaxDepth + 1
    BY StacksAreBounded
  <2> QED BY <2>1, <2>2
<1>6. /\ \A m \in Symbols : m # n => w[m] = v[m]
      /\ \A i \in 1 .. Len(v[n]) : w[n][i] = IF i = Len(v[n]) THEN b ELSE v[n][i]
  BY <1>5 DEF Rebound
<1>7. Len(v[n]) \in Nat
  BY StacksAreBounded
<1>8. DOMAIN S = 1 .. Len(s) + 1 /\ DOMAIN T = 1 .. Len(s) + 1
  BY <1>1, <1>2, LenProperties
<1>9. k + 1 \in 1 .. Len(s) + 1
  BY <1>1
<1> HIDE DEF S, T, o
<1>10. /\ DOMAIN R = 1 .. Len(s) + 1
       /\ R[k+1] = [S[k+1] EXCEPT ![n] = b]
       /\ \A i \in 1 .. Len(s) + 1 : i # k+1 => R[i] = S[i]
  BY <1>4, <1>8, <1>9
<1>11. T[1] = R[1]
  <2>1. ASSUME NEW m \in Symbols PROVE Global(w)[m] = IF m = n /\ k = 0 THEN b ELSE Global(v)[m]
    <3>1. CASE m # n
      BY <1>6, <3>1 DEF Global
    <3>2. CASE m = n /\ k = 0
      <4>1. Position(f, s, n, 0) = 1
        <5>1. InDepth(f, s, n, 1 .. 0) = {}
          BY DEF InDepth
        <5>2. Cardinality(InDepth(f, s, n, 1 .. 0)) = 0
          BY <5>1, FS_EmptySet
        <5> QED BY <5>2 DEF Position
      <4>2. Len(v[n]) = 1
        BY <1>4, <3>2, <4>1
      <4> QED BY <1>5, <1>6, <3>2, <4>2 DEF Global
    <3>3. CASE m = n /\ k # 0
      BY <1>4, <1>5, <1>6, <3>3 DEF Global
    <3> QED BY <3>1, <3>2, <3>3
  <2>2. CASE k = 0
    <3>1. R[1] = [Global(v) EXCEPT ![n] = b]
      BY <1>1, <1>10, <2>2
    <3>2. Global(v) = [m \in Symbols |-> Global(v)[m]] /\ Global(w) = [m \in Symbols |-> Global(w)[m]]
      BY DEF Global
    <3>3. [Global(v) EXCEPT ![n] = b] = [m \in Symbols |-> IF m = n THEN b ELSE Global(v)[m]]
      BY <3>2, Zenon
    <3>4. \A m \in Symbols : Global(w)[m] = IF m = n THEN b ELSE Global(v)[m]
      BY <2>1, <2>2
    <3>5. [m \in Symbols |-> Global(w)[m]] = [m \in Symbols |-> IF m = n THEN b ELSE Global(v)[m]]
      BY <3>4
    <3> QED BY <1>2, <3>1, <3>2, <3>3, <3>5
  <2>3. CASE k # 0
    <3>1. 1 \in 1 .. Len(s) + 1 /\ 1 # k + 1
      BY <1>1, <2>3
    <3>2. R[1] = Global(v)
      BY <1>1, <1>10, <3>1
    <3> QED BY <1>2, <2>1, <2>3, <3>2 DEF Global
  <2> QED BY <2>2, <2>3
<1>12. ASSUME NEW i \in 1 .. Len(s) PROVE T[i+1] = R[i+1]
  <2> DEFINE Ns == LocalisedIn(f, s[i])
  <2>1. ScopeAt(w, g, s, i) = [m \in Ns |-> w[m][Position(f, s, m, i)]]
    BY <1>1, <1>3 DEF ScopeAt
  <2>2. ScopeAt(v, f, s, i) = [m \in Ns |-> v[m][Position(f, s, m, i)]]
    BY DEF ScopeAt
  <2>3. ASSUME NEW m \in Ns
        PROVE  w[m][Position(f, s, m, i)] = IF m = n /\ i = k THEN b ELSE v[m][Position(f, s, m, i)]
    <3>1. m \in Symbols
      BY <1>14
    <3>2. Position(f, s, m, i) \in 1 .. Len(v[m])
      <4>1. i \in 0 .. Len(s) /\ Len(s) \in i .. Len(s)
        BY <1>1
      <4> QED BY <3>1, <4>1, Positions
    <3>3. CASE m # n
      BY <1>6, <3>1, <3>3
    <3>4. CASE m = n /\ i = k
      BY <1>4, <1>6, <3>2, <3>4
    <3>5. CASE m = n /\ i # k
      BY <1>4, <1>6, <3>2, <3>5
    <3> QED BY <3>3, <3>4, <3>5
  <2> HIDE DEF Ns
  <2>4. i + 1 \in 1 .. Len(s) + 1 /\ (i + 1 = k + 1 <=> i = k)
    BY <1>1
  <2>5. CASE i = k
    <3>1. R[i+1] = [ScopeAt(v, f, s, i) EXCEPT ![n] = b]
      BY <1>1, <1>10, <2>5
    <3>2. [[m \in Ns |-> v[m][Position(f, s, m, i)]] EXCEPT ![n] = b]
            = [m \in Ns |-> IF m = n THEN b ELSE v[m][Position(f, s, m, i)]]
      BY Zenon
    <3>3. [m \in Ns |-> w[m][Position(f, s, m, i)]]
            = [m \in Ns |-> IF m = n THEN b ELSE v[m][Position(f, s, m, i)]]
      BY <2>3, <2>5
    <3> QED BY <1>2, <2>1, <2>2, <3>1, <3>2, <3>3
  <2>6. CASE i # k
    <3>1. R[i+1] = ScopeAt(v, f, s, i)
      BY <1>1, <1>10, <2>4, <2>6
    <3>2. [m \in Ns |-> w[m][Position(f, s, m, i)]] = [m \in Ns |-> v[m][Position(f, s, m, i)]]
      BY <2>3, <2>6
    <3> QED BY <1>2, <2>1, <2>2, <3>1, <3>2
  <2> QED BY <2>5, <2>6
<1>13. T = R
  <2>1. ASSUME NEW i \in 1 .. Len(s) + 1 PROVE T[i] = R[i]
    <3>1. i = 1 \/ (i - 1 \in 1 .. Len(s) /\ i = (i - 1) + 1)
      BY <1>1
    <3>2. i - 1 \in 1 .. Len(s) => T[(i - 1) + 1] = R[(i - 1) + 1]
      BY <1>12
    <3> QED BY <1>11, <3>1, <3>2
  <2>2. T \in [1 .. Len(s) + 1 -> Scope] /\ R = [i \in 1 .. Len(s) + 1 |-> R[i]]
    BY <1>2, <1>8, <1>10, LenProperties
  <2> HIDE DEF R
  <2>3. T = [i \in 1 .. Len(s) + 1 |-> T[i]]
    BY <2>2
  <2>4. [i \in 1 .. Len(s) + 1 |-> T[i]] = [i \in 1 .. Len(s) + 1 |-> R[i]]
    BY <2>1
  <2> QED BY <2>2, <2>3, <2>4
<1> QED BY <1>13 DEF S, T, o, R, BoundIn

-----------------------------------------------------------------------------
(* What a step does to the texts of functions.                             *)

\* Functions were deleted, none was made.
Shrunk(f, g) == \A o \in Objects : g[o] # None => f[o] # None /\ g[o].text = f[o].text

LEMMA ShrunkText ==
  ASSUME NEW f, NEW g, Shrunk(f, g)
  PROVE  SameText(f, g)
BY DEF Shrunk, SameText

LEMMA KeptText ==
  ASSUME NEW f, NEW g, SameText(f, g), NEW v, NEW s, NEW e
  PROVE  SameText(f, Kept(g, v, s, e))
BY DEF SameText, Kept

LEMMA ReleasedText ==
  ASSUME NEW f \in [Objects -> Object \cup {None}], NEW ls
  PROVE  Shrunk(f, Released(f, ls))
BY ReleasedFields DEF Shrunk

LEMMA DeletedText ==
  ASSUME NEW f \in [Objects -> Object \cup {None}], NEW o
  PROVE  Shrunk(f, Deleted(f, o)) /\ Deleted(f, o) \in [Objects -> Object \cup {None}]
<1> DEFINE g == [f EXCEPT ![o] = None]
<1>1. g \in [Objects -> Object \cup {None}] /\ Shrunk(f, g)
  BY DEF Shrunk
<1> HIDE DEF g
<1>2. /\ Shrunk(g, Released(g, {f[o].part}))
      /\ Released(g, {f[o].part}) \in [Objects -> Object \cup {None}]
  BY <1>1, ReleasedText, ReleasedFields
<1>3. Shrunk(f, Released(g, {f[o].part}))
  BY <1>1, <1>2 DEF Shrunk
<1>4. Shrunk(f, f)
  BY DEF Shrunk
<1>5. Deleted(f, o) = IF f[o] = None THEN f ELSE Released(g, {f[o].part})
  BY DEF Deleted, g
<1> QED BY <1>2, <1>3, <1>4, <1>5

LEMMA WithLambdaText ==
  ASSUME NEW f \in [Objects -> Object \cup {None}], NEW l, NEW t, l # None => f[l] = None
  PROVE  SameText(f, WithLambda(f, l, t))
BY DEF SameText, WithLambda

\* o and l were free before other functions were deleted.
LEMMA WithFunctionText ==
  ASSUME NEW f \in [Objects -> Object \cup {None}], NEW g \in [Objects -> Object \cup {None}], Shrunk(f, g),
         NEW o \in Objects, f[o] = None, NEW l, l # None => l \in Objects /\ f[l] = None, NEW t
  PROVE  SameText(f, WithFunction(g, o, t, l))
<1> DEFINE h == WithLambda(g, l, t.lambda)
<1>1. \A x \in Objects : x # l => h[x] = g[x]
  BY DEF WithLambda
<1>2. WithFunction(g, o, t, l) = [h EXCEPT ![o] = [text |-> t, part |-> l, owners |-> 0]]
  BY DEF WithFunction
<1> HIDE DEF h
<1>3. \A x \in Objects : x # l /\ x # o => WithFunction(g, o, t, l)[x] = g[x]
  BY <1>1, <1>2
<1>4. \A x \in Objects : f[x] # None => x # o /\ x # l
  BY NamesAssumption
<1> QED BY <1>3, <1>4 DEF SameText, Shrunk

-----------------------------------------------------------------------------
(* The steps.                                                              *)

\* The scopes, as Names and as this module writes them
LEMMA ScopesWritten ==
  /\ ScopesOfSI = AllScopes(vs, fn, si)
  /\ ScopesOfSI' = AllScopes(vs', fn', si')
<1>1. \A c : Localised(c) = LocalisedIn(fn, c) /\ Localised(c)' = LocalisedIn(fn', c)
  BY DEF Localised, LocalisedIn, Alive
<1>2. \A n, i : /\ Depth(n, 1 .. i) = Cardinality(InDepth(fn, si, n, 1 .. i))
                /\ Depth(n, 1 .. i)' = Cardinality(InDepth(fn', si', n, 1 .. i))
  BY <1>1 DEF Depth, InDepth
<1> QED BY <1>1, <1>2 DEF ScopesOfSI, AllScopes, Global, ScopeAt, Position

LEMMA LeaveStep ==
  ASSUME IInv, IInv', SameText(fn, fn'), Len(si') <= Len(si), SameBelow(si, si', Len(si')),
         \A n \in Symbols : \A i \in 1 .. Len(vs[n]) : i \in 1 .. Len(vs'[n]) => vs'[n][i] = vs[n][i]
  PROVE  Dynamic!Leave
<1>1. Sound(vs, fn, si, expunged) /\ Sound(vs', fn', si', expunged')
  BY DEF IInv
<1>2. /\ AllScopes(vs', fn', si') = SubSeq(AllScopes(vs, fn, si), 1, Len(si') + 1)
      /\ Len(si') + 1 \in 1 .. Len(AllScopes(vs, fn, si))
  BY <1>1, ScopesLeave
<1> QED BY <1>2, ScopesWritten DEF Dynamic!Leave

LEMMA EnterStep ==
  ASSUME IInv, IInv', SameText(fn, fn'), Len(si') = Len(si) + 1, SameBelow(si, si', Len(si)),
         \A n \in Symbols : \A i \in 1 .. Len(vs[n]) : i \in 1 .. Len(vs'[n]) => vs'[n][i] = vs[n][i]
  PROVE  Dynamic!Enter
<1>1. Sound(vs, fn, si, expunged) /\ Sound(vs', fn', si', expunged')
  BY DEF IInv
<1>2. \E x \in Scope : AllScopes(vs', fn', si') = Append(AllScopes(vs, fn, si), x)
  BY <1>1, ScopesEnter
<1>3. Dynamic!Scope = Scope
  BY DEF Dynamic!Scope, Scope
<1> QED BY <1>2, <1>3, ScopesWritten DEF Dynamic!Enter

LEMMA BindStep ==
  ASSUME IInv, IInv', NEW n \in Symbols, NEW b \in Binding, NEW f, NEW e, Rebind(n, b, f, e), SameText(fn, f)
  PROVE  Dynamic!Bind
<1>1. vs' = [vs EXCEPT ![n][Len(vs[n])] = b] /\ fn' = Kept(f, vs', si, e) /\ si' = si
  BY DEF Rebind
<1>2. SameText(fn, fn')
  BY <1>1, KeptText
<1>3. Sound(vs, fn, si, expunged) /\ Sound(vs', fn', si, expunged')
  BY <1>1 DEF IInv
<1>4. AllScopes(vs', fn', si) = BoundIn(AllScopes(vs, fn, si), n, b)
  <2> DEFINE w == vs'
  <2>1. w = Rebound(vs, n, b) /\ Sound(w, fn', si, expunged')
    BY <1>1, <1>3 DEF Rebound
  <2> HIDE DEF w
  <2>2. AllScopes(w, fn', si) = BoundIn(AllScopes(vs, fn, si), n, b)
    BY <1>2, <1>3, <2>1, ScopesBind
  <2> QED BY <2>2 DEF w
<1>5. Dynamic!Owner(n) = Inner(ScopesOfSI, n)
  BY DEF Dynamic!Owner, Inner
<1> QED BY <1>1, <1>4, <1>5, ScopesWritten DEF Dynamic!Bind, BoundIn

LEMMA PopStep ==
  ASSUME IInv, IInv', NEW m \in 0 .. Len(si), NEW s, PopTo(m, s),
         s = Below(m) \/ (m > 0 /\ s = [Below(m) EXCEPT ![m].held = None])
  PROVE  Dynamic!Leave
<1>1. /\ vs' = Unwound(m) /\ si' = s
      /\ fn' = Kept(Released(fn, { si[i].part : i \in m+1 .. Len(si) }), vs', s, expunged)
  BY DEF PopTo
<1>2. /\ si \in Seq(Context) /\ DOMAIN si = 1 .. Len(si) /\ Len(si) \in Nat
      /\ \A i \in 1 .. Len(si) : si[i] \in Context
  BY Stack
<1>3. SameText(fn, fn')
  <2>1. fn \in [Objects -> Object \cup {None}]
    BY DEF IInv, Sound, Types
  <2> QED BY <1>1, <2>1, ReleasedText, ShrunkText, KeptText
<1>4. Len(si') = m /\ SameBelow(si, si', m)
  <2> DEFINE r == SubSeq(si, 1, m)
  <2>1. r \in Seq(Context) /\ Len(r) = m /\ DOMAIN r = 1 .. m /\ \A i \in 1 .. m : r[i] = si[i]
    BY <1>2, SubSeqProperties, LenProperties
  <2>2. CASE s = Below(m)
    BY <1>1, <2>1, <2>2 DEF Below, SameBelow
  <2>3. CASE m > 0 /\ s = [Below(m) EXCEPT ![m].held = None]
    <3>1. s = [r EXCEPT ![m] = [r[m] EXCEPT !.held = None]] /\ m \in 1 .. m
      BY <2>3 DEF Below
    <3> HIDE DEF r
    <3>2. r[m] \in Context
      BY <1>2, <2>1, <3>1
    <3>5. [r[m] EXCEPT !.held = None] \in Context
      BY <3>2 DEF Context
    <3>3. Len(s) = m /\ \A i \in 1 .. m : s[i] = IF i = m THEN [r[m] EXCEPT !.held = None] ELSE r[i]
      BY <2>1, <3>1, <3>2, <3>5, ExceptSeq
    <3>4. [r[m] EXCEPT !.held = None].kind = r[m].kind /\ [r[m] EXCEPT !.held = None].fun = r[m].fun
      BY <3>2 DEF Context
    <3> QED BY <1>1, <2>1, <3>3, <3>4 DEF SameBelow
  <2> QED BY <2>2, <2>3
<1>5. ASSUME NEW n \in Symbols, NEW i \in 1 .. Len(vs[n]), i \in 1 .. Len(vs'[n])
      PROVE  vs'[n][i] = vs[n][i]
  <2> DEFINE d == Depth(n, m+1 .. Len(si))
             k == Len(vs[n]) - d
  <2>1. d \in Nat
    <3>1. \A c : Localised(c) = LocalisedIn(fn, c)
      BY DEF Localised, LocalisedIn, Alive
    <3>2. d = Cardinality(InDepth(fn, si, n, m+1 .. Len(si)))
      BY <3>1 DEF Depth, InDepth
    <3> HIDE DEF d
    <3> QED BY <1>2, <3>2, DepthFacts
  <2>2. vs'[n] = SubSeq(vs[n], 1, k)
    BY <1>1 DEF Unwound
  <2> HIDE DEF d
  <2>3. Len(vs[n]) \in Nat /\ \A j \in 1 .. Len(vs[n]) : vs[n][j] \in Binding
    BY StacksAreBounded, NamesAssumption DEF IInv
  <2>4. k \in Int /\ \A j \in 1 .. k : j \in 1 .. Len(vs[n])
    BY <2>1, <2>3
  <2> HIDE DEF k
  <2>5. /\ Len(SubSeq(vs[n], 1, k)) = IF 1 <= k THEN k - 1 + 1 ELSE 0
        /\ \A j \in 1 .. k - 1 + 1 : SubSeq(vs[n], 1, k)[j] = vs[n][1 + j - 1]
    BY <2>3, <2>4, SubSeqProperties
  <2>6. i \in 1 .. k - 1 + 1 /\ 1 + i - 1 = i
    BY <1>5, <2>2, <2>4, <2>5
  <2> QED BY <2>2, <2>5, <2>6
<1>6. Len(si') <= Len(si) /\ SameBelow(si, si', Len(si'))
  BY <1>2, <1>4
<1> QED BY <1>3, <1>5, <1>6, LeaveStep

LEMMA AnswerStep ==
  ASSUME IInv, IInv', NEW i \in 1 .. Len(si), Answer(i - 1)
  PROVE  Dynamic!Leave
<1>1. i - 1 \in 0 .. Len(si)
  BY Stack
<1> QED BY <1>1, PopStep DEF Answer, Leave

\* Nothing is pushed on the value stacks of the names, a context is.
LEMMA PushStep ==
  ASSUME IInv, IInv', SameText(fn, fn'), NEW h \in {None, Top.held} \cup Readable, running, NEW c,
         si' = Append(Holding(h), c),
         \A n \in Symbols : \A i \in 1 .. Len(vs[n]) : i \in 1 .. Len(vs'[n]) => vs'[n][i] = vs[n][i]
  PROVE  Dynamic!Enter
<1>1. /\ Len(si) \in Nat /\ Len(si) \in 1 .. Len(si) /\ DOMAIN si = 1 .. Len(si)
      /\ si \in Seq(Context) /\ \A i \in 1 .. Len(si) : si[i] \in Context
  BY Stack
<1> DEFINE q == Holding(h)
<1>2. q \in Seq(Context) /\ Len(q) = Len(si)
  BY HoldingInv
<1>3. SameBelow(si, q, Len(si))
  <2>1. \A i \in 1 .. Len(si) : q[i].kind = si[i].kind /\ q[i].fun = si[i].fun
    BY <1>1 DEF Holding, Context
  <2> QED BY <2>1 DEF SameBelow
<1> HIDE DEF q
<1>4. si' = Append(q, c)
  BY DEF q
<1>5. Len(si') = Len(si) + 1 /\ \A i \in 1 .. Len(si) : si'[i] = q[i]
  <2>1. c \in Context
    <3>1. si' \in Seq(Context)
      BY DEF IInv, Sound, Types
    <3>2. Len(si') = Len(si) + 1 /\ si'[Len(si) + 1] = c
      BY <1>1, <1>2, <1>4
    <3>3. Len(si) + 1 \in 1 .. Len(si')
      BY <1>1, <3>2
    <3> QED BY <3>1, <3>2, <3>3, ElementOfSeq
  <2> QED BY <1>1, <1>2, <1>4, <2>1, AppendProperties
<1>6. SameBelow(si, si', Len(si))
  BY <1>3, <1>5 DEF SameBelow
<1> QED BY <1>5, <1>6, EnterStep

-----------------------------------------------------------------------------
(* The actions.                                                            *)

LEMMA TypeStep == ASSUME IInv, IInv', Type PROVE Dynamic!Enter
<1>1. PICK t \in Lambdas \cup {None} : \E l \in Place(t) :
        /\ si' = Append(si, NewContext("statements", None, l, Safe))
        /\ fn' = WithLambda(fn, l, t)
  BY DEF Type
<1>2. PICK l \in Place(t) : /\ si' = Append(si, NewContext("statements", None, l, Safe))
                            /\ fn' = WithLambda(fn, l, t)
  BY <1>1
<1>3. l # None => fn[l] = None
  BY DEF Place, Free, Alive
<1>4. SameText(fn, fn')
  BY <1>2, <1>3, WithLambdaText DEF IInv, Sound, Types
<1>5. vs' = vs
  BY DEF Type
<1> DEFINE c == NewContext("statements", None, l, Safe)
<1>6. si' = Append(si, c) /\ si \in Seq(Context) /\ si' \in Seq(Context) /\ Len(si) \in Nat
  BY <1>2, Stack DEF IInv, Sound, Types
<1> HIDE DEF c
<1>7. Len(si') = Len(si) + 1 /\ \A i \in 1 .. Len(si) : si'[i] = si[i]
  <2>1. c \in Context
    <3>1. Len(si') = Len(si) + 1 /\ si'[Len(si) + 1] = c
      BY <1>6
    <3>2. Len(si) + 1 \in 1 .. Len(si')
      BY <1>6, <3>1
    <3> QED BY <1>6, <3>1, <3>2, ElementOfSeq
  <2> QED BY <1>6, <2>1, AppendProperties
<1> QED BY <1>4, <1>5, <1>7, EnterStep DEF SameBelow

LEMMA ExecuteStep == ASSUME IInv, IInv', Execute PROVE Dynamic!Enter
<1>1. PICK t \in Lambdas \cup {None}, h \in MayHold, s \in {Top.safe, Top.safe + 1} :
        \E l \in Place(t) :
          /\ si' = Append(Holding(h), NewContext("execute", None, l, s))
          /\ fn' = WithLambda(fn, l, t)
  BY DEF Execute
<1>2. PICK l \in Place(t) : /\ si' = Append(Holding(h), NewContext("execute", None, l, s))
                            /\ fn' = WithLambda(fn, l, t)
  BY <1>1
<1>3. l # None => fn[l] = None
  BY DEF Place, Free, Alive
<1>4. SameText(fn, fn')
  BY <1>2, <1>3, WithLambdaText DEF IInv, Sound, Types
<1>5. vs' = vs /\ running /\ h \in {None, Top.held} \cup Readable
  BY DEF Execute, MayHold
<1> QED BY <1>2, <1>4, <1>5, PushStep

LEMMA CallStep ==
  ASSUME IInv, IInv', running, NEW o, NEW h \in {None, Top.held} \cup Readable, Enter(o, h)
  PROVE  Dynamic!Enter
<1>1. /\ fn' = fn /\ vs' = Localising(fn[o].text.locals)
      /\ si' = Append(Holding(h), NewContext("function", o, None, Top.safe))
  BY DEF Enter
<1>2. SameText(fn, fn')
  BY <1>1 DEF SameText
<1>3. ASSUME NEW n \in Symbols, NEW i \in 1 .. Len(vs[n]), i \in 1 .. Len(vs'[n])
      PROVE  vs'[n][i] = vs[n][i]
  <2> DEFINE b == fn[o].text.locals[n]
  <2>1. vs'[n] = vs[n] \/ vs'[n] = Append(vs[n], b)
    BY <1>1 DEF Localising
  <2> HIDE DEF b
  <2>2. vs[n] \in Seq(Binding) /\ Len(vs[n]) \in Nat
    BY StacksAreBounded DEF IInv
  <2>3. Append(vs[n], b)[i] = vs[n][i]
    BY <2>2
  <2> QED BY <2>1, <2>3
<1> QED BY <1>1, <1>2, <1>3, PushStep

LEMMA CallsStep == ASSUME IInv, IInv', Call \/ CallHeld PROVE Dynamic!Enter
<1>1. CASE Call
  <2>1. PICK o \in Readable, h \in MayHold : Enter(o, h)
    BY <1>1 DEF Call
  <2>2. running /\ h \in {None, Top.held} \cup Readable
    BY <1>1 DEF Call, MayHold
  <2> QED BY <2>1, <2>2, CallStep
<1>2. CASE CallHeld
  <2>1. PICK h \in {None} \cup Readable : Enter(Top.held, h)
    BY <1>2 DEF CallHeld
  <2>2. running /\ h \in {None, Top.held} \cup Readable
    BY <1>2 DEF CallHeld
  <2> QED BY <2>1, <2>2, CallStep
<1> QED BY <1>1, <1>2

LEMMA ReturnStep == ASSUME IInv, IInv', Return PROVE Dynamic!Leave
<1>1. running /\ Answer(Len(si) - 1)
  BY DEF Return
<1>2. Len(si) \in 1 .. Len(si)
  BY <1>1, Stack
<1> QED BY <1>1, <1>2, AnswerStep

LEMMA AttentionStep == ASSUME IInv, IInv', Attention PROVE Dynamic!Leave
<1> DEFINE m == IF Top.kind = "statements" THEN Len(si) ELSE Len(si) - 1
<1>1. running /\ PopTo(m, Below(m))
  BY DEF Attention
<1>2. m \in 0 .. Len(si)
  BY <1>1, Stack
<1> HIDE DEF m
<1> QED BY <1>1, <1>2, PopStep

LEMMA ErrorStep == ASSUME IInv, IInv', Error PROVE Dynamic!Leave
<1>1. DOMAIN si = 1 .. Len(si) /\ Len(si) \in Nat
  BY Stack
<1>2. CASE Safe > 0
  <2>1. PICK i \in DOMAIN si : Answer(i - 1)
    BY <1>2 DEF Error
  <2> QED BY <1>1, <2>1, AnswerStep
<1>3. CASE ~(Safe > 0)
  <2>1. PICK m \in Latest({ i \in DOMAIN si : Suspends(si[i]) }) : PopTo(m, Below(m))
    BY <1>3 DEF Error, Leave
  <2>2. m \in 0 .. Len(si)
    BY <1>1 DEF Latest
  <2> QED BY <2>1, <2>2, PopStep
<1> QED BY <1>2, <1>3

LEMMA BranchStep == ASSUME IInv, IInv', Branch PROVE Dynamic!Leave \/ UNCHANGED ScopesOfSI
<1>1. /\ running /\ DOMAIN si = 1 .. Len(si) /\ Len(si) \in Nat
      /\ Len(si) \in 1 .. Len(si) /\ Len(si) \in 0 .. Len(si) /\ Len(si) > 0
  BY Stack DEF Branch
<1>2. CASE Top.kind = "function"
  <2>1. PopTo(Len(si), Holding(None))
    BY <1>2 DEF Branch, Leave
  <2>2. Below(Len(si)) = si
    BY Stack DEF Below
  <2>3. Holding(None) = [Below(Len(si)) EXCEPT ![Len(si)].held = None]
    BY <2>2 DEF Holding
  <2> QED BY <1>1, <2>1, <2>3, PopStep
<1>3. CASE Top.kind # "function" /\ SafeStart(Len(si))
  <2>1. Answer(Len(si) - 1)
    BY <1>3 DEF Branch
  <2> QED BY <1>1, <2>1, AnswerStep
<1>4. CASE Top.kind # "function" /\ ~SafeStart(Len(si)) /\ OfKind("function") # {}
  <2>1. PICK m \in Latest(OfKind("function")) : PopTo(m, [Below(m) EXCEPT ![m].held = None])
    BY <1>4 DEF Branch, Leave
  <2>2. m \in 0 .. Len(si) /\ m > 0
    BY <1>1 DEF Latest, OfKind
  <2> QED BY <2>1, <2>2, PopStep
<1>5. CASE Top.kind # "function" /\ ~SafeStart(Len(si)) /\ ~(OfKind("function") # {})
  <2>1. vs' = vs /\ si' = si /\ fn' = fn
    BY <1>5 DEF Branch, Leave
  <2> QED BY <2>1, ScopesWritten
<1> QED BY <1>2, <1>3, <1>4, <1>5

LEMMA RetryStep == ASSUME IInv, IInv', Retry PROVE Dynamic!Leave
<1>1. Len(si) > 1 /\ PopTo(Len(si) - 1, Below(Len(si) - 1))
  BY DEF Retry, Leave
<1>2. Len(si) - 1 \in 0 .. Len(si)
  BY <1>1, Stack
<1> QED BY <1>1, <1>2, PopStep

LEMMA EscapeStep == ASSUME IInv, IInv', Escape PROVE Dynamic!Leave
<1>1. Len(si) \in Nat /\ DOMAIN si = 1 .. Len(si) /\ Len(si) \in 1 .. Len(si)
  <2>1. si # <<>>
    BY DEF Escape
  <2> QED BY <2>1, Stack, EmptySeq
<1>2. CASE running /\ SafeStart(Len(si))
  <2>1. Answer(Len(si) - 1)
    BY <1>2 DEF Escape
  <2> QED BY <1>1, <2>1, AnswerStep
<1>3. CASE ~(running /\ SafeStart(Len(si)))
  <2>1. PICK m \in Latest(OfKind("statements")) : PopTo(m-1, Below(m-1))
    BY <1>3 DEF Escape, Leave
  <2>2. m-1 \in 0 .. Len(si)
    BY <1>1 DEF Latest, OfKind
  <2> QED BY <2>1, <2>2, PopStep
<1> QED BY <1>2, <1>3

LEMMA ClearSIStep == ASSUME IInv, IInv', ClearSI PROVE Dynamic!Leave
<1>1. PopTo(0, <<>>)
  BY DEF ClearSI, Leave
<1>2. Below(0) = <<>> /\ 0 \in 0 .. Len(si)
  BY Stack DEF Below
<1> QED BY <1>1, <1>2, PopStep

\* The workspace in which no name is used
LEMMA ClearScopes ==
  ASSUME NEW f
  PROVE  AllScopes([n \in Symbols |-> <<"unused">>], f, <<>>) = <<Dynamic!Workspace>>
<1>1. Global([n \in Symbols |-> <<"unused">>]) = Dynamic!Workspace
  BY DEF Global, Dynamic!Workspace
<1> DEFINE g == Global([n \in Symbols |-> <<"unused">>])
<1> HIDE DEF g
<1>2. AllScopes([n \in Symbols |-> <<"unused">>], f, <<>>) = <<g>> \o [i \in DOMAIN <<>> |-> ScopeAt([n \in Symbols |-> <<"unused">>], f, <<>>, i)]
  BY DEF AllScopes, g
<1> DEFINE e == [i \in DOMAIN <<>> |-> ScopeAt([n \in Symbols |-> <<"unused">>], f, <<>>, i)]
<1>3. e = <<>>
  OBVIOUS
<1> HIDE DEF e
<1>4. <<g>> \o <<>> = <<g>>
  <2>1. <<g>> \in Seq({g})
    OBVIOUS
  <2> QED BY <2>1, ConcatEmptySeq
<1> QED BY <1>1, <1>2, <1>3, <1>4 DEF g, e

LEMMA ClearWSStep == ASSUME ClearWS PROVE Dynamic!Clear
<1>1. vs' = [n \in Symbols |-> <<"unused">>] /\ si' = <<>>
  BY DEF ClearWS
<1> QED BY <1>1, ClearScopes, ScopesWritten DEF Dynamic!Clear

\* Functions are deleted, or lambdas lose an owner, when a name is bound anew.
LEMMA LostText ==
  ASSUME IInv, NEW o
  PROVE  SameText(fn, fn) /\ SameText(fn, Released(fn, {o})) /\ SameText(fn, Deleted(fn, o))
<1>1. fn \in [Objects -> Object \cup {None}]
  BY DEF IInv, Sound, Types
<1>2. SameText(fn, fn)
  BY DEF SameText
<1> QED BY <1>1, <1>2, ReleasedText, DeletedText, ShrunkText

LEMMA AssignStep == ASSUME IInv, IInv', NEW n \in Symbols, Assign(n) PROVE Dynamic!Bind
<1>1. Rebind(n, "value", fn, expunged) /\ "value" \in Binding
  BY DEF Assign, Binding
<1> QED BY <1>1, LostText, BindStep

LEMMA AssignLambdaStep == ASSUME IInv, IInv', NEW n \in Symbols, AssignLambda(n) PROVE Dynamic!Bind
<1> DEFINE l == Body(Top)
<1>1. running /\ l # None /\ Rebind(n, l, Gained(fn, l), expunged)
  BY DEF AssignLambda
<1>2. l \in Readable \cup {Top.held}
  BY <1>1 DEF Readable
<1>3. l \in Binding /\ l \in Objects /\ fn[l] # None
  BY <1>1, <1>2, ReadableFacts DEF Binding
<1> HIDE DEF l
<1>4. SameText(fn, Gained(fn, l))
  <2>1. fn \in [Objects -> Object \cup {None}]
    BY DEF IInv, Sound, Types
  <2>2. fn[l] \in Object
    BY <1>3, <2>1
  <2>3. [fn[l] EXCEPT !.owners = @ + 1].text = fn[l].text
    BY <2>2 DEF Object
  <2>4. \A o \in Objects : Gained(fn, l)[o] = IF o = l THEN [fn[l] EXCEPT !.owners = @ + 1] ELSE fn[o]
    BY <1>3, <2>1 DEF Gained
  <2> QED BY <2>3, <2>4 DEF SameText
<1> QED BY <1>1, <1>3, <1>4, BindStep

LEMMA ExpungeStep == ASSUME IInv, IInv', NEW n \in Symbols, Expunge(n) PROVE Dynamic!Bind
<1>1. "unused" \in Binding
  BY DEF Binding
<1>2. CASE Rebind(n, "unused", fn, expunged)
  BY <1>1, <1>2, LostText, BindStep
<1>3. CASE Rebind(n, "unused", Released(fn, {Bound(n)}), expunged)
  BY <1>1, <1>3, LostText, BindStep
<1>4. CASE Rebind(n, "unused", fn, expunged \cup {Bound(n)})
  BY <1>1, <1>4, LostText, BindStep
<1>5. CASE Rebind(n, "unused", Deleted(fn, Bound(n)), expunged)
  BY <1>1, <1>5, LostText, BindStep
<1> QED BY <1>2, <1>3, <1>4, <1>5 DEF Expunge

LEMMA EraseStep == ASSUME IInv, IInv', NEW n \in Symbols, Erase(n) PROVE Dynamic!Bind
<1>1. "unused" \in Binding
  BY DEF Binding
<1>2. CASE Rebind(n, "unused", fn, expunged)
  BY <1>1, <1>2, LostText, BindStep
<1>3. CASE Rebind(n, "unused", Released(fn, {Bound(n)}), expunged)
  BY <1>1, <1>3, LostText, BindStep
<1>4. CASE Rebind(n, "unused", Deleted(fn, Bound(n)), expunged)
  BY <1>1, <1>4, LostText, BindStep
<1>5. \/ Rebind(n, "unused", fn, expunged)
      \/ Rebind(n, "unused", IF IsLambda(Bound(n)) THEN Released(fn, {Bound(n)}) ELSE Deleted(fn, Bound(n)), expunged)
  BY DEF Erase
<1>6. CASE IsLambda(Bound(n))
  BY <1>2, <1>3, <1>5, <1>6
<1>7. CASE ~IsLambda(Bound(n))
  BY <1>2, <1>4, <1>5, <1>7
<1> QED BY <1>6, <1>7

LEMMA FixStep == ASSUME IInv, IInv', NEW t \in Functions, Fix(t) PROVE Dynamic!Bind
<1> DEFINE n == t.name
           old == IF IsFunction(n) THEN Bound(n) ELSE None
           f == IF old = None THEN fn ELSE Deleted(fn, old)
<1>1. n \in Symbols /\ fn \in [Objects -> Object \cup {None}]
  BY NamesAssumption DEF IInv, Sound, Types
<1>2. PICK o \in Free, l \in Place(t.lambda) : Rebind(n, o, WithFunction(f, o, t, l), expunged)
  BY DEF Fix
<1>3. f \in [Objects -> Object \cup {None}] /\ Shrunk(fn, f)
  <2>1. Shrunk(fn, fn)
    BY DEF Shrunk
  <2> HIDE DEF old
  <2> QED BY <1>1, <2>1, DeletedText
<1> HIDE DEF f, n
<1>4. /\ o \in Objects /\ fn[o] = None /\ o \in Binding
      /\ l # None => l \in Objects /\ fn[l] = None
  BY <1>2 DEF Free, Alive, Place, Binding
<1>5. SameText(fn, WithFunction(f, o, t, l))
  BY <1>1, <1>3, <1>4, WithFunctionText
<1> QED BY <1>1, <1>2, <1>4, <1>5, BindStep

\* )CHECK changes no scope, and Scopes may leave none.
LEMMA CheckStep == ASSUME IInv, IInv', Check PROVE Dynamic!Leave
<1> DEFINE g == [o \in Objects |-> IF o \in expunged THEN None ELSE fn[o]]
           ls == Bodies([o \in Objects |-> IF o \in expunged THEN fn[o] ELSE None])
<1>1. si' = si /\ vs' = vs /\ fn' = Kept(Released(g, ls), vs, si, {})
  BY DEF Check
<1>2. g \in [Objects -> Object \cup {None}] /\ Shrunk(fn, g)
  BY DEF IInv, Sound, Types, Shrunk
<1> HIDE DEF g, ls
<1>3. Shrunk(g, Released(g, ls))
  BY <1>2, ReleasedText
<1>4. Shrunk(fn, Released(g, ls))
  BY <1>2, <1>3 DEF Shrunk
<1>5. SameText(fn, fn')
  BY <1>1, <1>4, ShrunkText, KeptText
<1>6. Len(si') <= Len(si) /\ SameBelow(si, si', Len(si'))
  BY <1>1, Stack DEF SameBelow
<1> QED BY <1>1, <1>5, <1>6, LeaveStep

LEMMA NextStep == ASSUME IInv, IInv', [Next]_vars PROVE [Dynamic!Next]_ScopesOfSI
<1>1. CASE Type \/ Execute \/ Call \/ CallHeld
  <2>1. Dynamic!Enter
    BY <1>1, TypeStep, ExecuteStep, CallsStep
  <2> QED BY <2>1 DEF Dynamic!Next
<1>2. CASE Return \/ Attention \/ Error
  <2>1. Dynamic!Leave
    BY <1>2, ReturnStep, AttentionStep, ErrorStep
  <2> QED BY <2>1 DEF Dynamic!Next
<1>3. CASE Branch
  BY <1>3, BranchStep DEF Dynamic!Next
<1>4. CASE Retry \/ Escape \/ ClearSI \/ Check
  <2>1. Dynamic!Leave
    BY <1>4, RetryStep, EscapeStep, ClearSIStep, CheckStep
  <2> QED BY <2>1 DEF Dynamic!Next
<1>5. CASE ClearWS
  BY <1>5, ClearWSStep DEF Dynamic!Next
<1>6. ASSUME NEW n \in Symbols, Assign(n) \/ AssignLambda(n) \/ Expunge(n) \/ Erase(n)
      PROVE  Dynamic!Bind
  BY <1>6, AssignStep, AssignLambdaStep, ExpungeStep, EraseStep
<1>7. ASSUME NEW t \in Functions, Fix(t)
      PROVE  Dynamic!Bind
  BY <1>7, FixStep
<1>8. Dynamic!Bind => Dynamic!Next
  BY DEF Dynamic!Next
<1>9. CASE UNCHANGED vars
  BY <1>9, ScopesWritten DEF vars
<1> QED BY <1>1, <1>2, <1>3, <1>4, <1>5, <1>6, <1>7, <1>8, <1>9 DEF Next

LEMMA InitStep == Init => Dynamic!Init
<1> SUFFICES ASSUME Init PROVE Dynamic!Init
  OBVIOUS
<1>1. vs = [n \in Symbols |-> <<"unused">>] /\ si = <<>>
  BY DEF Init
<1> QED BY <1>1, ClearScopes, ScopesWritten DEF Dynamic!Init

-----------------------------------------------------------------------------
\* Value stacks, contexts and function objects implement dynamic scope: a call
\* has bindings of its own for the names it localises, an assignment or a new
\* function changes the innermost binding of its name and no other, and what a
\* call hid is back unchanged when it leaves, however it leaves and whatever
\* became of the functions on the stack, if nobody expunges a lambda that is
\* executing or a function that waits for its call, and no name that shares a
\* lambda with a body is redefined.
THEOREM NamesImplementScopes == ASSUME Careful PROVE Spec => DynamicScope
<1>1. IInv /\ IInv' /\ [Next]_vars => [Dynamic!Next]_ScopesOfSI
  BY NextStep
<1> QED BY <1>1, InitStep, Invariance, PTL DEF Spec, DynamicScope, Dynamic!Spec
=============================================================================
