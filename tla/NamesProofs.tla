------------------------------ MODULE NamesProofs ------------------------------
(***************************************************************************)
(* Proofs about Names, for all names, functions, lambdas and objects, and  *)
(* any depth of the stack.                                                 *)
(*                                                                         *)
(* The invariant is stated for value stacks v, functions f, contexts s and *)
(* expunged functions e, which need not be those of a state: an action is  *)
(* a few changes one after the other, and each of them preserves it.       *)
(***************************************************************************)
EXTENDS Names, FiniteSetTheorems, SequenceTheorems, TLAPS

-----------------------------------------------------------------------------
(* The invariant.                                                          *)

Lambda(f, o) == f[o].text \in Lambdas

Types(v, f, s, e) ==
  /\ v \in [Symbols -> Seq(Binding)]
  /\ f \in [Objects -> Object \cup {None}]
  /\ s \in Seq(Context) /\ Len(s) <= MaxDepth
  /\ e \subseteq Objects
  /\ \A i \in 1 .. Len(s) :
       /\ s[i].kind = "function" <=> s[i].fun # None
       /\ s[i].fun # None => s[i].part = None

\* Localised, Depth and Body, of any functions and contexts
LocalisedIn(f, c) == IF c.kind = "function" /\ f[c.fun] # None THEN DOMAIN f[c.fun].text.locals ELSE {}
InDepth(f, s, n, P) == { i \in P : n \in LocalisedIn(f, s[i]) }
BodyIn(f, c) == IF c.fun = None THEN c.part ELSE f[c.fun].part

ScopesIn(v, f, s) ==
  \A n \in Symbols : Len(v[n]) = 1 + Cardinality(InDepth(f, s, n, 1 .. Len(s)))

AliveIn(v, f, s, e) == \A o \in Objects : o \in Referred(v, f, s, e) => f[o] # None

\* Bodies and statements have lambdas, and lambdas have none.
PartsIn(f, s) ==
  /\ \A o \in Objects : f[o] # None /\ f[o].part # None => ~Lambda(f, o) /\ Lambda(f, f[o].part)
  /\ \A i \in 1 .. Len(s) : s[i].part # None => Lambda(f, s[i].part)

OwnedIn(v, f, s) ==
  \A l \in Objects : f[l] # None /\ Lambda(f, l) => f[l].owners >= Cardinality(Shares(v, f, s, l))

\* The shares of bodies and statements, and a lambda that has another owner
BodyShares(f, s, l) ==
  { <<o, 0>> : o \in { p \in Objects : f[p] # None /\ f[p].part = l } }
  \cup { <<None, i>> : i \in { j \in DOMAIN s : s[j].part = l } }
Spare(f, s, l) == f[l].owners >= Cardinality(BodyShares(f, s, l)) + 1

\* A lambda that is executing or was read is in the body that has called or
\* read it, or has an owner that is not a body.
InUse(f, s) ==
  \A i \in 1 .. Len(s) :
    /\ s[i].fun # None /\ Lambda(f, s[i].fun) =>
         \/ i > 1 /\ BodyIn(f, s[i-1]) = s[i].fun
         \/ Spare(f, s, s[i].fun)
    /\ s[i].held # None /\ Lambda(f, s[i].held) =>
         \/ BodyIn(f, s[i]) = s[i].held
         \/ Spare(f, s, s[i].held)

\* A defined function is bound once, and not at all when it was expunged.
BoundOnce(v, f, e) ==
  /\ \A o \in Objects : f[o] # None /\ ~Lambda(f, o) =>
       /\ \A p, q \in Named(v, o) : p = q
       /\ o \in e => Named(v, o) = {}
  /\ \A o \in e : ~Lambda(f, o)

Sound(v, f, s, e) ==
  /\ Types(v, f, s, e)
  /\ ScopesIn(v, f, s)
  /\ AliveIn(v, f, s, e)
  /\ PartsIn(f, s)
  /\ OwnedIn(v, f, s)
  /\ InUse(f, s)
  /\ BoundOnce(v, f, e)

-----------------------------------------------------------------------------
(* Counting.                                                               *)

LEMMA FunctionsAreNotLambdas == Functions \cap Lambdas = {}
  BY NamesAssumption

LEMMA ContextFields ==
  ASSUME NEW v, NEW f, NEW s, NEW e, Types(v, f, s, e)
  PROVE  /\ Len(s) \in Nat
         /\ DOMAIN s = 1 .. Len(s)
         /\ \A i \in 1 .. Len(s) :
              /\ s[i] \in Context
              /\ s[i].kind \in {"statements", "execute", "function"}
              /\ s[i].fun \in Objects \cup {None}
              /\ s[i].part \in Objects \cup {None}
              /\ s[i].held \in Objects \cup {None}
              /\ s[i].safe \in Nat
<1>1. s \in Seq(Context)
  BY DEF Types
<1>2. Len(s) \in Nat /\ DOMAIN s = 1 .. Len(s) /\ \A i \in 1 .. Len(s) : s[i] \in Context
  BY <1>1, LenProperties, ElementOfSeq
<1> QED BY <1>2 DEF Context

LEMMA SharesFinite ==
  ASSUME NEW v, NEW f, NEW s, NEW l, Len(s) \in Nat, DOMAIN s = 1 .. Len(s)
  PROVE  /\ IsFiniteSet(Named(v, l))
         /\ IsFiniteSet(BodyShares(f, s, l))
         /\ IsFiniteSet(Shares(v, f, s, l))
         /\ Cardinality(Named(v, l)) \in Nat
         /\ Cardinality(BodyShares(f, s, l)) \in Nat
         /\ Cardinality(Shares(v, f, s, l)) \in Nat
         /\ Shares(v, f, s, l) = Named(v, l) \cup BodyShares(f, s, l)
<1>1. IsFiniteSet(Symbols \X (1 .. MaxDepth + 1))
  <2>1. MaxDepth + 1 \in Int /\ IsFiniteSet(Symbols)
    BY NamesAssumption
  <2>2. IsFiniteSet(1 .. MaxDepth + 1)
    BY <2>1, FS_Interval
  <2> QED BY <2>1, <2>2, FS_Product
<1>2. Named(v, l) \subseteq Symbols \X (1 .. MaxDepth + 1)
  BY DEF Named
<1>3. IsFiniteSet(Named(v, l))
  BY <1>1, <1>2, FS_Subset
<1>4. IsFiniteSet(Objects \X {0})
  BY NamesAssumption, FS_Singleton, FS_Product
<1>5. IsFiniteSet({None} \X (1 .. Len(s)))
  <2>1. IsFiniteSet(1 .. Len(s))
    BY FS_Interval
  <2> QED BY <2>1, FS_Singleton, FS_Product
<1>6. BodyShares(f, s, l) \subseteq (Objects \X {0}) \cup ({None} \X (1 .. Len(s)))
  BY DEF BodyShares
<1>7. IsFiniteSet(BodyShares(f, s, l))
  BY <1>4, <1>5, <1>6, FS_Union, FS_Subset
<1>8. Shares(v, f, s, l) = Named(v, l) \cup BodyShares(f, s, l)
  BY DEF Shares, BodyShares
<1>9. IsFiniteSet(Shares(v, f, s, l))
  BY <1>3, <1>7, <1>8, FS_Union
<1>10. Cardinality(Named(v, l)) \in Nat
  BY <1>3, FS_CardinalityType
<1>11. Cardinality(BodyShares(f, s, l)) \in Nat
  BY <1>7, FS_CardinalityType
<1>12. Cardinality(Shares(v, f, s, l)) \in Nat
  BY <1>9, FS_CardinalityType
<1> QED BY <1>3, <1>7, <1>8, <1>9, <1>10, <1>11, <1>12

\* A set is smaller than one that has its elements and one more.
LEMMA Fewer ==
  ASSUME NEW S, IsFiniteSet(S), NEW T, T \subseteq S
  PROVE  /\ IsFiniteSet(T)
         /\ Cardinality(T) <= Cardinality(S)
         /\ Cardinality(T) \in Nat /\ Cardinality(S) \in Nat
         /\ \A x \in S \ T : Cardinality(T) + 1 <= Cardinality(S)
<1>1. IsFiniteSet(T) /\ Cardinality(T) <= Cardinality(S)
  BY FS_Subset
<1>2. Cardinality(T) \in Nat /\ Cardinality(S) \in Nat
  BY <1>1, FS_CardinalityType
<1>3. ASSUME NEW x \in S \ T PROVE Cardinality(T) + 1 <= Cardinality(S)
  <2>1. IsFiniteSet(S \ {x}) /\ Cardinality(S \ {x}) = Cardinality(S) - 1
    BY <1>3, FS_RemoveElement
  <2>2. T \subseteq S \ {x}
    BY <1>3
  <2>3. Cardinality(T) <= Cardinality(S \ {x})
    BY <2>1, <2>2, FS_Subset
  <2> QED BY <1>2, <2>1, <2>3
<1> QED BY <1>1, <1>2, <1>3

LEMMA DepthFacts ==
  ASSUME NEW f, NEW s, NEW n, NEW a \in Int, NEW b \in Int
  PROVE  /\ IsFiniteSet(InDepth(f, s, n, a .. b))
         /\ Cardinality(InDepth(f, s, n, a .. b)) \in Nat
         /\ Cardinality(InDepth(f, s, n, a .. b)) <= IF a > b THEN 0 ELSE b - a + 1
<1>1. IsFiniteSet(a .. b) /\ Cardinality(a .. b) = IF a > b THEN 0 ELSE b - a + 1
  BY FS_Interval
<1>2. InDepth(f, s, n, a .. b) \subseteq a .. b
  BY DEF InDepth
<1> QED BY <1>1, <1>2, Fewer

\* Value stacks are not longer than the positions that Named looks at.
LEMMA StacksAreBounded ==
  ASSUME NEW v, NEW f, NEW s, NEW e, Sound(v, f, s, e), NEW n \in Symbols
  PROVE  /\ v[n] \in Seq(Binding)
         /\ Len(v[n]) \in 1 .. MaxDepth + 1
         /\ DOMAIN v[n] = 1 .. Len(v[n])
         /\ \A i \in 1 .. Len(v[n]) : v[n][i] \in Binding
<1>1. v[n] \in Seq(Binding) /\ Types(v, f, s, e)
  BY DEF Sound, Types
<1>2. Len(v[n]) \in Nat /\ DOMAIN v[n] = 1 .. Len(v[n]) /\ \A i \in 1 .. Len(v[n]) : v[n][i] \in Binding
  BY <1>1, LenProperties, ElementOfSeq
<1>3. Len(s) \in Nat /\ Len(s) <= MaxDepth
  BY <1>1, ContextFields DEF Types
<1>4. Len(v[n]) = 1 + Cardinality(InDepth(f, s, n, 1 .. Len(s)))
  BY DEF Sound, ScopesIn
<1>5. /\ Cardinality(InDepth(f, s, n, 1 .. Len(s))) \in Nat
      /\ Cardinality(InDepth(f, s, n, 1 .. Len(s))) <= Len(s)
  BY <1>3, DepthFacts
<1>6. MaxDepth \in Nat
  BY NamesAssumption
<1> QED BY <1>1, <1>2, <1>3, <1>4, <1>5, <1>6
-----------------------------------------------------------------------------
(* What takes references away.                                             *)

\* Contexts were popped, names lost or changed bindings that are no functions,
\* objects were deleted or lost or got owners.
Lesser(v, f, s, e, w, g, r, d) ==
  /\ Types(w, g, r, d)
  /\ Len(r) <= Len(s) /\ \A i \in 1 .. Len(r) : r[i] = s[i]
  /\ \A n \in Symbols : \A i \in 1 .. Len(w[n]) :
       w[n][i] \in Objects => i \in 1 .. Len(v[n]) /\ w[n][i] = v[n][i]
  /\ d \subseteq e
  /\ \A o \in Objects : g[o] # None => f[o] # None /\ g[o].text = f[o].text /\ g[o].part = f[o].part

\* What refers to an object afterwards did so before.
LEMMA FewerReferences ==
  ASSUME NEW v, NEW f, NEW s, NEW e, Sound(v, f, s, e),
         NEW w, NEW g, NEW r, NEW d, Lesser(v, f, s, e, w, g, r, d), NEW o \in Objects
  PROVE  /\ o \in Referred(w, g, r, d) => o \in Referred(v, f, s, e)
         /\ Named(w, o) \subseteq Named(v, o)
         /\ BodyShares(g, r, o) \subseteq BodyShares(f, s, o)
         /\ Shares(w, g, r, o) \subseteq Shares(v, f, s, o)
<1>1. /\ DOMAIN r = 1 .. Len(r) /\ Len(r) \in Nat
      /\ DOMAIN s = 1 .. Len(s) /\ Len(s) \in Nat
      /\ Len(r) <= Len(s) /\ \A i \in 1 .. Len(r) : r[i] = s[i]
  BY ContextFields DEF Sound, Lesser
<1>2. \A i \in DOMAIN r : i \in DOMAIN s /\ r[i] = s[i]
  BY <1>1
<1>3. \A n \in Symbols : /\ DOMAIN v[n] = 1 .. Len(v[n])
                         /\ DOMAIN w[n] = 1 .. Len(w[n])
  BY LenProperties DEF Sound, Lesser, Types
<1>4. \A n \in Symbols : \A i \in DOMAIN w[n] : w[n][i] = o => i \in DOMAIN v[n] /\ v[n][i] = o
  BY <1>3 DEF Lesser
<1>5. \A p \in Objects : g[p] # None => f[p] # None /\ g[p].part = f[p].part
  BY DEF Lesser
<1>6. Named(w, o) \subseteq Named(v, o)
  BY <1>4 DEF Named
<1>7. BodyShares(g, r, o) \subseteq BodyShares(f, s, o)
  BY <1>2, <1>5 DEF BodyShares
<1>8. o \in OnStacks(w) => o \in OnStacks(v)
  BY <1>4 DEF OnStacks
<1>9. o \in Bodies(g) => o \in Bodies(f)
  BY <1>5 DEF Bodies
<1>10. o \in InContexts(r) => o \in InContexts(s)
  BY <1>2 DEF InContexts
<1>11. d \subseteq e
  BY DEF Lesser
<1>12. o \in Referred(w, g, r, d) => o \in Referred(v, f, s, e)
  BY <1>8, <1>9, <1>10, <1>11 DEF Referred
<1> QED BY <1>1, <1>6, <1>7, <1>12, SharesFinite

\* A context localises the same names as long as its function is not deleted.
LEMMA SameDepth ==
  ASSUME NEW v, NEW f, NEW s, NEW e, Sound(v, f, s, e),
         NEW w, NEW g, NEW r, NEW d, Lesser(v, f, s, e, w, g, r, d), AliveIn(w, g, r, d),
         NEW n, NEW a \in Nat, NEW b \in Nat, a >= 1, b <= Len(r)
  PROVE  InDepth(g, r, n, a .. b) = InDepth(f, s, n, a .. b)
<1>1. ASSUME NEW i \in a .. b PROVE LocalisedIn(g, r[i]) = LocalisedIn(f, s[i])
  <2>1. i \in 1 .. Len(r) /\ r[i] = s[i] /\ DOMAIN r = 1 .. Len(r)
    BY <1>1, ContextFields DEF Lesser
  <2>2. CASE r[i].kind = "function"
    <3>1. r[i].fun \in Objects
      <4>1. Types(w, g, r, d)
        BY DEF Lesser
      <4>2. r[i].fun \in Objects \cup {None}
        BY <2>1, <4>1, ContextFields
      <4> QED BY <2>1, <2>2, <4>1, <4>2 DEF Types
    <3>2. r[i].fun \in InContexts(r)
      BY <2>1 DEF InContexts
    <3>3. g[r[i].fun] # None
      BY <3>1, <3>2 DEF AliveIn, Referred
    <3> QED BY <2>1, <3>1, <3>3 DEF Lesser, LocalisedIn
  <2> QED BY <2>1, <2>2 DEF LocalisedIn
<1> QED BY <1>1 DEF InDepth

\* What is left is sound if the objects still referred to are alive, lambdas
\* count their owners, and those in use keep an owner.
LEMMA Lessen ==
  ASSUME NEW v, NEW f, NEW s, NEW e, Sound(v, f, s, e),
         NEW w, NEW g, NEW r, NEW d, Lesser(v, f, s, e, w, g, r, d),
         \A n \in Symbols : Len(w[n]) = 1 + Cardinality(InDepth(f, s, n, 1 .. Len(r))),
         AliveIn(w, g, r, d),
         OwnedIn(w, g, r),
         \A i \in 1 .. Len(r), o \in Objects :
           /\ o = r[i].fun \/ o = r[i].held
           /\ g[o] # None /\ Lambda(g, o) /\ Spare(f, s, o)
           => Spare(g, r, o)
  PROVE  Sound(w, g, r, d)
<1>1. /\ DOMAIN r = 1 .. Len(r) /\ Len(r) \in Nat
      /\ DOMAIN s = 1 .. Len(s) /\ Len(s) \in Nat
      /\ Len(r) <= Len(s) /\ \A i \in 1 .. Len(r) : r[i] = s[i]
  BY ContextFields DEF Sound, Lesser
<1>2. \A i \in 1 .. Len(r) : i \in 1 .. Len(s) /\ r[i] = s[i]
  BY <1>1
<1>3. \A o \in Objects : g[o] # None => f[o] # None /\ g[o].text = f[o].text /\ g[o].part = f[o].part
  BY DEF Lesser
<1>4. ScopesIn(w, g, r)
  <2> SUFFICES ASSUME NEW n \in Symbols PROVE Len(w[n]) = 1 + Cardinality(InDepth(g, r, n, 1 .. Len(r)))
    BY DEF ScopesIn
  <2>1. InDepth(g, r, n, 1 .. Len(r)) = InDepth(f, s, n, 1 .. Len(r))
    BY <1>1, SameDepth
  <2> QED BY <2>1
<1>5. \A i \in 1 .. Len(r) : /\ r[i].fun \in Objects => g[r[i].fun] # None
                             /\ r[i].part \in Objects => g[r[i].part] # None
                             /\ r[i].held \in Objects => g[r[i].held] # None
  BY <1>1 DEF AliveIn, Referred, InContexts
<1>6. \A o \in Objects : g[o] # None /\ g[o].part \in Objects => g[g[o].part] # None
  BY DEF AliveIn, Referred, Bodies
<1>7. \A o \in Objects : g[o] # None => g[o].part \in Objects \cup {None}
  BY DEF Lesser, Types, Object
<1>8. \A i \in 1 .. Len(r) : /\ r[i].fun \in Objects \cup {None}
                             /\ r[i].part \in Objects \cup {None}
                             /\ r[i].held \in Objects \cup {None}
  BY ContextFields DEF Lesser
<1>9. PartsIn(g, r)
  <2>1. ASSUME NEW o \in Objects, g[o] # None, g[o].part # None
        PROVE  ~Lambda(g, o) /\ Lambda(g, g[o].part)
    BY <1>3, <1>6, <1>7, <2>1 DEF Sound, PartsIn, Lambda
  <2>2. ASSUME NEW i \in 1 .. Len(r), r[i].part # None PROVE Lambda(g, r[i].part)
    <3>1. Lambda(f, s[i].part)
      BY <1>2, <2>2 DEF Sound, PartsIn
    <3>2. r[i].part \in Objects /\ g[r[i].part] # None
      BY <1>5, <1>8, <2>2
    <3> QED BY <1>2, <1>3, <3>1, <3>2 DEF Lambda
  <2> QED BY <2>1, <2>2 DEF PartsIn
<1>10. InUse(g, r)
  <2> SUFFICES ASSUME NEW i \in 1 .. Len(r)
               PROVE  /\ r[i].fun # None /\ Lambda(g, r[i].fun) =>
                           \/ i > 1 /\ BodyIn(g, r[i-1]) = r[i].fun
                           \/ Spare(g, r, r[i].fun)
                      /\ r[i].held # None /\ Lambda(g, r[i].held) =>
                           \/ BodyIn(g, r[i]) = r[i].held
                           \/ Spare(g, r, r[i].held)
    BY DEF InUse
  <2>1. \A j \in 1 .. Len(r) : BodyIn(g, r[j]) = BodyIn(f, s[j])
    BY <1>2, <1>3, <1>5, <1>8 DEF BodyIn
  <2>2. ASSUME r[i].fun # None, Lambda(g, r[i].fun)
        PROVE  \/ i > 1 /\ BodyIn(g, r[i-1]) = r[i].fun
               \/ Spare(g, r, r[i].fun)
    <3>1. r[i].fun \in Objects /\ g[r[i].fun] # None /\ Lambda(f, s[i].fun)
      BY <1>2, <1>3, <1>5, <1>8, <2>2 DEF Lambda
    <3>2. \/ i > 1 /\ BodyIn(f, s[i-1]) = s[i].fun
          \/ Spare(f, s, s[i].fun)
      BY <1>2, <2>2, <3>1 DEF Sound, InUse
    <3>3. i > 1 => i-1 \in 1 .. Len(r)
      BY <1>1
    <3> QED BY <1>2, <2>1, <2>2, <3>1, <3>2, <3>3
  <2>3. ASSUME r[i].held # None, Lambda(g, r[i].held)
        PROVE  \/ BodyIn(g, r[i]) = r[i].held
               \/ Spare(g, r, r[i].held)
    <3>1. r[i].held \in Objects /\ g[r[i].held] # None /\ Lambda(f, s[i].held)
      BY <1>2, <1>3, <1>5, <1>8, <2>3 DEF Lambda
    <3>2. \/ BodyIn(f, s[i]) = s[i].held
          \/ Spare(f, s, s[i].held)
      BY <1>2, <2>3, <3>1 DEF Sound, InUse
    <3> QED BY <1>2, <2>1, <2>3, <3>1, <3>2
  <2> QED BY <2>2, <2>3
<1>11. BoundOnce(w, g, d)
  <2>1. d \subseteq e /\ e \subseteq Objects
    BY DEF Sound, Types, Lesser
  <2>2. ASSUME NEW o \in Objects, g[o] # None, ~Lambda(g, o)
        PROVE  /\ \A p, q \in Named(w, o) : p = q
               /\ o \in d => Named(w, o) = {}
    <3>1. f[o] # None /\ ~Lambda(f, o)
      BY <1>3, <2>2 DEF Lambda
    <3>2. Named(w, o) \subseteq Named(v, o)
      BY FewerReferences
    <3> QED BY <2>1, <2>2, <3>1, <3>2 DEF Sound, BoundOnce
  <2>3. ASSUME NEW o \in d PROVE ~Lambda(g, o)
    <3>1. o \in Objects /\ g[o] # None
      BY <2>1 DEF AliveIn, Referred
    <3> QED BY <1>3, <2>1, <3>1 DEF Sound, BoundOnce, Lambda
  <2> QED BY <2>2, <2>3 DEF BoundOnce
<1>12. Types(w, g, r, d)
  BY DEF Lesser
<1> QED BY <1>4, <1>9, <1>10, <1>11, <1>12 DEF Sound

\* An object is in use or shared only as long as it is referred to.
LEMMA SharesAreReferences ==
  ASSUME NEW v, NEW f, NEW s, NEW e, Sound(v, f, s, e), NEW o \in Objects
  PROVE  /\ o \in Referred(v, f, s, e) <=>
              \/ Shares(v, f, s, o) # {}
              \/ \E i \in 1 .. Len(s) : o = s[i].fun \/ o = s[i].held
              \/ o \in e
         /\ o \in OnStacks(v) <=> Named(v, o) # {}
         /\ o \in Bodies(f) => BodyShares(f, s, o) # {}
         /\ \A i \in 1 .. Len(s) : s[i].part = o => <<None, i>> \in BodyShares(f, s, o)
         /\ \A n \in Symbols : \A i \in 1 .. Len(v[n]) : v[n][i] = o => <<n, i>> \in Named(v, o)
<1>1. DOMAIN s = 1 .. Len(s) /\ Len(s) \in Nat
  BY ContextFields DEF Sound
<1>2. \A n \in Symbols : DOMAIN v[n] = 1 .. Len(v[n]) /\ Len(v[n]) \in 1 .. MaxDepth + 1
  BY StacksAreBounded
<1>3. \A n \in Symbols : \A i \in 1 .. Len(v[n]) : v[n][i] = o => <<n, i>> \in Named(v, o)
  BY <1>2, NamesAssumption DEF Named
<1>4. o \in OnStacks(v) <=> Named(v, o) # {}
  <2>1. ASSUME o \in OnStacks(v) PROVE Named(v, o) # {}
    BY <1>2, <1>3, <2>1 DEF OnStacks
  <2>2. ASSUME NEW p \in Named(v, o) PROVE o \in OnStacks(v)
    BY <2>2 DEF OnStacks, Named
  <2> QED BY <2>1, <2>2
<1>5. o \in Bodies(f) <=> \E p \in Objects : <<p, 0>> \in BodyShares(f, s, o)
  BY <1>1 DEF Bodies, BodyShares
<1>6. \A i \in 1 .. Len(s) : s[i].part = o => <<None, i>> \in BodyShares(f, s, o)
  BY <1>1 DEF BodyShares
<1>7. Shares(v, f, s, o) = Named(v, o) \cup BodyShares(f, s, o)
  BY <1>1, SharesFinite
<1>8. \A x \in BodyShares(f, s, o) : \/ o \in Bodies(f)
                                     \/ \E i \in 1 .. Len(s) : s[i].part = o
  BY <1>1 DEF BodyShares, Bodies
<1>9. o \in InContexts(s) <=> \E i \in 1 .. Len(s) : o = s[i].fun \/ o = s[i].held \/ o = s[i].part
  BY <1>1 DEF InContexts
<1>10. o \in Referred(v, f, s, e) <=>
         \/ Shares(v, f, s, o) # {}
         \/ \E i \in 1 .. Len(s) : o = s[i].fun \/ o = s[i].held
         \/ o \in e
  BY <1>4, <1>5, <1>6, <1>7, <1>8, <1>9 DEF Referred
<1>11. o \in Bodies(f) => BodyShares(f, s, o) # {}
  BY <1>5
<1> QED BY <1>3, <1>4, <1>6, <1>10, <1>11

\* Objects that were deleted, released or forgotten: only lambdas that lose a
\* body or statement lose an owner, and what is still referred to is deleted
\* only because it has lost its last owner.
LEMMA Drop ==
  ASSUME NEW v, NEW f, NEW s, NEW e, Sound(v, f, s, e),
         NEW w, NEW g, NEW r, NEW d, Lesser(v, f, s, e, w, g, r, d),
         \A n \in Symbols : Len(w[n]) = 1 + Cardinality(InDepth(f, s, n, 1 .. Len(r))),
         NEW ls,
         \A l \in Objects : g[l] # None =>
           g[l].owners = IF l \in ls THEN f[l].owners - 1 ELSE f[l].owners,
         \A l \in Objects : f[l] # None /\ g[l] = None /\ l \in Referred(w, g, r, d) =>
           l \in ls /\ Lambda(f, l) /\ f[l].owners <= 1,
         \A l \in Objects : l \in ls => \E x \in BodyShares(f, s, l) : x \notin BodyShares(g, r, l)
  PROVE  Sound(w, g, r, d)
<1>1. /\ DOMAIN r = 1 .. Len(r) /\ Len(r) \in Nat
      /\ DOMAIN s = 1 .. Len(s) /\ Len(s) \in Nat
      /\ Len(r) <= Len(s) /\ \A i \in 1 .. Len(r) : r[i] = s[i]
  BY ContextFields DEF Sound, Lesser
<1>2. ASSUME NEW l \in Objects
      PROVE  /\ Cardinality(Shares(w, g, r, l)) <= Cardinality(Shares(v, f, s, l))
             /\ Cardinality(BodyShares(g, r, l)) <= Cardinality(BodyShares(f, s, l))
             /\ BodyShares(f, s, l) \subseteq Shares(v, f, s, l)
             /\ BodyShares(g, r, l) \subseteq Shares(w, g, r, l)
             /\ IsFiniteSet(Shares(w, g, r, l)) /\ IsFiniteSet(Shares(v, f, s, l))
             /\ IsFiniteSet(BodyShares(g, r, l)) /\ IsFiniteSet(BodyShares(f, s, l))
             /\ Cardinality(Shares(w, g, r, l)) \in Nat /\ Cardinality(Shares(v, f, s, l)) \in Nat
             /\ Cardinality(BodyShares(g, r, l)) \in Nat /\ Cardinality(BodyShares(f, s, l)) \in Nat
  BY <1>1, FewerReferences, SharesFinite, Fewer
<1>3. ASSUME NEW l \in Objects, l \in ls
      PROVE  /\ Cardinality(Shares(w, g, r, l)) + 1 <= Cardinality(Shares(v, f, s, l))
             /\ Cardinality(BodyShares(g, r, l)) + 1 <= Cardinality(BodyShares(f, s, l))
  <2>1. PICK x \in BodyShares(f, s, l) : x \notin BodyShares(g, r, l)
    BY <1>3
  <2>2. x \notin Named(w, l)
    BY NamesAssumption DEF BodyShares, Named
  <2>3. x \in Shares(v, f, s, l) /\ x \notin Shares(w, g, r, l)
    BY <1>1, <1>2, <2>1, <2>2, SharesFinite
  <2>4. BodyShares(g, r, l) \subseteq BodyShares(f, s, l) /\ Shares(w, g, r, l) \subseteq Shares(v, f, s, l)
    BY FewerReferences
  <2>5. Cardinality(Shares(w, g, r, l)) + 1 <= Cardinality(Shares(v, f, s, l))
    BY <1>2, <2>3, <2>4, Fewer
  <2>6. Cardinality(BodyShares(g, r, l)) + 1 <= Cardinality(BodyShares(f, s, l))
    BY <1>2, <2>1, <2>4, Fewer
  <2> QED BY <2>5, <2>6
<1>4. \A o \in Objects : f[o] # None => f[o].owners \in Nat
  BY DEF Sound, Types, Object
<1>5. \A o \in Objects : g[o] # None => f[o] # None /\ g[o].text = f[o].text /\ g[o].part = f[o].part
  BY DEF Lesser
<1>6. OwnedIn(w, g, r)
  <2> SUFFICES ASSUME NEW l \in Objects, g[l] # None, Lambda(g, l)
               PROVE  g[l].owners >= Cardinality(Shares(w, g, r, l))
    BY DEF OwnedIn
  <2>1. f[l].owners \in Nat /\ f[l].owners >= Cardinality(Shares(v, f, s, l))
    BY <1>4, <1>5 DEF Sound, OwnedIn, Lambda
  <2> QED BY <1>2, <1>3, <2>1
<1>7. ASSUME NEW l \in Objects, g[l] # None, Spare(f, s, l) PROVE Spare(g, r, l)
  <2>1. f[l].owners \in Nat /\ f[l].owners >= Cardinality(BodyShares(f, s, l)) + 1
    BY <1>4, <1>5, <1>7 DEF Spare
  <2> QED BY <1>2, <1>3, <1>7, <2>1 DEF Spare
<1>8. AliveIn(w, g, r, d)
  <2> SUFFICES ASSUME NEW o \in Objects, o \in Referred(w, g, r, d), g[o] = None
               PROVE  FALSE
    BY DEF AliveIn
  <2>1. f[o] # None
    BY FewerReferences DEF Sound, AliveIn
  <2>2. o \in ls /\ Lambda(f, o) /\ f[o].owners <= 1 /\ f[o].owners \in Nat
    BY <1>4, <2>1
  <2>3. f[o].owners >= Cardinality(Shares(v, f, s, o))
    BY <2>1, <2>2 DEF Sound, OwnedIn
  <2>4. Cardinality(Shares(w, g, r, o)) = 0 /\ Cardinality(BodyShares(f, s, o)) >= 1
    BY <1>2, <1>3, <2>2, <2>3
  <2>5. Shares(w, g, r, o) = {}
    BY <1>2, <2>4, FS_EmptySet
  <2>6. ~Spare(f, s, o)
    BY <1>2, <2>2, <2>4 DEF Spare
  <2>7. /\ \A p \in Objects : g[p] # None => g[p].part # o
        /\ \A i \in 1 .. Len(r) : r[i].part # o
    <3>1. BodyShares(g, r, o) = {}
      BY <1>2, <2>5
    <3>2. ASSUME NEW p \in Objects, g[p] # None, g[p].part = o PROVE FALSE
      <4>1. <<p, 0>> \in BodyShares(g, r, o)
        BY <3>2 DEF BodyShares
      <4> QED BY <3>1, <4>1
    <3>3. ASSUME NEW i \in 1 .. Len(r), r[i].part = o PROVE FALSE
      <4>1. <<None, i>> \in BodyShares(g, r, o)
        BY <1>1, <3>3 DEF BodyShares
      <4> QED BY <3>1, <4>1
    <3> QED BY <3>2, <3>3
  <2>8. \A i \in 1 .. Len(r) : BodyIn(f, r[i]) # o
    <3> SUFFICES ASSUME NEW i \in 1 .. Len(r), BodyIn(f, r[i]) = o PROVE FALSE
      OBVIOUS
    <3>1. CASE r[i].fun = None
      BY <2>7, <3>1 DEF BodyIn
    <3>2. CASE r[i].fun # None
      <4>1. r[i].fun \in Objects /\ f[r[i].fun].part = o /\ r[i].fun \in InContexts(r)
        BY <1>1, <3>2, ContextFields DEF BodyIn, InContexts, Lesser
      <4>2. r[i].fun \in Referred(w, g, r, d) /\ f[r[i].fun] # None
        BY <4>1, FewerReferences DEF Referred, Sound, AliveIn
      <4>3. g[r[i].fun] # None
        BY <4>1, <4>2, NamesAssumption DEF Sound, PartsIn
      <4> QED BY <1>5, <2>7, <4>1, <4>3
    <3> QED BY <3>1, <3>2
  <2>9. \A i \in 1 .. Len(r) : r[i].fun # o /\ r[i].held # o
    <3> SUFFICES ASSUME NEW i \in 1 .. Len(r), r[i].fun = o \/ r[i].held = o PROVE FALSE
      OBVIOUS
    <3>1. i \in 1 .. Len(s) /\ r[i] = s[i] /\ o # None /\ (i > 1 => i-1 \in 1 .. Len(r) /\ r[i-1] = s[i-1])
      BY <1>1, NamesAssumption
    <3> QED BY <2>2, <2>6, <2>8, <3>1 DEF Sound, InUse
  <2>10. o \notin d
    BY <2>2 DEF Sound, BoundOnce, Lesser
  <2>11. Named(w, o) = {}
    BY <1>1, <2>5, SharesFinite
  <2>12. o \notin OnStacks(w)
    <3> SUFFICES ASSUME NEW n \in Symbols, NEW i \in DOMAIN w[n], w[n][i] = o PROVE FALSE
      BY DEF OnStacks
    <3>1. DOMAIN w[n] = 1 .. Len(w[n]) /\ i \in 1 .. Len(w[n])
      BY LenProperties DEF Lesser, Types
    <3>2. i \in 1 .. Len(v[n]) /\ Len(v[n]) \in 1 .. MaxDepth + 1
      BY <3>1, StacksAreBounded DEF Lesser
    <3>3. <<n, i>> \in Named(w, o)
      BY <3>1, <3>2, NamesAssumption DEF Named
    <3> QED BY <2>11, <3>3
  <2>13. o \notin Bodies(g)
    BY <2>7 DEF Bodies
  <2>14. o \notin InContexts(r)
    BY <1>1, <2>7, <2>9 DEF InContexts
  <2> QED BY <2>10, <2>12, <2>13, <2>14 DEF Referred
<1> QED BY <1>6, <1>7, <1>8, Lessen

LEMMA KeptSound ==
  ASSUME NEW v, NEW f, NEW s, NEW e, Sound(v, f, s, e)
  PROVE  Sound(v, Kept(f, v, s, e), s, e)
<1> DEFINE g == Kept(f, v, s, e)
           ls == {}
<1>1. /\ g \in [Objects -> Object \cup {None}]
      /\ \A o \in Objects : g[o] # None => g[o] = f[o]
      /\ \A o \in Objects : o \in Referred(v, f, s, e) => g[o] = f[o]
  BY DEF Kept, Sound, Types
<1> HIDE DEF g
<1>2. Lesser(v, f, s, e, v, g, s, e)
  <2>1. Types(v, g, s, e)
    BY <1>1 DEF Sound, Types
  <2>2. Len(s) \in Nat
    BY ContextFields DEF Sound
  <2> QED BY <1>1, <2>1, <2>2 DEF Lesser
<1>3. \A n \in Symbols : Len(v[n]) = 1 + Cardinality(InDepth(f, s, n, 1 .. Len(s)))
  BY DEF Sound, ScopesIn
<1>4. \A l \in Objects : l \in Referred(v, g, s, e) => g[l] = f[l]
  BY <1>1, <1>2, FewerReferences
<1>5. \A l \in Objects : g[l] # None => g[l].owners = IF l \in ls THEN f[l].owners - 1 ELSE f[l].owners
  BY <1>1
<1>6. \A l \in Objects : l \in ls => \E x \in BodyShares(f, s, l) : x \notin BodyShares(g, s, l)
  OBVIOUS
<1>7. \A l \in Objects : f[l] # None /\ g[l] = None /\ l \in Referred(v, g, s, e) =>
        l \in ls /\ Lambda(f, l) /\ f[l].owners <= 1
  BY <1>4
<1> HIDE DEF ls
<1>8. Sound(v, g, s, e)
  BY <1>2, <1>3, <1>5, <1>6, <1>7, Drop
<1> QED BY <1>8 DEF g

-----------------------------------------------------------------------------
(* Functions and lambdas that are deleted, released or forgotten.          *)

\* The changes below that leave names and contexts alone
LEMMA LessenFunctions ==
  ASSUME NEW v, NEW f, NEW s, NEW e, Sound(v, f, s, e),
         NEW g, Lesser(v, f, s, e, v, g, s, e),
         AliveIn(v, g, s, e),
         OwnedIn(v, g, s),
         \A i \in 1 .. Len(s), o \in Objects :
           /\ o = s[i].fun \/ o = s[i].held
           /\ g[o] # None /\ Lambda(g, o) /\ Spare(f, s, o)
           => Spare(g, s, o)
  PROVE  Sound(v, g, s, e)
<1>1. \A n \in Symbols : Len(v[n]) = 1 + Cardinality(InDepth(f, s, n, 1 .. Len(s)))
  BY DEF Sound, ScopesIn
<1> QED BY <1>1, Lessen

\* A lambda loses an owner that is none of its names and bodies, while it is
\* not in use.
LEMMA ReleaseSound ==
  ASSUME NEW v, NEW f, NEW s, NEW e, Sound(v, f, s, e),
         NEW l \in Objects, f[l] # None, Lambda(f, l),
         f[l].owners >= Cardinality(Shares(v, f, s, l)) + 1,
         \A i \in 1 .. Len(s) : s[i].fun # l /\ s[i].held # l
  PROVE  Sound(v, Released(f, {l}), s, e)
<1> DEFINE g == Released(f, {l})
<1>1. f \in [Objects -> Object \cup {None}]
  BY DEF Sound, Types
<1>2. f[l] \in Object
  BY <1>1
<1>3. g = [f EXCEPT ![l] = IF f[l].owners <= 1 THEN None ELSE [f[l] EXCEPT !.owners = @ - 1]]
  BY <1>1 DEF Released
<1>4. /\ f[l].owners \in Nat
      /\ [f[l] EXCEPT !.owners = @ - 1].text = f[l].text
      /\ [f[l] EXCEPT !.owners = @ - 1].part = f[l].part
      /\ [f[l] EXCEPT !.owners = @ - 1].owners = f[l].owners - 1
      /\ f[l].owners > 1 => [f[l] EXCEPT !.owners = @ - 1] \in Object
  BY <1>2 DEF Object
<1> HIDE DEF g
<1>5. /\ g \in [Objects -> Object \cup {None}]
      /\ \A o \in Objects : o # l => g[o] = f[o]
      /\ g[l] # None => /\ f[l].owners > 1
                        /\ g[l].text = f[l].text /\ g[l].part = f[l].part
                        /\ g[l].owners = f[l].owners - 1
      /\ g[l] = None => f[l].owners <= 1
  BY <1>1, <1>3, <1>4, NamesAssumption
<1>6. DOMAIN s = 1 .. Len(s) /\ Len(s) \in Nat
  BY ContextFields DEF Sound
<1>7. Lesser(v, f, s, e, v, g, s, e)
  <2>1. Types(v, g, s, e)
    BY <1>5 DEF Sound, Types
  <2> QED BY <1>5, <1>6, <2>1 DEF Lesser
<1>8. ASSUME NEW o \in Objects
      PROVE  /\ Cardinality(Shares(v, g, s, o)) <= Cardinality(Shares(v, f, s, o))
             /\ Cardinality(BodyShares(g, s, o)) <= Cardinality(BodyShares(f, s, o))
             /\ Cardinality(Shares(v, g, s, o)) \in Nat /\ Cardinality(Shares(v, f, s, o)) \in Nat
             /\ Cardinality(BodyShares(g, s, o)) \in Nat /\ Cardinality(BodyShares(f, s, o)) \in Nat
  BY <1>6, <1>7, FewerReferences, SharesFinite, Fewer
<1>9. g[l] = None => l \notin Referred(v, f, s, e)
  <2> SUFFICES ASSUME g[l] = None PROVE l \notin Referred(v, f, s, e)
    OBVIOUS
  <2>1. Cardinality(Shares(v, f, s, l)) = 0
    BY <1>4, <1>5, <1>8
  <2>2. Shares(v, f, s, l) = {}
    BY <1>6, <2>1, SharesFinite, FS_EmptySet
  <2>3. l \notin e
    BY DEF Sound, BoundOnce
  <2> QED BY <2>2, <2>3, SharesAreReferences
<1>10. AliveIn(v, g, s, e)
  BY <1>5, <1>7, <1>9, FewerReferences DEF AliveIn, Sound
<1>11. OwnedIn(v, g, s)
  <2> SUFFICES ASSUME NEW o \in Objects, g[o] # None, Lambda(g, o)
               PROVE  g[o].owners >= Cardinality(Shares(v, g, s, o))
    BY DEF OwnedIn
  <2>1. CASE o = l
    BY <1>4, <1>5, <1>8, <2>1
  <2>2. CASE o # l
    <3>1. f[o].owners \in Nat /\ g[o] = f[o]
      BY <1>1, <1>5, <2>2 DEF Object
    <3>2. f[o].owners >= Cardinality(Shares(v, f, s, o))
      BY <3>1 DEF Sound, OwnedIn, Lambda
    <3> QED BY <1>8, <3>1, <3>2
  <2> QED BY <2>1, <2>2
<1>12. ASSUME NEW o \in Objects, o # l, g[o] # None, Spare(f, s, o) PROVE Spare(g, s, o)
  <2>1. f[o].owners \in Nat /\ g[o] = f[o]
    BY <1>1, <1>5, <1>12 DEF Object
  <2> QED BY <1>8, <1>12, <2>1 DEF Spare
<1>13. Sound(v, g, s, e)
  BY <1>7, <1>10, <1>11, <1>12, LessenFunctions
<1> QED BY <1>13 DEF g

\* A defined function that is neither bound nor in use is deleted.
LEMMA DeleteSound ==
  ASSUME NEW v, NEW f, NEW s, NEW e, Sound(v, f, s, e),
         NEW o \in Objects, f[o] # None, ~Lambda(f, o), o \notin OnStacks(v), o \notin e,
         \A i \in 1 .. Len(s) : s[i].fun # o /\ s[i].held # o
  PROVE  Sound(v, Deleted(f, o), s, e)
<1> DEFINE g == Deleted(f, o)
           ls == {f[o].part}
<1>1. f \in [Objects -> Object \cup {None}] /\ f[o] \in Object
  BY DEF Sound, Types
<1>2. \A l \in Objects : f[l] # None =>
        /\ f[l].owners \in Nat
        /\ [f[l] EXCEPT !.owners = @ - 1].text = f[l].text
        /\ [f[l] EXCEPT !.owners = @ - 1].part = f[l].part
        /\ [f[l] EXCEPT !.owners = @ - 1].owners = f[l].owners - 1
        /\ f[l].owners > 1 => [f[l] EXCEPT !.owners = @ - 1] \in Object
  BY <1>1 DEF Object
<1>3. f[o].part # o
  BY NamesAssumption DEF Sound, PartsIn
<1>4. g = [l \in Objects |->
            IF l = o THEN None
            ELSE IF l \in ls /\ f[l] # None
            THEN IF f[l].owners <= 1 THEN None ELSE [f[l] EXCEPT !.owners = @ - 1]
            ELSE f[l]]
  BY <1>1, <1>3 DEF Deleted, Released
<1>5. /\ g \in [Objects -> Object \cup {None}]
      /\ g[o] = None
      /\ \A l \in Objects : g[l] # None =>
           /\ f[l] # None /\ g[l].text = f[l].text /\ g[l].part = f[l].part
           /\ g[l].owners = IF l \in ls THEN f[l].owners - 1 ELSE f[l].owners
      /\ \A l \in Objects : l # o /\ f[l] # None /\ g[l] = None => l \in ls /\ f[l].owners <= 1
  BY <1>1, <1>2, <1>4, NamesAssumption
<1> HIDE DEF g
<1>6. DOMAIN s = 1 .. Len(s) /\ Len(s) \in Nat
  BY ContextFields DEF Sound
<1>7. Lesser(v, f, s, e, v, g, s, e)
  <2>1. Types(v, g, s, e)
    BY <1>5 DEF Sound, Types
  <2> QED BY <1>5, <1>6, <2>1 DEF Lesser
<1>8. o \notin Referred(v, f, s, e)
  <2>1. o \notin Bodies(f)
    BY NamesAssumption DEF Sound, PartsIn, Bodies
  <2>2. o \notin InContexts(s)
    BY <1>6, NamesAssumption DEF Sound, PartsIn, InContexts
  <2> QED BY <2>1, <2>2 DEF Referred
<1>9. ASSUME NEW l \in Objects, f[l] # None, g[l] = None, l \in Referred(v, g, s, e)
      PROVE  l \in ls /\ Lambda(f, l) /\ f[l].owners <= 1
  <2>1. l # o
    BY <1>7, <1>8, <1>9, FewerReferences
  <2> QED BY <1>5, <1>9, <2>1, NamesAssumption DEF Sound, PartsIn
<1>10. ASSUME NEW l \in Objects, l \in ls
       PROVE  \E x \in BodyShares(f, s, l) : x \notin BodyShares(g, s, l)
  <2>1. <<o, 0>> \in BodyShares(f, s, l)
    BY <1>10 DEF BodyShares
  <2>2. <<o, 0>> \notin BodyShares(g, s, l)
    BY <1>5, <1>6 DEF BodyShares
  <2> QED BY <2>1, <2>2
<1>11. \A n \in Symbols : Len(v[n]) = 1 + Cardinality(InDepth(f, s, n, 1 .. Len(s)))
  BY DEF Sound, ScopesIn
<1> HIDE DEF ls
<1>12. Sound(v, g, s, e)
  BY <1>5, <1>7, <1>9, <1>10, <1>11, Drop
<1> QED BY <1>12 DEF g

\* A lambda gets one more owner.
LEMMA GainSound ==
  ASSUME NEW v, NEW f, NEW s, NEW e, Sound(v, f, s, e),
         NEW l \in Objects, f[l] # None, Lambda(f, l)
  PROVE  /\ Sound(v, Gained(f, l), s, e)
         /\ Gained(f, l)[l] # None /\ Lambda(Gained(f, l), l)
         /\ Gained(f, l)[l].owners >= Cardinality(Shares(v, Gained(f, l), s, l)) + 1
<1> DEFINE g == Gained(f, l)
<1>1. f \in [Objects -> Object \cup {None}] /\ f[l] \in Object
  BY DEF Sound, Types
<1>2. /\ f[l].owners \in Nat
      /\ [f[l] EXCEPT !.owners = @ + 1].text = f[l].text
      /\ [f[l] EXCEPT !.owners = @ + 1].part = f[l].part
      /\ [f[l] EXCEPT !.owners = @ + 1].owners = f[l].owners + 1
      /\ [f[l] EXCEPT !.owners = @ + 1] \in Object
  BY <1>1 DEF Object
<1>3. g = [f EXCEPT ![l] = [f[l] EXCEPT !.owners = @ + 1]]
  BY DEF Gained
<1> HIDE DEF g
<1>4. /\ g \in [Objects -> Object \cup {None}]
      /\ \A o \in Objects : o # l => g[o] = f[o]
      /\ g[l] # None /\ g[l].text = f[l].text /\ g[l].part = f[l].part
      /\ g[l].owners = f[l].owners + 1
  BY <1>1, <1>2, <1>3, NamesAssumption
<1>5. DOMAIN s = 1 .. Len(s) /\ Len(s) \in Nat
  BY ContextFields DEF Sound
<1>6. Lesser(v, f, s, e, v, g, s, e)
  <2>1. Types(v, g, s, e)
    BY <1>4 DEF Sound, Types
  <2> QED BY <1>4, <1>5, <2>1 DEF Lesser
<1>7. ASSUME NEW o \in Objects
      PROVE  /\ Cardinality(Shares(v, g, s, o)) <= Cardinality(Shares(v, f, s, o))
             /\ Cardinality(BodyShares(g, s, o)) <= Cardinality(BodyShares(f, s, o))
             /\ Cardinality(Shares(v, g, s, o)) \in Nat /\ Cardinality(Shares(v, f, s, o)) \in Nat
             /\ Cardinality(BodyShares(g, s, o)) \in Nat /\ Cardinality(BodyShares(f, s, o)) \in Nat
  BY <1>5, <1>6, FewerReferences, SharesFinite, Fewer
<1>8. AliveIn(v, g, s, e)
  BY <1>4, <1>6, FewerReferences DEF AliveIn, Sound
<1>9. f[l].owners >= Cardinality(Shares(v, f, s, l))
  BY DEF Sound, OwnedIn
<1>10. \A o \in Objects : f[o] # None => f[o].owners \in Nat
  BY <1>1 DEF Object
<1>11. OwnedIn(v, g, s)
  <2> SUFFICES ASSUME NEW o \in Objects, g[o] # None, Lambda(g, o)
               PROVE  g[o].owners >= Cardinality(Shares(v, g, s, o))
    BY DEF OwnedIn
  <2>1. CASE o = l
    BY <1>2, <1>4, <1>7, <1>9, <2>1
  <2>2. CASE o # l
    <3>1. g[o] = f[o] /\ f[o].owners \in Nat /\ f[o].owners >= Cardinality(Shares(v, f, s, o))
      BY <1>4, <1>10, <2>2 DEF Sound, OwnedIn, Lambda
    <3> QED BY <1>7, <3>1
  <2> QED BY <2>1, <2>2
<1>12. ASSUME NEW o \in Objects, g[o] # None, Spare(f, s, o) PROVE Spare(g, s, o)
  <2>1. f[o].owners \in Nat /\ g[o].owners >= f[o].owners /\ g[o].owners \in Nat
    BY <1>2, <1>4, <1>10, <1>12
  <2> QED BY <1>7, <1>12, <2>1 DEF Spare
<1>13. Sound(v, g, s, e)
  BY <1>6, <1>8, <1>11, <1>12, LessenFunctions
<1>14. g[l].owners >= Cardinality(Shares(v, g, s, l)) + 1
  BY <1>2, <1>4, <1>7, <1>9
<1> QED BY <1>4, <1>13, <1>14 DEF g, Lambda

\* The fields of an object of which a lambda or statement has lost an owner
LEMMA ReleasedFields ==
  ASSUME NEW f \in [Objects -> Object \cup {None}], NEW ls
  PROVE  /\ Released(f, ls) \in [Objects -> Object \cup {None}]
         /\ \A l \in Objects : Released(f, ls)[l] # None =>
              /\ f[l] # None
              /\ Released(f, ls)[l].text = f[l].text
              /\ Released(f, ls)[l].part = f[l].part
              /\ Released(f, ls)[l].owners = IF l \in ls THEN f[l].owners - 1 ELSE f[l].owners
         /\ \A l \in Objects : f[l] # None /\ Released(f, ls)[l] = None => l \in ls /\ f[l].owners <= 1
<1>1. \A l \in Objects : f[l] # None =>
        /\ f[l].owners \in Nat
        /\ [f[l] EXCEPT !.owners = @ - 1].text = f[l].text
        /\ [f[l] EXCEPT !.owners = @ - 1].part = f[l].part
        /\ [f[l] EXCEPT !.owners = @ - 1].owners = f[l].owners - 1
        /\ f[l].owners > 1 => [f[l] EXCEPT !.owners = @ - 1] \in Object
  BY DEF Object
<1> QED BY <1>1, NamesAssumption DEF Released

\* What was expunged is deleted when no context is left.
LEMMA CheckSound ==
  ASSUME NEW v, NEW f, NEW s, NEW e, Sound(v, f, s, e), s = <<>>
  PROVE  Sound(v, Released([o \in Objects |-> IF o \in e THEN None ELSE f[o]],
                           Bodies([o \in Objects |-> IF o \in e THEN f[o] ELSE None])), s, {})
<1> DEFINE h == [o \in Objects |-> IF o \in e THEN None ELSE f[o]]
           ls == Bodies([o \in Objects |-> IF o \in e THEN f[o] ELSE None])
           g == Released(h, ls)
<1>1. f \in [Objects -> Object \cup {None}] /\ h \in [Objects -> Object \cup {None}]
  BY DEF Sound, Types
<1>2. \A o \in Objects : h[o] = IF o \in e THEN None ELSE f[o]
  OBVIOUS
<1>3. \A l \in Objects : l \in ls <=> \E o \in Objects : o \in e /\ f[o] # None /\ f[o].part = l
  BY DEF Bodies
<1> HIDE DEF h, ls
<1>4. /\ g \in [Objects -> Object \cup {None}]
      /\ \A l \in Objects : g[l] # None =>
           /\ l \notin e
           /\ f[l] # None /\ g[l].text = f[l].text /\ g[l].part = f[l].part
           /\ g[l].owners = IF l \in ls THEN f[l].owners - 1 ELSE f[l].owners
      /\ \A l \in Objects : l \notin e /\ f[l] # None /\ g[l] = None => l \in ls /\ f[l].owners <= 1
  BY <1>1, <1>2, ReleasedFields
<1> HIDE DEF g
<1>5. DOMAIN s = 1 .. Len(s) /\ Len(s) = 0
  BY ContextFields DEF Sound
<1>6. Lesser(v, f, s, e, v, g, s, {})
  <2>1. Types(v, g, s, {})
    BY <1>4 DEF Sound, Types
  <2> QED BY <1>4, <1>5, <2>1 DEF Lesser
<1>7. ASSUME NEW l \in Objects, f[l] # None, g[l] = None, l \in Referred(v, g, s, {})
      PROVE  l \in ls /\ Lambda(f, l) /\ f[l].owners <= 1
  <2>1. l \notin e
    <3> SUFFICES ASSUME l \in e PROVE FALSE
      OBVIOUS
    <3>1. ~Lambda(f, l) /\ Named(v, l) = {}
      BY <1>7 DEF Sound, BoundOnce
    <3>2. l \notin OnStacks(v)
      BY <3>1, SharesAreReferences
    <3>3. l \notin InContexts(s)
      BY <1>5 DEF InContexts
    <3>4. l \notin Bodies(g)
      BY <1>4, <3>1, NamesAssumption DEF Bodies, Sound, PartsIn
    <3> QED BY <1>7, <3>2, <3>3, <3>4 DEF Referred
  <2> QED BY <1>3, <1>4, <1>7, <2>1, NamesAssumption DEF Sound, PartsIn
<1>8. ASSUME NEW l \in Objects, l \in ls
      PROVE  \E x \in BodyShares(f, s, l) : x \notin BodyShares(g, s, l)
  <2>1. PICK o \in Objects : o \in e /\ f[o] # None /\ f[o].part = l
    BY <1>3, <1>8
  <2>2. <<o, 0>> \in BodyShares(f, s, l)
    BY <2>1 DEF BodyShares
  <2>3. <<o, 0>> \notin BodyShares(g, s, l)
    BY <1>4, <1>5, <2>1 DEF BodyShares
  <2> QED BY <2>2, <2>3
<1>9. \A n \in Symbols : Len(v[n]) = 1 + Cardinality(InDepth(f, s, n, 1 .. Len(s)))
  BY DEF Sound, ScopesIn
<1>10. Sound(v, g, s, {})
  BY <1>4, <1>6, <1>7, <1>8, <1>9, Drop
<1> QED BY <1>10 DEF g, h, ls

\* Names lose or change bindings that are no functions afterwards.
LEMMA BindPlain ==
  ASSUME NEW v, NEW f, NEW s, NEW e, Sound(v, f, s, e),
         NEW w \in [Symbols -> Seq(Binding)],
         \A n \in Symbols : Len(w[n]) = Len(v[n]),
         \A n \in Symbols : \A i \in 1 .. Len(v[n]) : w[n][i] = v[n][i] \/ w[n][i] \notin Objects
  PROVE  Sound(w, f, s, e)
<1> DEFINE ls == {}
<1>1. DOMAIN s = 1 .. Len(s) /\ Len(s) \in Nat
  BY ContextFields DEF Sound
<1>2. Lesser(v, f, s, e, w, f, s, e)
  BY <1>1 DEF Lesser, Sound, Types
<1>3. \A l \in Objects : l \in Referred(w, f, s, e) => f[l] # None
  BY <1>2, FewerReferences DEF Sound, AliveIn
<1>4. \A n \in Symbols : Len(w[n]) = 1 + Cardinality(InDepth(f, s, n, 1 .. Len(s)))
  BY DEF Sound, ScopesIn
<1>5. /\ \A l \in Objects : f[l] # None => f[l].owners = IF l \in ls THEN f[l].owners - 1 ELSE f[l].owners
      /\ \A l \in Objects : l \in ls => \E x \in BodyShares(f, s, l) : x \notin BodyShares(f, s, l)
  OBVIOUS
<1> HIDE DEF ls
<1> QED BY <1>2, <1>3, <1>4, <1>5, Drop

\* The contexts above m are popped.
LEMMA PopSound ==
  ASSUME NEW v, NEW f, NEW s, NEW e, Sound(v, f, s, e), NEW m \in 0 .. Len(s)
  PROVE  Sound([n \in Symbols |-> SubSeq(v[n], 1, Len(v[n]) - Cardinality(InDepth(f, s, n, m+1 .. Len(s))))],
               Released(f, { s[i].part : i \in m+1 .. Len(s) }),
               SubSeq(s, 1, m), e)
<1> DEFINE w == [n \in Symbols |-> SubSeq(v[n], 1, Len(v[n]) - Cardinality(InDepth(f, s, n, m+1 .. Len(s))))]
           ls == { s[i].part : i \in m+1 .. Len(s) }
           g == Released(f, ls)
           r == SubSeq(s, 1, m)
<1>1. DOMAIN s = 1 .. Len(s) /\ Len(s) \in Nat /\ s \in Seq(Context) /\ Len(s) <= MaxDepth
  BY ContextFields DEF Sound, Types
<1>2. /\ r \in Seq(Context) /\ Len(r) = m
      /\ \A i \in 1 .. m : r[i] = s[i]
  BY <1>1, ElementOfSeq, SubSeqProperties
<1>3. ASSUME NEW n \in Symbols
      PROVE  /\ Len(v[n]) = 1 + Cardinality(InDepth(f, s, n, 1 .. m)) + Cardinality(InDepth(f, s, n, m+1 .. Len(s)))
             /\ Cardinality(InDepth(f, s, n, 1 .. m)) \in Nat
             /\ Cardinality(InDepth(f, s, n, m+1 .. Len(s))) \in Nat
  <2>1. InDepth(f, s, n, 1 .. Len(s)) = InDepth(f, s, n, 1 .. m) \cup InDepth(f, s, n, m+1 .. Len(s))
    BY <1>1 DEF InDepth
  <2>2. InDepth(f, s, n, 1 .. m) \cap InDepth(f, s, n, m+1 .. Len(s)) = {}
    BY <1>1 DEF InDepth
  <2>3. /\ IsFiniteSet(InDepth(f, s, n, 1 .. m)) /\ IsFiniteSet(InDepth(f, s, n, m+1 .. Len(s)))
        /\ Cardinality(InDepth(f, s, n, 1 .. m)) \in Nat
        /\ Cardinality(InDepth(f, s, n, m+1 .. Len(s))) \in Nat
    BY <1>1, DepthFacts
  <2>4. Cardinality(InDepth(f, s, n, 1 .. Len(s)))
          = Cardinality(InDepth(f, s, n, 1 .. m)) + Cardinality(InDepth(f, s, n, m+1 .. Len(s))) - 0
    BY <2>1, <2>2, <2>3, FS_Union, FS_EmptySet
  <2> QED BY <2>3, <2>4 DEF Sound, ScopesIn
<1>4. ASSUME NEW n \in Symbols
      PROVE  /\ w[n] \in Seq(Binding)
             /\ Len(w[n]) = 1 + Cardinality(InDepth(f, s, n, 1 .. m))
             /\ Len(w[n]) <= Len(v[n])
             /\ \A i \in 1 .. Len(w[n]) : w[n][i] = v[n][i]
  <2>1. \A i \in 1 .. Len(v[n]) : v[n][i] \in Binding
    BY StacksAreBounded
  <2>2. 1 + Cardinality(InDepth(f, s, n, 1 .. m)) \in 1 .. Len(v[n])
    BY <1>3
  <2>3. w[n] = SubSeq(v[n], 1, 1 + Cardinality(InDepth(f, s, n, 1 .. m)))
    BY <1>3
  <2> HIDE DEF w
  <2> QED BY <2>1, <2>2, <2>3, <1>3, SubSeqProperties
<1>5. f \in [Objects -> Object \cup {None}] /\ w \in [Symbols -> Seq(Binding)]
  BY <1>4 DEF Sound, Types
<1>6. /\ g \in [Objects -> Object \cup {None}]
      /\ \A l \in Objects : g[l] # None =>
           /\ f[l] # None /\ g[l].text = f[l].text /\ g[l].part = f[l].part
           /\ g[l].owners = IF l \in ls THEN f[l].owners - 1 ELSE f[l].owners
      /\ \A l \in Objects : f[l] # None /\ g[l] = None => l \in ls /\ f[l].owners <= 1
  BY <1>5, ReleasedFields
<1>7. \A l : l \in ls <=> \E i \in m+1 .. Len(s) : s[i].part = l
  OBVIOUS
<1> HIDE DEF w, g, r, ls
<1>8. Types(w, g, r, e)
  <2>1. Types(v, f, s, e)
    BY DEF Sound
  <2>2. \A i \in 1 .. Len(r) : i \in 1 .. Len(s) /\ r[i] = s[i]
    BY <1>1, <1>2
  <2>3. Len(r) <= MaxDepth
    BY <1>1, <1>2, NamesAssumption
  <2>4. \A i \in 1 .. Len(r) : /\ r[i].kind = "function" <=> r[i].fun # None
                               /\ r[i].fun # None => r[i].part = None
    BY <2>1, <2>2 DEF Types
  <2> QED BY <1>2, <1>5, <1>6, <2>1, <2>3, <2>4 DEF Types
<1>9. Lesser(v, f, s, e, w, g, r, e)
  BY <1>1, <1>2, <1>3, <1>4, <1>6, <1>8 DEF Lesser
<1>10. ASSUME NEW l \in Objects, l \in ls
       PROVE  /\ Lambda(f, l)
              /\ \E x \in BodyShares(f, s, l) : x \notin BodyShares(g, r, l)
  <2>1. PICK i \in m+1 .. Len(s) : s[i].part = l
    BY <1>7, <1>10
  <2>2. i \in 1 .. Len(s) /\ i > m
    BY <1>1
  <2>3. <<None, i>> \in BodyShares(f, s, l)
    BY <1>1, <2>1, <2>2 DEF BodyShares
  <2>4. DOMAIN r = 1 .. m
    BY <1>2, LenProperties
  <2>5. <<None, i>> \notin BodyShares(g, r, l)
    BY <2>2, <2>4, NamesAssumption DEF BodyShares
  <2>6. Lambda(f, l)
    BY <2>1, <2>2, NamesAssumption DEF Sound, PartsIn
  <2> QED BY <2>3, <2>5, <2>6
<1>11. \A n \in Symbols : Len(w[n]) = 1 + Cardinality(InDepth(f, s, n, 1 .. Len(r)))
  BY <1>2, <1>4
<1>12. Sound(w, g, r, e)
  BY <1>6, <1>9, <1>10, <1>11, Drop
<1> QED BY <1>12 DEF w, g, r, ls

-----------------------------------------------------------------------------
(* What adds references.                                                   *)

\* A lambda that can get one more body, statement or name
Sharable(v, f, s, e, l) ==
  /\ f[l] # None /\ Lambda(f, l)
  /\ f[l].owners >= Cardinality(Shares(v, f, s, l)) + 1

InUseBy(s, o) == \E i \in 1 .. Len(s) : s[i].fun = o \/ s[i].held = o

Made(f, o, t, l, k) == [f EXCEPT ![o] = [text |-> t, part |-> l, owners |-> k]]

\* A function object is made at a free address.
LEMMA MakeObject ==
  ASSUME NEW v, NEW f, NEW s, NEW e, Sound(v, f, s, e),
         NEW o \in Objects, f[o] = None,
         NEW t \in Functions \cup Lambdas, NEW l \in Objects \cup {None}, NEW k \in Nat,
         l # None => t \notin Lambdas /\ Sharable(v, f, s, e, l) /\ ~InUseBy(s, l),
         NEW g, g = Made(f, o, t, l, k)
  PROVE  /\ Sound(v, g, s, e)
         /\ Shares(v, g, s, o) = {} /\ ~InUseBy(s, o) /\ o \notin e
         /\ \A x \in Objects : x \in Referred(v, g, s, e) => x \in Referred(v, f, s, e) \cup {l}
<1>1. f \in [Objects -> Object \cup {None}] /\ DOMAIN s = 1 .. Len(s) /\ Len(s) \in Nat
  BY ContextFields DEF Sound, Types
<1>2. /\ [text |-> t, part |-> l, owners |-> k] \in Object
      /\ [text |-> t, part |-> l, owners |-> k].text = t
      /\ [text |-> t, part |-> l, owners |-> k].part = l
      /\ [text |-> t, part |-> l, owners |-> k].owners = k
  BY DEF Object
<1>3. /\ g \in [Objects -> Object \cup {None}]
      /\ \A x \in Objects : x # o => g[x] = f[x]
      /\ g[o] # None /\ g[o].text = t /\ g[o].part = l /\ g[o].owners = k
  BY <1>1, <1>2, NamesAssumption DEF Made
<1>4. o \notin Referred(v, f, s, e) /\ l # o /\ o # None
  BY NamesAssumption DEF Sound, AliveIn, Sharable
<1>5. Shares(v, f, s, o) = {} /\ ~InUseBy(s, o) /\ o \notin e
  BY <1>4, SharesAreReferences DEF InUseBy
<1>6. ASSUME NEW x \in Objects
      PROVE  /\ x # l => BodyShares(g, s, x) = BodyShares(f, s, x) /\ Shares(v, g, s, x) = Shares(v, f, s, x)
             /\ x = l => /\ BodyShares(g, s, x) = BodyShares(f, s, x) \cup {<<o, 0>>}
                         /\ Shares(v, g, s, x) = Shares(v, f, s, x) \cup {<<o, 0>>}
  <2>1. x # l => { p \in Objects : g[p] # None /\ g[p].part = x } = { p \in Objects : f[p] # None /\ f[p].part = x }
    BY <1>3
  <2>2. x = l => { p \in Objects : g[p] # None /\ g[p].part = x } = { p \in Objects : f[p] # None /\ f[p].part = x } \cup {o}
    BY <1>3
  <2>3. x = l => BodyShares(g, s, x) = BodyShares(f, s, x) \cup {<<o, 0>>}
    BY <2>2 DEF BodyShares
  <2>4. x # l => BodyShares(g, s, x) = BodyShares(f, s, x)
    BY <2>1 DEF BodyShares
  <2>5. /\ Shares(v, f, s, x) = Named(v, x) \cup BodyShares(f, s, x)
        /\ Shares(v, g, s, x) = Named(v, x) \cup BodyShares(g, s, x)
    BY <1>1, SharesFinite
  <2> QED BY <2>3, <2>4, <2>5
<1>7. ASSUME NEW x \in Objects
      PROVE  /\ Cardinality(Shares(v, g, s, x)) \in Nat /\ Cardinality(Shares(v, f, s, x)) \in Nat
             /\ x # l => Cardinality(Shares(v, g, s, x)) = Cardinality(Shares(v, f, s, x))
             /\ x = l => Cardinality(Shares(v, g, s, x)) <= Cardinality(Shares(v, f, s, x)) + 1
  <2>1. IsFiniteSet(Shares(v, f, s, x)) /\ Cardinality(Shares(v, f, s, x)) \in Nat /\ Cardinality(Shares(v, g, s, x)) \in Nat
    BY <1>1, SharesFinite
  <2>2. \A y : Cardinality(Shares(v, f, s, x) \cup {y}) <= Cardinality(Shares(v, f, s, x)) + 1
    <3> TAKE y
    <3>1. \/ Cardinality(Shares(v, f, s, x) \cup {y}) = Cardinality(Shares(v, f, s, x))
          \/ Cardinality(Shares(v, f, s, x) \cup {y}) = Cardinality(Shares(v, f, s, x)) + 1
      BY <2>1, FS_AddElement
    <3> QED BY <2>1, <3>1
  <2>3. Cardinality(Shares(v, f, s, x) \cup {<<o, 0>>}) <= Cardinality(Shares(v, f, s, x)) + 1
    BY <2>2
  <2> QED BY <1>6, <2>1, <2>3
<1>8. \A x \in Objects : f[x] # None => f[x].owners \in Nat
  BY <1>1 DEF Object
<1>9. Types(v, g, s, e)
  BY <1>3 DEF Sound, Types
<1>10. \A i \in 1 .. Len(s) : /\ s[i].fun # None => s[i].fun \in Objects \ {o} /\ g[s[i].fun] = f[s[i].fun] /\ f[s[i].fun] # None
                              /\ s[i].part # None => s[i].part \in Objects \ {o} /\ g[s[i].part] = f[s[i].part]
                              /\ s[i].held # None => s[i].held \in Objects \ {o} /\ g[s[i].held] = f[s[i].held]
  <2>1. \A i \in 1 .. Len(s) : s[i].fun # o /\ s[i].part # o /\ s[i].held # o
    BY <1>1, <1>4 DEF Referred, InContexts
  <2>2. \A i \in 1 .. Len(s) : s[i].fun # None => f[s[i].fun] # None
    BY <1>1, ContextFields DEF Sound, AliveIn, Referred, InContexts
  <2> QED BY <1>1, <1>3, <2>1, <2>2, ContextFields DEF Sound
<1>11. ScopesIn(v, g, s)
  <2>1. \A i \in 1 .. Len(s) : LocalisedIn(g, s[i]) = LocalisedIn(f, s[i])
    BY <1>10 DEF LocalisedIn, Sound, Types
  <2>2. \A n \in Symbols : InDepth(g, s, n, 1 .. Len(s)) = InDepth(f, s, n, 1 .. Len(s))
    BY <2>1 DEF InDepth
  <2> QED BY <2>2 DEF ScopesIn, Sound
<1>12. \A x \in Objects : x \in Referred(v, g, s, e) => x \in Referred(v, f, s, e) \cup {l}
  BY <1>3 DEF Referred, Bodies
<1>13. AliveIn(v, g, s, e)
  <2> SUFFICES ASSUME NEW x \in Objects, x \in Referred(v, g, s, e) PROVE g[x] # None
    BY DEF AliveIn
  <2>1. x = o \/ x = l \/ x \in Referred(v, f, s, e)
    BY <1>12
  <2>2. x # o => f[x] # None
    BY <2>1, NamesAssumption DEF AliveIn, Sound, Sharable
  <2> QED BY <1>3, <2>2
<1>14. PartsIn(g, s)
  <2>1. ASSUME NEW x \in Objects, g[x] # None, g[x].part # None
        PROVE  ~Lambda(g, x) /\ Lambda(g, g[x].part)
    <3>1. CASE x = o
      BY <1>3, <1>4, <2>1, <3>1 DEF Lambda, Sharable
    <3>2. CASE x # o
      <4>1. f[x] # None /\ f[x].part # None /\ ~Lambda(f, x) /\ Lambda(f, f[x].part)
        BY <1>3, <2>1, <3>2 DEF Sound, PartsIn
      <4>2. f[x].part \in Objects
        BY <1>1, <4>1 DEF Object
      <4>3. f[x].part # o
        BY <1>4, <4>1 DEF Referred, Bodies
      <4> QED BY <1>3, <3>2, <4>1, <4>2, <4>3 DEF Lambda
    <3> QED BY <3>1, <3>2
  <2>2. ASSUME NEW i \in 1 .. Len(s), s[i].part # None PROVE Lambda(g, s[i].part)
    BY <1>10, <2>2 DEF Sound, PartsIn, Lambda
  <2> QED BY <2>1, <2>2 DEF PartsIn
<1>15. OwnedIn(v, g, s)
  <2> SUFFICES ASSUME NEW x \in Objects, g[x] # None, Lambda(g, x)
               PROVE  g[x].owners >= Cardinality(Shares(v, g, s, x))
    BY DEF OwnedIn
  <2>1. CASE x = o
    <3>1. Shares(v, g, s, x) = {}
      BY <1>4, <1>5, <1>6, <2>1
    <3>2. Cardinality(Shares(v, g, s, x)) = 0
      BY <3>1, FS_EmptySet
    <3> QED BY <1>3, <2>1, <3>2
  <2>2. CASE x # o
    <3>1. g[x] = f[x] /\ f[x].owners \in Nat /\ f[x].owners >= Cardinality(Shares(v, f, s, x))
      BY <1>3, <1>8, <2>2 DEF Sound, OwnedIn, Lambda
    <3>2. x = l => f[x].owners >= Cardinality(Shares(v, f, s, x)) + 1
      BY NamesAssumption DEF Sharable
    <3>3. /\ Cardinality(Shares(v, g, s, x)) \in Nat /\ Cardinality(Shares(v, f, s, x)) \in Nat
          /\ x = l => Cardinality(Shares(v, g, s, x)) <= Cardinality(Shares(v, f, s, x)) + 1
          /\ x # l => Cardinality(Shares(v, g, s, x)) = Cardinality(Shares(v, f, s, x))
      BY <1>7
    <3> QED BY <3>1, <3>2, <3>3
  <2> QED BY <2>1, <2>2
<1>16. InUse(g, s)
  <2>1. ASSUME NEW x \in Objects, x # o, x # l, Spare(f, s, x) PROVE Spare(g, s, x)
    BY <1>3, <1>6, <2>1 DEF Spare
  <2>2. \A i \in 1 .. Len(s) : BodyIn(g, s[i]) = BodyIn(f, s[i])
    BY <1>10 DEF BodyIn
  <2>3. \A i \in 1 .. Len(s) : i > 1 => i-1 \in 1 .. Len(s)
    BY <1>1
  <2>4. ASSUME NEW i \in 1 .. Len(s), s[i].fun # None, Lambda(g, s[i].fun)
        PROVE  (i > 1 /\ BodyIn(g, s[i-1]) = s[i].fun) \/ Spare(g, s, s[i].fun)
    BY <1>10, <2>1, <2>2, <2>3, <2>4 DEF Sound, InUse, InUseBy, Lambda
  <2>5. ASSUME NEW i \in 1 .. Len(s), s[i].held # None, Lambda(g, s[i].held)
        PROVE  BodyIn(g, s[i]) = s[i].held \/ Spare(g, s, s[i].held)
    BY <1>10, <2>1, <2>2, <2>5 DEF Sound, InUse, InUseBy, Lambda
  <2> QED BY <2>4, <2>5 DEF InUse
<1>17. Named(v, o) = {}
  BY <1>1, <1>5, SharesFinite
<1>18. BoundOnce(v, g, e)
  <2>1. \A x \in e : x \in Objects /\ x # o
    BY <1>5 DEF Sound, Types
  <2>2. ASSUME NEW x \in Objects, g[x] # None, ~Lambda(g, x)
        PROVE  (\A p, q \in Named(v, x) : p = q) /\ (x \in e => Named(v, x) = {})
    <3>1. CASE x = o
      BY <1>17, <3>1
    <3>2. CASE x # o
      BY <1>3, <2>2, <3>2 DEF Sound, BoundOnce, Lambda
    <3> QED BY <3>1, <3>2
  <2> QED BY <1>3, <2>1, <2>2 DEF BoundOnce, Sound, Lambda
<1>19. Shares(v, g, s, o) = {}
  BY <1>4, <1>5, <1>6
<1> QED BY <1>5, <1>9, <1>11, <1>12, <1>13, <1>14, <1>15, <1>16, <1>18, <1>19 DEF Sound

HoldingIn(s, k, h) == [s EXCEPT ![k].held = h]

\* A context has a function on its parser stack, or none.
LEMMA Hold ==
  ASSUME NEW v, NEW f, NEW s, NEW e, Sound(v, f, s, e),
         NEW k \in 1 .. Len(s), NEW h \in Objects \cup {None},
         h # None => /\ f[h] # None
                     /\ Lambda(f, h) => BodyIn(f, s[k]) = h \/ Spare(f, s, h),
         NEW r, r = HoldingIn(s, k, h)
  PROVE  /\ Sound(v, f, r, e)
         /\ Len(r) = Len(s)
         /\ \A i \in 1 .. Len(s) : /\ i # k => r[i] = s[i]
                                   /\ r[i].kind = s[i].kind /\ r[i].fun = s[i].fun
                                   /\ r[i].part = s[i].part /\ r[i].safe = s[i].safe
                                   /\ BodyIn(f, r[i]) = BodyIn(f, s[i])
         /\ \A x : BodyShares(f, r, x) = BodyShares(f, s, x)
<1>1. s \in Seq(Context) /\ DOMAIN s = 1 .. Len(s) /\ Len(s) \in Nat /\ \A i \in 1 .. Len(s) : s[i] \in Context
  BY ContextFields DEF Sound, Types
<1>2. /\ [s[k] EXCEPT !.held = h] \in Context
      /\ [s[k] EXCEPT !.held = h].kind = s[k].kind
      /\ [s[k] EXCEPT !.held = h].fun = s[k].fun
      /\ [s[k] EXCEPT !.held = h].part = s[k].part
      /\ [s[k] EXCEPT !.held = h].safe = s[k].safe
      /\ [s[k] EXCEPT !.held = h].held = h
  <2>1. s[k] \in Context
    BY <1>1
  <2> QED BY <2>1 DEF Context
<1>3. r = [s EXCEPT ![k] = [s[k] EXCEPT !.held = h]]
  BY DEF HoldingIn
<1>4. r \in Seq(Context) /\ Len(r) = Len(s)
  BY <1>1, <1>2, <1>3, ExceptSeq
<1>5. /\ DOMAIN r = 1 .. Len(s)
      /\ \A i \in 1 .. Len(s) : r[i] = IF i = k THEN [s[k] EXCEPT !.held = h] ELSE s[i]
  BY <1>1, <1>3
<1>6. \A i \in 1 .. Len(s) : /\ i # k => r[i] = s[i]
                             /\ r[i].kind = s[i].kind /\ r[i].fun = s[i].fun
                             /\ r[i].part = s[i].part /\ r[i].safe = s[i].safe
  BY <1>2, <1>5
<1>7. r[k].held = h
  BY <1>2, <1>5
<1>8. \A i \in 1 .. Len(s) : BodyIn(f, r[i]) = BodyIn(f, s[i]) /\ LocalisedIn(f, r[i]) = LocalisedIn(f, s[i])
  BY <1>6 DEF BodyIn, LocalisedIn
<1>9. \A x : BodyShares(f, r, x) = BodyShares(f, s, x)
  BY <1>1, <1>5, <1>6 DEF BodyShares
<1>10. \A x : Shares(v, f, r, x) = Shares(v, f, s, x)
  <2> TAKE x
  <2>1. Shares(v, f, s, x) = Named(v, x) \cup BodyShares(f, s, x)
    BY <1>1, SharesFinite
  <2>2. Shares(v, f, r, x) = Named(v, x) \cup BodyShares(f, r, x)
    BY <1>1, <1>4, <1>5, SharesFinite
  <2> QED BY <1>9, <2>1, <2>2
<1>11. Types(v, f, r, e)
  BY <1>4, <1>6 DEF Sound, Types
<1>12. ScopesIn(v, f, r)
  <2>1. \A n \in Symbols : InDepth(f, r, n, 1 .. Len(r)) = InDepth(f, s, n, 1 .. Len(s))
    BY <1>4, <1>8 DEF InDepth
  <2> QED BY <2>1 DEF Sound, ScopesIn
<1>13. AliveIn(v, f, r, e)
  <2> SUFFICES ASSUME NEW o \in Objects, o \in Referred(v, f, r, e) PROVE f[o] # None
    BY DEF AliveIn
  <2>1. o \in InContexts(r) => o = h \/ o \in InContexts(s)
    <3> SUFFICES ASSUME NEW i \in 1 .. Len(s), o = r[i].fun \/ o = r[i].part \/ o = r[i].held
                 PROVE  o = h \/ o \in InContexts(s)
      BY <1>5 DEF InContexts
    <3>1. o = h \/ o = s[i].fun \/ o = s[i].part \/ o = s[i].held
      BY <1>6, <1>7
    <3> QED BY <1>1, <3>1 DEF InContexts
  <2>2. o = h \/ o \in Referred(v, f, s, e)
    BY <2>1 DEF Referred
  <2> QED BY <2>2, NamesAssumption DEF Sound, AliveIn
<1>14. PartsIn(f, r)
  BY <1>4, <1>6 DEF Sound, PartsIn
<1>15. OwnedIn(v, f, r)
  BY <1>10 DEF Sound, OwnedIn
<1>16. InUse(f, r)
  <2>1. \A x : Spare(f, s, x) => Spare(f, r, x)
    BY <1>9 DEF Spare
  <2>2. \A i \in 1 .. Len(s) : i > 1 => i-1 \in 1 .. Len(s)
    BY <1>1
  <2>3. ASSUME NEW i \in 1 .. Len(s), r[i].fun # None, Lambda(f, r[i].fun)
        PROVE  (i > 1 /\ BodyIn(f, r[i-1]) = r[i].fun) \/ Spare(f, r, r[i].fun)
    BY <1>6, <1>8, <2>1, <2>2, <2>3 DEF Sound, InUse
  <2>4. ASSUME NEW i \in 1 .. Len(s), r[i].held # None, Lambda(f, r[i].held)
        PROVE  BodyIn(f, r[i]) = r[i].held \/ Spare(f, r, r[i].held)
    <3>1. CASE i = k
      BY <1>7, <1>8, <2>1, <2>4, <3>1
    <3>2. CASE i # k
      BY <1>6, <1>8, <2>1, <2>4, <3>2 DEF Sound, InUse
    <3> QED BY <3>1, <3>2
  <2> QED BY <1>4, <2>3, <2>4 DEF InUse
<1>17. Sound(v, f, r, e)
  BY <1>11, <1>12, <1>13, <1>14, <1>15, <1>16 DEF Sound
<1> QED BY <1>4, <1>6, <1>8, <1>9, <1>17

\* The names that c localises have got a binding that is no function.
Grown(v, f, c, w) ==
  /\ w \in [Symbols -> Seq(Binding)]
  /\ \A n \in Symbols : Len(w[n]) = IF n \in LocalisedIn(f, c) THEN Len(v[n]) + 1 ELSE Len(v[n])
  /\ \A n \in Symbols : \A i \in 1 .. Len(w[n]) :
       w[n][i] \in Objects => i \in 1 .. Len(v[n]) /\ w[n][i] = v[n][i]

\* A context is pushed: names that it localises get a binding that is no
\* function, and the lambda in its body is not in use.
LEMMA Push ==
  ASSUME NEW v, NEW f, NEW s, NEW e, Sound(v, f, s, e), Len(s) < MaxDepth,
         NEW c \in Context, c.kind = "function" <=> c.fun # None, c.fun # None => c.part = None,
         c.held = None,
         c.part # None => Sharable(v, f, s, e, c.part) /\ ~InUseBy(s, c.part),
         c.fun # None => /\ f[c.fun] # None
                         /\ Lambda(f, c.fun) => \/ Len(s) > 0 /\ BodyIn(f, s[Len(s)]) = c.fun
                                                \/ Spare(f, s, c.fun),
         NEW w, Grown(v, f, c, w)
  PROVE  Sound(w, f, Append(s, c), e)
<1> DEFINE r == Append(s, c)
           k == Len(s) + 1
<1>0. /\ w \in [Symbols -> Seq(Binding)]
      /\ \A n \in Symbols : Len(w[n]) = IF n \in LocalisedIn(f, c) THEN Len(v[n]) + 1 ELSE Len(v[n])
      /\ \A n \in Symbols : \A i \in 1 .. Len(w[n]) :
           w[n][i] \in Objects => i \in 1 .. Len(v[n]) /\ w[n][i] = v[n][i]
  BY DEF Grown
<1>1. s \in Seq(Context) /\ DOMAIN s = 1 .. Len(s) /\ Len(s) \in Nat
  BY ContextFields DEF Sound, Types
<1>2. r \in Seq(Context) /\ Len(r) = k /\ r[k] = c /\ \A i \in 1 .. Len(s) : r[i] = s[i]
  BY <1>1, AppendProperties
<1>3. DOMAIN r = 1 .. k /\ k \in Nat /\ \A i \in 1 .. k : i = k \/ i \in 1 .. Len(s)
  BY <1>1, <1>2, LenProperties
<1> HIDE DEF r
<1>4. Types(w, f, r, e)
  <2>1. k <= MaxDepth
    BY <1>1, NamesAssumption
  <2>2. \A i \in 1 .. k : /\ r[i].kind = "function" <=> r[i].fun # None
                          /\ r[i].fun # None => r[i].part = None
    <3> SUFFICES ASSUME NEW i \in 1 .. k
                 PROVE  /\ r[i].kind = "function" <=> r[i].fun # None
                        /\ r[i].fun # None => r[i].part = None
      OBVIOUS
    <3>1. CASE i = k
      BY <1>2, <3>1
    <3>2. CASE i \in 1 .. Len(s)
      BY <1>2, <3>2 DEF Sound, Types
    <3> QED BY <1>3, <3>1, <3>2
  <2>3. f \in [Objects -> Object \cup {None}] /\ e \subseteq Objects
    BY DEF Sound, Types
  <2> QED BY <1>0, <1>2, <2>1, <2>2, <2>3 DEF Types
<1>5. \A n \in Symbols : DOMAIN w[n] = 1 .. Len(w[n]) /\ DOMAIN v[n] = 1 .. Len(v[n])
  BY <1>0, LenProperties DEF Sound, Types
<1>6. \A o \in Objects : Named(w, o) \subseteq Named(v, o)
  BY <1>0, <1>5 DEF Named
<1>7. \A o \in Objects : o \in OnStacks(w) => o \in OnStacks(v)
  <2> SUFFICES ASSUME NEW o \in Objects, NEW n \in Symbols, NEW i \in DOMAIN w[n], w[n][i] = o
               PROVE  o \in OnStacks(v)
    BY DEF OnStacks
  <2>1. i \in DOMAIN v[n] /\ v[n][i] = o
    BY <1>0, <1>5
  <2> QED BY <2>1 DEF OnStacks
<1>8. ASSUME NEW o \in Objects
      PROVE  /\ c.part # o => BodyShares(f, r, o) = BodyShares(f, s, o)
             /\ c.part = o => BodyShares(f, r, o) = BodyShares(f, s, o) \cup {<<None, k>>}
  <2>1. c.part # o => { j \in DOMAIN r : r[j].part = o } = { j \in DOMAIN s : s[j].part = o }
    BY <1>1, <1>2, <1>3
  <2>2. c.part = o => { j \in DOMAIN r : r[j].part = o } = { j \in DOMAIN s : s[j].part = o } \cup {k}
    BY <1>1, <1>2, <1>3
  <2> QED BY <2>1, <2>2 DEF BodyShares
<1>9. ASSUME NEW o \in Objects
      PROVE  /\ Cardinality(Shares(w, f, r, o)) \in Nat /\ Cardinality(Shares(v, f, s, o)) \in Nat
             /\ c.part # o => Cardinality(Shares(w, f, r, o)) <= Cardinality(Shares(v, f, s, o))
             /\ c.part = o => Cardinality(Shares(w, f, r, o)) <= Cardinality(Shares(v, f, s, o)) + 1
  <2>1. /\ IsFiniteSet(Shares(v, f, s, o))
        /\ Cardinality(Shares(v, f, s, o)) \in Nat
        /\ Cardinality(Shares(w, f, r, o)) \in Nat
        /\ Shares(v, f, s, o) = Named(v, o) \cup BodyShares(f, s, o)
        /\ Shares(w, f, r, o) = Named(w, o) \cup BodyShares(f, r, o)
    BY <1>1, <1>2, <1>3, SharesFinite
  <2>2. CASE c.part # o
    <3>1. Shares(w, f, r, o) \subseteq Shares(v, f, s, o)
      BY <1>6, <1>8, <2>1, <2>2
    <3> QED BY <2>1, <2>2, <3>1, Fewer
  <2>3. CASE c.part = o
    <3> DEFINE y == <<None, k>>
               S == Shares(v, f, s, o) \cup {y}
    <3>1. Shares(w, f, r, o) \subseteq S
      BY <1>6, <1>8, <2>1, <2>3
    <3> HIDE DEF y
    <3>2. IsFiniteSet(S) /\ (\/ Cardinality(S) = Cardinality(Shares(v, f, s, o))
                             \/ Cardinality(S) = Cardinality(Shares(v, f, s, o)) + 1)
      BY <2>1, FS_AddElement
    <3> HIDE DEF S
    <3>3. Cardinality(Shares(w, f, r, o)) <= Cardinality(S)
      BY <3>1, <3>2, Fewer
    <3>4. Cardinality(S) <= Cardinality(Shares(v, f, s, o)) + 1
      BY <2>1, <3>2
    <3>5. Cardinality(S) \in Nat
      BY <3>2, FS_CardinalityType
    <3>6. Cardinality(Shares(w, f, r, o)) <= Cardinality(Shares(v, f, s, o)) + 1
      BY <2>1, <3>3, <3>4, <3>5
    <3> QED BY <2>1, <2>3, <3>6
  <2> QED BY <2>2, <2>3
<1>10. ScopesIn(w, f, r)
  <2> SUFFICES ASSUME NEW n \in Symbols PROVE Len(w[n]) = 1 + Cardinality(InDepth(f, r, n, 1 .. k))
    BY <1>2 DEF ScopesIn
  <2>1. /\ Len(v[n]) = 1 + Cardinality(InDepth(f, s, n, 1 .. Len(s)))
        /\ IsFiniteSet(InDepth(f, s, n, 1 .. Len(s)))
        /\ Cardinality(InDepth(f, s, n, 1 .. Len(s))) \in Nat
    BY <1>1, DepthFacts DEF Sound, ScopesIn
  <2>2. CASE n \in LocalisedIn(f, c)
    <3>1. InDepth(f, r, n, 1 .. k) = InDepth(f, s, n, 1 .. Len(s)) \cup {k}
      BY <1>1, <1>2, <1>3, <2>2 DEF InDepth
    <3>2. k \notin InDepth(f, s, n, 1 .. Len(s))
      BY <1>1 DEF InDepth
    <3>3. Cardinality(InDepth(f, s, n, 1 .. Len(s)) \cup {k}) = Cardinality(InDepth(f, s, n, 1 .. Len(s))) + 1
      BY <2>1, <3>2, FS_AddElement
    <3>4. Len(w[n]) = Len(v[n]) + 1
      BY <1>0, <2>2
    <3>5. Cardinality(InDepth(f, r, n, 1 .. k)) = Cardinality(InDepth(f, s, n, 1 .. Len(s))) + 1
      BY <3>1, <3>3
    <3> HIDE DEF k
    <3> QED BY <2>1, <3>4, <3>5
  <2>3. CASE n \notin LocalisedIn(f, c)
    <3>1. InDepth(f, r, n, 1 .. k) = InDepth(f, s, n, 1 .. Len(s))
      BY <1>1, <1>2, <1>3, <2>3 DEF InDepth
    <3> QED BY <1>0, <2>1, <2>3, <3>1
  <2> QED BY <2>2, <2>3
<1>11. AliveIn(w, f, r, e)
  <2> SUFFICES ASSUME NEW o \in Objects, o \in Referred(w, f, r, e) PROVE f[o] # None
    BY DEF AliveIn
  <2>1. o \in InContexts(r) => o \in InContexts(s) \/ o = c.fun \/ o = c.part \/ o = c.held
    BY <1>1, <1>2, <1>3 DEF InContexts
  <2>2. o \in Referred(v, f, s, e) \/ o = c.fun \/ o = c.part
    BY <1>7, <2>1, NamesAssumption DEF Referred
  <2> QED BY <2>2, NamesAssumption DEF Sound, AliveIn, Sharable
<1>12. PartsIn(f, r)
  BY <1>2, <1>3 DEF Sound, PartsIn, Sharable
<1>13. OwnedIn(w, f, r)
  <2> SUFFICES ASSUME NEW o \in Objects, f[o] # None, Lambda(f, o)
               PROVE  f[o].owners >= Cardinality(Shares(w, f, r, o))
    BY DEF OwnedIn
  <2>1. f[o].owners \in Nat /\ f[o].owners >= Cardinality(Shares(v, f, s, o))
    BY DEF Sound, OwnedIn, Types, Object
  <2>2. c.part = o => f[o].owners >= Cardinality(Shares(v, f, s, o)) + 1
    BY NamesAssumption DEF Sharable
  <2>3. /\ Cardinality(Shares(w, f, r, o)) \in Nat /\ Cardinality(Shares(v, f, s, o)) \in Nat
        /\ c.part # o => Cardinality(Shares(w, f, r, o)) <= Cardinality(Shares(v, f, s, o))
        /\ c.part = o => Cardinality(Shares(w, f, r, o)) <= Cardinality(Shares(v, f, s, o)) + 1
    BY <1>9
  <2> QED BY <2>1, <2>2, <2>3
<1>14. InUse(f, r)
  <2>1. ASSUME NEW x \in Objects, x # c.part, Spare(f, s, x) PROVE Spare(f, r, x)
    BY <1>8, <2>1 DEF Spare
  <2>2. \A i \in 1 .. Len(s) : i > 1 => i-1 \in 1 .. Len(s)
    BY <1>1
  <2>3. /\ \A i \in 1 .. Len(s) : s[i].fun \in Objects \cup {None} /\ s[i].held \in Objects \cup {None}
        /\ c.fun \in Objects \cup {None}
    BY ContextFields DEF Sound, Context
  <2>4. ASSUME NEW i \in 1 .. k, r[i].fun # None, Lambda(f, r[i].fun)
        PROVE  (i > 1 /\ BodyIn(f, r[i-1]) = r[i].fun) \/ Spare(f, r, r[i].fun)
    <3>1. CASE i = k
      <4>1. r[i].fun = c.fun /\ c.fun \in Objects /\ c.fun # c.part
        BY <1>2, <2>3, <2>4, <3>1
      <4>2. Len(s) > 0 => i > 1 /\ r[i-1] = s[Len(s)]
        BY <1>1, <1>2, <3>1
      <4> QED BY <2>1, <2>4, <4>1, <4>2
    <3>2. CASE i \in 1 .. Len(s)
      <4>1. r[i] = s[i] /\ (s[i].fun # c.part \/ c.part = None)
        BY <1>2, <3>2 DEF InUseBy
      <4>2. (i > 1 /\ BodyIn(f, s[i-1]) = s[i].fun) \/ Spare(f, s, s[i].fun)
        BY <1>2, <2>4, <3>2 DEF Sound, InUse
      <4>3. i > 1 => r[i-1] = s[i-1]
        BY <1>2, <2>2, <3>2
      <4> QED BY <1>2, <2>1, <2>3, <2>4, <3>2, <4>1, <4>2, <4>3
    <3> QED BY <1>3, <3>1, <3>2
  <2>5. ASSUME NEW i \in 1 .. k, r[i].held # None, Lambda(f, r[i].held)
        PROVE  BodyIn(f, r[i]) = r[i].held \/ Spare(f, r, r[i].held)
    <3>1. i \in 1 .. Len(s) /\ r[i] = s[i]
      BY <1>2, <1>3, <2>5
    <3>2. s[i].held # c.part
      BY <2>5, <3>1 DEF InUseBy
    <3>3. BodyIn(f, s[i]) = s[i].held \/ Spare(f, s, s[i].held)
      BY <2>5, <3>1 DEF Sound, InUse
    <3> QED BY <2>1, <2>3, <2>5, <3>1, <3>2, <3>3
  <2> QED BY <1>2, <2>4, <2>5 DEF InUse
<1>15. BoundOnce(w, f, e)
  BY <1>6 DEF Sound, BoundOnce
<1> QED BY <1>4, <1>10, <1>11, <1>12, <1>13, <1>14, <1>15 DEF Sound, r

Rebound(v, n, b) == [v EXCEPT ![n][Len(v[n])] = b]

\* A name whose binding is no function is bound to a function: a lambda that
\* has an owner left, or a function that is not bound yet.
LEMMA BindObject ==
  ASSUME NEW v, NEW f, NEW s, NEW e, Sound(v, f, s, e),
         NEW n \in Symbols, v[n][Len(v[n])] \notin Objects,
         NEW o \in Objects, f[o] # None,
         Lambda(f, o) => Sharable(v, f, s, e, o),
         ~Lambda(f, o) => Named(v, o) = {} /\ o \notin e,
         NEW w, w = Rebound(v, n, o)
  PROVE  Sound(w, f, s, e)
<1> DEFINE k == Len(v[n])
           y == <<n, k>>
<1>1. /\ DOMAIN s = 1 .. Len(s) /\ Len(s) \in Nat
      /\ v \in [Symbols -> Seq(Binding)]
  BY ContextFields DEF Sound, Types
<1>2. v[n] \in Seq(Binding) /\ k \in 1 .. Len(v[n]) /\ k \in 1 .. MaxDepth + 1
  BY StacksAreBounded, NamesAssumption
<1>3. /\ [v[n] EXCEPT ![k] = o] \in Seq(Binding)
      /\ Len([v[n] EXCEPT ![k] = o]) = Len(v[n])
      /\ \A j \in 1 .. Len(v[n]) : [v[n] EXCEPT ![k] = o][j] = IF j = k THEN o ELSE v[n][j]
  <2>1. o \in Binding
    BY DEF Binding
  <2> QED BY <1>2, <2>1, ExceptSeq
<1>4. w = [v EXCEPT ![n] = [v[n] EXCEPT ![k] = o]]
  BY DEF Rebound
<1>5. /\ w \in [Symbols -> Seq(Binding)]
      /\ \A m \in Symbols : Len(w[m]) = Len(v[m])
      /\ \A m \in Symbols : m # n => w[m] = v[m]
      /\ \A j \in 1 .. Len(v[n]) : w[n][j] = IF j = k THEN o ELSE v[n][j]
  BY <1>1, <1>3, <1>4
<1>6. \A m \in Symbols : DOMAIN w[m] = 1 .. Len(v[m]) /\ DOMAIN v[m] = 1 .. Len(v[m])
  <2> TAKE m \in Symbols
  <2>1. w[m] \in Seq(Binding) /\ Len(w[m]) = Len(v[m]) /\ v[m] \in Seq(Binding)
    BY <1>1, <1>5
  <2> QED BY <2>1, LenProperties
<1>7. \A m \in Symbols : \A j \in 1 .. Len(v[m]) : w[m][j] = v[m][j] \/ (m = n /\ j = k /\ w[m][j] = o)
  BY <1>5
<1> HIDE DEF k
<1>8. ASSUME NEW x \in Objects
      PROVE  /\ x # o => Named(w, x) \subseteq Named(v, x)
             /\ Named(w, o) \subseteq Named(v, o) \cup {y}
  <2>1. x # o => Named(w, x) \subseteq Named(v, x)
    BY <1>6, <1>7 DEF Named
  <2>2. ASSUME NEW p \in Named(w, o), p \notin Named(v, o) PROVE p = y
    <3>1. p \in Symbols \X (1 .. MaxDepth + 1) /\ p[2] \in DOMAIN w[p[1]] /\ w[p[1]][p[2]] = o
      BY <2>2 DEF Named
    <3>2. p[1] \in Symbols /\ p[2] \in 1 .. Len(v[p[1]]) /\ p[2] \in DOMAIN v[p[1]] /\ p = <<p[1], p[2]>>
      BY <1>6, <3>1
    <3>3. v[p[1]][p[2]] # o
      BY <2>2, <3>1, <3>2 DEF Named
    <3>4. p[1] = n /\ p[2] = k
      BY <1>7, <3>1, <3>2, <3>3
    <3> QED BY <3>2, <3>4
  <2> QED BY <2>1, <2>2
<1> HIDE DEF y
<1>9. ASSUME NEW x \in Objects
      PROVE  /\ Cardinality(Shares(w, f, s, x)) \in Nat /\ Cardinality(Shares(v, f, s, x)) \in Nat
             /\ x # o => Cardinality(Shares(w, f, s, x)) <= Cardinality(Shares(v, f, s, x))
             /\ x = o => Cardinality(Shares(w, f, s, x)) <= Cardinality(Shares(v, f, s, x)) + 1
  <2>1. /\ IsFiniteSet(Shares(v, f, s, x))
        /\ Cardinality(Shares(v, f, s, x)) \in Nat
        /\ Cardinality(Shares(w, f, s, x)) \in Nat
        /\ Shares(v, f, s, x) = Named(v, x) \cup BodyShares(f, s, x)
        /\ Shares(w, f, s, x) = Named(w, x) \cup BodyShares(f, s, x)
    BY <1>1, SharesFinite
  <2>2. CASE x # o
    <3>1. Shares(w, f, s, x) \subseteq Shares(v, f, s, x)
      BY <1>8, <2>1, <2>2
    <3> QED BY <2>1, <2>2, <3>1, Fewer
  <2>3. CASE x = o
    <3> DEFINE S == Shares(v, f, s, x) \cup {y}
    <3>1. Shares(w, f, s, x) \subseteq S
      BY <1>8, <2>1, <2>3
    <3>2. IsFiniteSet(S) /\ (\/ Cardinality(S) = Cardinality(Shares(v, f, s, x))
                             \/ Cardinality(S) = Cardinality(Shares(v, f, s, x)) + 1)
      BY <2>1, FS_AddElement
    <3> HIDE DEF S
    <3>3. Cardinality(Shares(w, f, s, x)) <= Cardinality(S) /\ Cardinality(S) \in Nat
      BY <3>1, <3>2, Fewer
    <3>4. Cardinality(S) <= Cardinality(Shares(v, f, s, x)) + 1
      BY <2>1, <3>2
    <3>5. Cardinality(Shares(w, f, s, x)) <= Cardinality(Shares(v, f, s, x)) + 1
      BY <2>1, <3>3, <3>4
    <3> QED BY <2>1, <2>3, <3>5
  <2> QED BY <2>2, <2>3
<1>10. Types(w, f, s, e) /\ ScopesIn(w, f, s) /\ PartsIn(f, s) /\ InUse(f, s)
  BY <1>5 DEF Sound, Types, ScopesIn
<1>11. AliveIn(w, f, s, e)
  <2> SUFFICES ASSUME NEW x \in Objects, x \in Referred(w, f, s, e) PROVE f[x] # None
    BY DEF AliveIn
  <2>1. ASSUME x \in OnStacks(w) PROVE x = o \/ x \in OnStacks(v)
    <3>1. PICK m \in Symbols : \E j \in DOMAIN w[m] : w[m][j] = x
      BY <2>1 DEF OnStacks
    <3>2. PICK j \in DOMAIN w[m] : w[m][j] = x
      BY <3>1
    <3>3. w[m][j] = v[m][j] \/ w[m][j] = o
      BY <1>6, <1>7
    <3>4. j \in DOMAIN v[m]
      BY <1>6
    <3> QED BY <3>2, <3>3, <3>4 DEF OnStacks
  <2>2. x = o \/ x \in Referred(v, f, s, e)
    BY <2>1 DEF Referred
  <2> QED BY <2>2 DEF Sound, AliveIn
<1>12. OwnedIn(w, f, s)
  <2> SUFFICES ASSUME NEW x \in Objects, f[x] # None, Lambda(f, x)
               PROVE  f[x].owners >= Cardinality(Shares(w, f, s, x))
    BY DEF OwnedIn
  <2>1. f[x].owners \in Nat /\ f[x].owners >= Cardinality(Shares(v, f, s, x))
    BY DEF Sound, OwnedIn, Types, Object
  <2>2. x = o => f[x].owners >= Cardinality(Shares(v, f, s, x)) + 1
    BY DEF Sharable
  <2>3. /\ Cardinality(Shares(w, f, s, x)) \in Nat /\ Cardinality(Shares(v, f, s, x)) \in Nat
        /\ x # o => Cardinality(Shares(w, f, s, x)) <= Cardinality(Shares(v, f, s, x))
        /\ x = o => Cardinality(Shares(w, f, s, x)) <= Cardinality(Shares(v, f, s, x)) + 1
    BY <1>9
  <2> QED BY <2>1, <2>2, <2>3
<1>13. BoundOnce(w, f, e)
  <2>1. ASSUME NEW x \in Objects, f[x] # None, ~Lambda(f, x)
        PROVE  (\A p, q \in Named(w, x) : p = q) /\ (x \in e => Named(w, x) = {})
    <3>1. CASE x = o
      <4>1. Named(w, o) \subseteq {y} /\ o \notin e
        BY <1>8, <2>1, <3>1
      <4> QED BY <3>1, <4>1
    <3>2. CASE x # o
      <4>1. Named(w, x) \subseteq Named(v, x)
        BY <1>8, <3>2
      <4> QED BY <2>1, <4>1 DEF Sound, BoundOnce
    <3> QED BY <3>1, <3>2
  <2> QED BY <2>1 DEF Sound, BoundOnce
<1> QED BY <1>10, <1>11, <1>12, <1>13 DEF Sound

\* A function that is not bound is put on the list of expunged functions.
LEMMA ToExpunged ==
  ASSUME NEW v, NEW f, NEW s, NEW e, Sound(v, f, s, e),
         NEW o \in Objects, f[o] # None, ~Lambda(f, o), Named(v, o) = {}
  PROVE  Sound(v, f, s, e \cup {o})
<1>1. Types(v, f, s, e \cup {o})
  BY DEF Sound, Types
<1>2. AliveIn(v, f, s, e \cup {o})
  BY DEF Sound, AliveIn, Referred
<1>3. BoundOnce(v, f, e \cup {o})
  BY DEF Sound, BoundOnce
<1> QED BY <1>1, <1>2, <1>3 DEF Sound

\* An object is on a value stack as long as it has a name.
LEMMA OnlyNamed ==
  ASSUME NEW v, NEW f, NEW s, NEW e, Sound(v, f, s, e), NEW o \in Objects
  PROVE  o \in OnStacks(v) <=> Named(v, o) # {}
BY SharesAreReferences

\* What is known of an object that has lost a name
HasLost(w, f, s, e, o) ==
  /\ f[o] # None
  /\ Lambda(f, o) => f[o].owners >= Cardinality(Shares(w, f, s, o)) + 1
  /\ ~Lambda(f, o) => o \notin OnStacks(w) /\ o \notin e /\ Named(w, o) = {}

\* A name is not bound to a function any more.
LEMMA Unbind ==
  ASSUME NEW v, NEW f, NEW s, NEW e, Sound(v, f, s, e),
         NEW n \in Symbols, NEW b \in Binding \ Objects,
         NEW w, w = Rebound(v, n, b),
         NEW o, o = v[n][Len(v[n])]
  PROVE  /\ Sound(w, f, s, e)
         /\ w[n][Len(w[n])] = b /\ Len(w[n]) = Len(v[n])
         /\ o \in Objects => HasLost(w, f, s, e, o)
<1> DEFINE k == Len(v[n])
           y == <<n, k>>
<1>1. /\ DOMAIN s = 1 .. Len(s) /\ Len(s) \in Nat
      /\ v \in [Symbols -> Seq(Binding)]
  BY ContextFields DEF Sound, Types
<1>2. v[n] \in Seq(Binding) /\ k \in 1 .. Len(v[n]) /\ k \in 1 .. MaxDepth + 1
  BY StacksAreBounded, NamesAssumption
<1>3. /\ [v[n] EXCEPT ![k] = b] \in Seq(Binding)
      /\ Len([v[n] EXCEPT ![k] = b]) = Len(v[n])
      /\ \A j \in 1 .. Len(v[n]) : [v[n] EXCEPT ![k] = b][j] = IF j = k THEN b ELSE v[n][j]
  BY <1>2, ExceptSeq
<1>4. w = [v EXCEPT ![n] = [v[n] EXCEPT ![k] = b]]
  BY DEF Rebound
<1>5. /\ w \in [Symbols -> Seq(Binding)]
      /\ \A m \in Symbols : Len(w[m]) = Len(v[m])
      /\ \A m \in Symbols : m # n => w[m] = v[m]
      /\ \A j \in 1 .. Len(v[n]) : w[n][j] = IF j = k THEN b ELSE v[n][j]
  BY <1>1, <1>3, <1>4
<1>6. Sound(w, f, s, e)
  <2>1. \A m \in Symbols : \A i \in 1 .. Len(v[m]) : w[m][i] = v[m][i] \/ w[m][i] \notin Objects
    BY <1>5
  <2> QED BY <1>5, <2>1, BindPlain
<1>7. w[n][Len(w[n])] = b /\ Len(w[n]) = Len(v[n])
  BY <1>2, <1>5
<1>8. \A m \in Symbols : DOMAIN w[m] = 1 .. Len(v[m]) /\ DOMAIN v[m] = 1 .. Len(v[m])
  <2> TAKE m \in Symbols
  <2>1. w[m] \in Seq(Binding) /\ Len(w[m]) = Len(v[m]) /\ v[m] \in Seq(Binding)
    BY <1>1, <1>5
  <2> QED BY <2>1, LenProperties
<1>9. ASSUME o \in Objects
      PROVE  /\ f[o] # None
             /\ Lambda(f, o) => f[o].owners >= Cardinality(Shares(w, f, s, o)) + 1
             /\ ~Lambda(f, o) => o \notin OnStacks(w) /\ o \notin e /\ Named(w, o) = {}
  <2>1. y \in Named(v, o)
    BY <1>2, <1>9, SharesAreReferences
  <2>2. y \notin Named(w, o)
    <3>1. w[n][k] # o
      BY <1>2, <1>5, <1>9
    <3> QED BY <3>1 DEF Named
  <2>3. f[o] # None
    BY <1>9, <2>1, SharesAreReferences DEF Sound, AliveIn, Referred
  <2>4. Named(w, o) \subseteq Named(v, o)
    BY <1>5, <1>8, <1>9 DEF Named
  <2> HIDE DEF y
  <2>5. ASSUME Lambda(f, o) PROVE f[o].owners >= Cardinality(Shares(w, f, s, o)) + 1
    <3>1. /\ IsFiniteSet(Shares(v, f, s, o))
          /\ Shares(v, f, s, o) = Named(v, o) \cup BodyShares(f, s, o)
          /\ Shares(w, f, s, o) = Named(w, o) \cup BodyShares(f, s, o)
      BY <1>1, SharesFinite
    <3>2. y \notin BodyShares(f, s, o)
      <4>1. n # None /\ k # 0
        BY <1>2, NamesAssumption
      <4> HIDE DEF k
      <4> QED BY <4>1 DEF BodyShares, y
    <3>3. Shares(w, f, s, o) \subseteq Shares(v, f, s, o) /\ y \in Shares(v, f, s, o) \ Shares(w, f, s, o)
      BY <2>1, <2>2, <2>4, <3>1, <3>2
    <3>4. /\ Cardinality(Shares(w, f, s, o)) + 1 <= Cardinality(Shares(v, f, s, o))
          /\ Cardinality(Shares(w, f, s, o)) \in Nat /\ Cardinality(Shares(v, f, s, o)) \in Nat
      BY <3>1, <3>3, Fewer
    <3>5. f[o].owners \in Nat /\ f[o].owners >= Cardinality(Shares(v, f, s, o))
      BY <1>9, <2>3, <2>5 DEF Sound, OwnedIn, Types, Object
    <3> QED BY <3>4, <3>5
  <2>6. ASSUME ~Lambda(f, o) PROVE o \notin OnStacks(w) /\ o \notin e /\ Named(w, o) = {}
    <3>1. \A p, q \in Named(v, o) : p = q
      BY <1>9, <2>3, <2>6 DEF Sound, BoundOnce
    <3>2. Named(w, o) = {}
      BY <2>1, <2>2, <2>4, <3>1
    <3>3. o \notin e
      BY <1>9, <2>1, <2>3, <2>6 DEF Sound, BoundOnce
    <3>4. o \in OnStacks(w) <=> Named(w, o) # {}
      BY <1>6, <1>9, OnlyNamed
    <3> QED BY <3>2, <3>3, <3>4
  <2> QED BY <2>3, <2>5, <2>6
<1> QED BY <1>6, <1>7, <1>9 DEF HasLost

\* Nothing is left on the stack, and no name is bound.
LEMMA ClearSound ==
  ASSUME NEW v, NEW f, NEW s, NEW e, Sound(v, f, s, e)
  PROVE  Sound([n \in Symbols |-> <<"unused">>], Released(f, { s[i].part : i \in DOMAIN s }), <<>>, e)
<1> DEFINE w == [n \in Symbols |-> SubSeq(v[n], 1, Len(v[n]) - Cardinality(InDepth(f, s, n, 0+1 .. Len(s))))]
           ls == { s[i].part : i \in 0+1 .. Len(s) }
           r == SubSeq(s, 1, 0)
           u == [n \in Symbols |-> <<"unused">>]
<1>1. s \in Seq(Context) /\ DOMAIN s = 1 .. Len(s) /\ Len(s) \in Nat
  BY ContextFields DEF Sound, Types
<1>2. 0 \in 0 .. Len(s)
  BY <1>1
<1>3. Sound(w, Released(f, ls), r, e)
  BY <1>2, PopSound
<1>4. r = <<>>
  BY <1>1
<1>5. ls = { s[i].part : i \in DOMAIN s }
  BY <1>1
<1> HIDE DEF w, ls, r
<1>6. Sound(w, Released(f, ls), <<>>, e)
  BY <1>3, <1>4
<1>7. \A n \in Symbols : Len(w[n]) = 1
  <2> TAKE n \in Symbols
  <2>1. Len(w[n]) = 1 + Cardinality(InDepth(Released(f, ls), <<>>, n, 1 .. 0))
    <3>1. Len(w[n]) = 1 + Cardinality(InDepth(Released(f, ls), <<>>, n, 1 .. Len(<<>>)))
      BY <1>6 DEF Sound, ScopesIn
    <3> QED BY <3>1
  <2>2. InDepth(Released(f, ls), <<>>, n, 1 .. 0) = {}
    BY DEF InDepth
  <2> QED BY <2>1, <2>2, FS_EmptySet
<1>8. /\ u \in [Symbols -> Seq(Binding)]
      /\ \A n \in Symbols : Len(u[n]) = Len(w[n])
      /\ \A n \in Symbols : \A i \in 1 .. Len(w[n]) : u[n][i] = w[n][i] \/ u[n][i] \notin Objects
  <2>1. <<"unused">> \in Seq(Binding) /\ Len(<<"unused">>) = 1 /\ <<"unused">>[1] = "unused"
    BY DEF Binding
  <2>2. \A n \in Symbols : u[n] = <<"unused">>
    OBVIOUS
  <2>3. u \in [Symbols -> Seq(Binding)]
    BY <2>1
  <2> HIDE DEF u
  <2>4. ASSUME NEW n \in Symbols, NEW i \in 1 .. Len(w[n]) PROVE i = 1
    <3>1. Len(w[n]) = 1
      BY <1>7
    <3> QED BY <2>4, <3>1
  <2>5. \A n \in Symbols : \A i \in 1 .. Len(w[n]) : u[n][i] \notin Objects
    BY <2>1, <2>2, <2>4, NamesAssumption
  <2> QED BY <1>7, <2>1, <2>2, <2>3, <2>5
<1> HIDE DEF u
<1>9. Sound(u, Released(f, ls), <<>>, e)
  BY <1>6, <1>8, BindPlain
<1> QED BY <1>5, <1>9 DEF u

-----------------------------------------------------------------------------
(* The invariant of the module.                                            *)

\* The first context is a statement list outside of any safe execution, and
\* safe_execution_count does not decrease upwards.
Stacked(s) ==
  /\ Len(s) > 0 => s[1].kind = "statements" /\ s[1].safe = 0
  /\ \A i, j \in 1 .. Len(s) : i <= j => s[i].safe <= s[j].safe

Waits(s, b) ==
  /\ b \in BOOLEAN
  /\ b => Len(s) > 0

IInv ==
  /\ Sound(vs, fn, si, expunged)
  /\ Stacked(si)
  /\ Waits(si, running)

LEMMA EmptyStack ==
  ASSUME NEW s, Len(s) = 0
  PROVE  Stacked(s) /\ Waits(s, FALSE)
<1>1. \A i \in 1 .. Len(s) : FALSE
  OBVIOUS
<1> QED BY <1>1 DEF Stacked, Waits

Careful == {"waiting", "executing", "shared"} \subseteq Care

LEMMA Stack ==
  ASSUME IInv
  PROVE  /\ si \in Seq(Context) /\ DOMAIN si = 1 .. Len(si) /\ Len(si) \in Nat
         /\ \A i \in 1 .. Len(si) :
              /\ si[i] \in Context
              /\ si[i].safe \in Nat
              /\ si[i].fun \in Objects \cup {None}
              /\ si[i].part \in Objects \cup {None}
              /\ si[i].held \in Objects \cup {None}
         /\ running => Len(si) > 0 /\ Len(si) \in 1 .. Len(si)
<1>1. Types(vs, fn, si, expunged) /\ Waits(si, running)
  BY DEF IInv, Sound
<1>2. si \in Seq(Context)
  BY <1>1 DEF Types
<1>3. running => Len(si) > 0
  BY <1>1 DEF Waits
<1>4. DOMAIN si = 1 .. Len(si) /\ Len(si) \in Nat
  BY <1>1, ContextFields
<1> QED BY <1>1, <1>2, <1>3, <1>4, ContextFields

\* The value stacks, the functions and the contexts when contexts are popped
LEMMA PopToInv ==
  ASSUME IInv, NEW m \in 0 .. Len(si), NEW s, PopTo(m, s),
         s = Below(m) \/ (m > 0 /\ s = [Below(m) EXCEPT ![m].held = None])
  PROVE  /\ Sound(vs', fn', si', expunged')
         /\ Stacked(si') /\ Len(si') = m
         /\ \A i \in 1 .. m : si'[i].kind = si[i].kind /\ si'[i].safe = si[i].safe
<1> DEFINE w == [n \in Symbols |-> SubSeq(vs[n], 1, Len(vs[n]) - Cardinality(InDepth(fn, si, n, m+1 .. Len(si))))]
           g == Released(fn, { si[i].part : i \in m+1 .. Len(si) })
           r == SubSeq(si, 1, m)
<1>1. si \in Seq(Context) /\ DOMAIN si = 1 .. Len(si) /\ Len(si) \in Nat /\ \A i \in 1 .. Len(si) : si[i] \in Context
  BY Stack
<1>2. Sound(w, g, r, expunged)
  BY PopSound DEF IInv
<1>3. Len(r) = m /\ \A i \in 1 .. m : r[i] = si[i]
  BY <1>1, SubSeqProperties
<1>4. vs' = w
  <2>1. \A c : Localised(c) = LocalisedIn(fn, c)
    BY DEF Localised, LocalisedIn, Alive
  <2>2. \A n \in Symbols : Depth(n, m+1 .. Len(si)) = Cardinality(InDepth(fn, si, n, m+1 .. Len(si)))
    BY <2>1 DEF Depth, InDepth
  <2> QED BY <2>2 DEF PopTo, Unwound
<1>5. si' = s /\ expunged' = expunged /\ fn' = Kept(g, vs', s, expunged)
  BY DEF PopTo
<1> HIDE DEF w, g
<1>6. /\ Sound(w, g, s, expunged)
      /\ Len(s) = m
      /\ \A i \in 1 .. m : s[i].kind = si[i].kind /\ s[i].safe = si[i].safe
  <2>1. CASE s = Below(m)
    BY <1>2, <1>3, <2>1 DEF Below
  <2>2. CASE m > 0 /\ s = [Below(m) EXCEPT ![m].held = None]
    <3>1. s = HoldingIn(r, m, None) /\ m \in 1 .. Len(r)
      BY <1>3, <2>2 DEF Below, HoldingIn
    <3> HIDE DEF r
    <3>2. /\ Sound(w, g, s, expunged)
          /\ Len(s) = Len(r)
          /\ \A i \in 1 .. Len(r) : s[i].kind = r[i].kind /\ s[i].safe = r[i].safe
      BY <1>2, <3>1, Hold
    <3> QED BY <1>3, <3>2
  <2> QED BY <2>1, <2>2
<1>7. Sound(vs', fn', si', expunged')
  BY <1>4, <1>5, <1>6, KeptSound
<1>8. Stacked(si')
  <2>1. Stacked(si)
    BY DEF IInv
  <2>2. 1 .. m \subseteq 1 .. Len(si) /\ (m > 0 => 1 \in 1 .. m /\ Len(si) > 0)
    BY <1>1
  <2> QED BY <1>5, <1>6, <2>1, <2>2 DEF Stacked
<1> QED BY <1>5, <1>6, <1>7, <1>8

LEMMA AnswerInv ==
  ASSUME IInv, NEW m \in 0 .. Len(si) - 1, Answer(m)
  PROVE  IInv'
<1>1. m \in 0 .. Len(si) /\ m + 1 \in 1 .. Len(si) /\ Len(si) \in Nat
  BY Stack
<1>2. /\ Sound(vs', fn', si', expunged')
      /\ Stacked(si') /\ Len(si') = m
  BY <1>1, PopToInv DEF Answer, Leave
<1>3. running' = (si[m+1].kind # "statements")
  BY DEF Answer
<1>4. si[m+1].kind # "statements" => m > 0
  <2>1. Len(si) > 0 /\ si[1].kind = "statements"
    BY <1>1 DEF IInv, Stacked
  <2> QED BY <1>1, <2>1
<1>5. Waits(si', running')
  BY <1>2, <1>3, <1>4 DEF Waits
<1> QED BY <1>2, <1>5 DEF IInv

\* A pop after which the interpreter waits for a line
LEMMA StopInv ==
  ASSUME IInv, NEW m \in 0 .. Len(si), PopTo(m, Below(m)), running' = FALSE
  PROVE  IInv'
<1>1. /\ Sound(vs', fn', si', expunged')
      /\ Stacked(si') /\ Len(si') = m
  BY PopToInv
<1>2. Waits(si', running')
  BY <1>1 DEF Waits
<1> QED BY <1>1, <1>2 DEF IInv

\* A pop after which it goes on
LEMMA ContinueInv ==
  ASSUME IInv, NEW m \in 1 .. Len(si), NEW s, PopTo(m, s), running' = TRUE,
         s = Below(m) \/ s = [Below(m) EXCEPT ![m].held = None]
  PROVE  IInv'
<1>1. m \in 0 .. Len(si) /\ m > 0
  BY Stack
<1>2. /\ Sound(vs', fn', si', expunged')
      /\ Stacked(si') /\ Len(si') = m
  BY <1>1, PopToInv
<1>3. Waits(si', running')
  BY <1>1, <1>2 DEF Waits
<1> QED BY <1>2, <1>3 DEF IInv

\* Contexts are safe only above those that are.
LEMMA NotSafe ==
  ASSUME IInv, NEW m \in 1 .. Len(si), si[m].safe = 0
  PROVE  \A i \in 1 .. m : si[i].safe = 0
<1> TAKE i \in 1 .. m
<1>1. i \in 1 .. Len(si) /\ i <= m /\ si[i].safe \in Nat
  BY Stack
<1>2. si[i].safe <= si[m].safe
  BY <1>1 DEF IInv, Stacked
<1> QED BY <1>1, <1>2

-----------------------------------------------------------------------------
(* Contexts that are entered.                                              *)

\* What can be read is alive, and has an owner unless it is in the body that
\* reads it.
LEMMA ReadableFacts ==
  ASSUME IInv, running, NEW h \in Readable \cup {Top.held}, h # None
  PROVE  /\ h \in Objects /\ fn[h] # None
         /\ Lambda(fn, h) => BodyIn(fn, si[Len(si)]) = h \/ Spare(fn, si, h)
<1> DEFINE k == Len(si)
<1>1. /\ k \in 1 .. k /\ DOMAIN si = 1 .. k /\ k \in Nat
      /\ \A i \in 1 .. k : /\ si[i].fun \in Objects \cup {None}
                           /\ si[i].part \in Objects \cup {None}
                           /\ si[i].held \in Objects \cup {None}
  BY Stack
<1>2. Sound(vs, fn, si, expunged)
  BY DEF IInv
<1>3. Top = si[k]
  BY DEF Top
<1> HIDE DEF k
<1>4. CASE h = Top.held
  <2>1. h = si[k].held /\ h \in Objects /\ h \in InContexts(si)
    BY <1>1, <1>3, <1>4 DEF InContexts
  <2>2. fn[h] # None
    BY <1>2, <2>1 DEF Sound, AliveIn, Referred
  <2>3. Lambda(fn, h) => BodyIn(fn, si[k]) = h \/ Spare(fn, si, h)
    BY <1>1, <1>2, <2>1 DEF Sound, InUse
  <2> QED BY <2>1, <2>2, <2>3 DEF k
<1>5. CASE h = Body(Top)
  <2>1. h = BodyIn(fn, si[k])
    BY <1>3, <1>5 DEF Body, BodyIn
  <2>2. h \in Objects /\ h \in Bodies(fn) \cup InContexts(si)
    <3>1. CASE si[k].fun = None
      BY <1>1, <2>1, <3>1 DEF BodyIn, InContexts
    <3>2. CASE si[k].fun # None
      <4>1. si[k].fun \in Objects /\ si[k].fun \in InContexts(si)
        BY <1>1, <3>2 DEF InContexts
      <4>2. fn[si[k].fun] # None
        BY <1>2, <4>1 DEF Sound, AliveIn, Referred
      <4>3. fn[si[k].fun].part \in Objects \cup {None}
        BY <1>2, <4>1, <4>2 DEF Sound, Types, Object
      <4> QED BY <2>1, <3>2, <4>1, <4>2, <4>3 DEF BodyIn, Bodies
    <3> QED BY <3>1, <3>2
  <2>3. fn[h] # None
    BY <1>2, <2>2 DEF Sound, AliveIn, Referred
  <2> QED BY <2>1, <2>2, <2>3 DEF k
<1>6. CASE \E n \in Symbols : IsFunction(n) /\ h = Bound(n)
  <2>1. PICK n \in Symbols : h = vs[n][Len(vs[n])] /\ h \in Objects
    BY <1>6 DEF IsFunction, Bound, Last
  <2>2. Len(vs[n]) \in 1 .. Len(vs[n])
    BY <1>2, StacksAreBounded
  <2>3. <<n, Len(vs[n])>> \in Named(vs, h)
    BY <1>2, <2>1, <2>2, SharesAreReferences
  <2>4. h \in OnStacks(vs)
    BY <1>2, <2>1, <2>3, OnlyNamed
  <2>5. fn[h] # None
    BY <1>2, <2>1, <2>4 DEF Sound, AliveIn, Referred
  <2>6. ASSUME Lambda(fn, h) PROVE Spare(fn, si, h)
    <3> DEFINE y == <<n, Len(vs[n])>>
    <3>1. /\ IsFiniteSet(Shares(vs, fn, si, h))
          /\ Shares(vs, fn, si, h) = Named(vs, h) \cup BodyShares(fn, si, h)
          /\ Len(si) = k
      BY <1>1, SharesFinite DEF k
    <3>2. y \notin BodyShares(fn, si, h)
      <4>1. n # None /\ Len(vs[n]) # 0
        BY <2>2, NamesAssumption
      <4> QED BY <4>1 DEF BodyShares
    <3>3. y \in Named(vs, h)
      BY <2>3
    <3> HIDE DEF y
    <3>4. BodyShares(fn, si, h) \subseteq Shares(vs, fn, si, h) /\ y \in Shares(vs, fn, si, h) \ BodyShares(fn, si, h)
      BY <3>1, <3>2, <3>3
    <3>5. /\ Cardinality(BodyShares(fn, si, h)) + 1 <= Cardinality(Shares(vs, fn, si, h))
          /\ Cardinality(BodyShares(fn, si, h)) \in Nat /\ Cardinality(Shares(vs, fn, si, h)) \in Nat
      BY <3>1, <3>4, Fewer
    <3>6. fn[h].owners \in Nat /\ fn[h].owners >= Cardinality(Shares(vs, fn, si, h))
      BY <1>2, <2>1, <2>5, <2>6 DEF Sound, OwnedIn, Types, Object
    <3> QED BY <3>5, <3>6 DEF Spare
  <2> QED BY <2>1, <2>5, <2>6
<1> QED BY <1>4, <1>5, <1>6 DEF Readable

\* A context is pushed on contexts that have the same kinds and counts.
LEMMA PushStacked ==
  ASSUME NEW s, Stacked(s), Len(s) \in Nat,
         NEW r \in Seq(Context), Len(r) = Len(s),
         \A i \in 1 .. Len(s) : r[i].kind = s[i].kind /\ r[i].safe = s[i].safe,
         NEW c \in Context,
         Len(s) = 0 => c.kind = "statements" /\ c.safe = 0,
         Len(s) > 0 => c.safe >= s[Len(s)].safe
  PROVE  Stacked(Append(r, c)) /\ Len(Append(r, c)) > 0
<1> DEFINE q == Append(r, c)
           k == Len(s) + 1
<1>1. Len(q) = k /\ q[k] = c /\ \A i \in 1 .. Len(s) : q[i] = r[i]
  BY AppendProperties
<1>2. \A i \in 1 .. Len(r) : r[i].safe \in Nat
  <2> TAKE i \in 1 .. Len(r)
  <2>1. r[i] \in Context
    BY ElementOfSeq
  <2> QED BY <2>1 DEF Context
<1> HIDE DEF q
<1>3. \A i \in 1 .. k : i = k \/ i \in 1 .. Len(s)
  OBVIOUS
<1>4. \A i \in 1 .. Len(s) : q[i].kind = s[i].kind /\ q[i].safe = s[i].safe /\ s[i].safe \in Nat
  BY <1>1, <1>2
<1>5. q[1].kind = "statements" /\ q[1].safe = 0
  <2>1. CASE Len(s) = 0
    BY <1>1, <2>1
  <2>2. CASE Len(s) > 0
    <3>1. 1 \in 1 .. Len(s)
      BY <2>2
    <3> QED BY <1>4, <2>2, <3>1 DEF Stacked
  <2> QED BY <2>1, <2>2
<1>6. ASSUME NEW i \in 1 .. k, NEW j \in 1 .. k, i <= j PROVE q[i].safe <= q[j].safe
  <2>1. CASE j \in 1 .. Len(s)
    <3>1. i \in 1 .. Len(s)
      BY <1>6, <2>1
    <3> QED BY <1>4, <1>6, <2>1, <3>1 DEF Stacked
  <2>2. CASE j = k /\ i \in 1 .. Len(s)
    <3>1. Len(s) > 0 /\ Len(s) \in 1 .. Len(s) /\ i <= Len(s)
      BY <2>2
    <3>2. s[i].safe <= s[Len(s)].safe /\ s[i].safe \in Nat /\ s[Len(s)].safe \in Nat
      BY <1>4, <2>2, <3>1 DEF Stacked
    <3>3. c.safe >= s[Len(s)].safe /\ c.safe \in Nat
      BY <3>1 DEF Context
    <3> QED BY <1>1, <1>4, <2>2, <3>2, <3>3
  <2>3. CASE j = k /\ i = k
    BY <1>1, <2>3 DEF Context
  <2> QED BY <1>3, <2>1, <2>2, <2>3
<1> QED BY <1>1, <1>5, <1>6 DEF Stacked, q

\* A lambda is made for a body or a statement.
LEMMA WithLambdaSound ==
  ASSUME NEW v, NEW f, NEW s, NEW e, Sound(v, f, s, e),
         NEW t \in Lambdas \cup {None}, NEW l,
         t = None => l = None,
         t # None => l \in Objects /\ f[l] = None,
         NEW g, g = WithLambda(f, l, t)
  PROVE  /\ Sound(v, g, s, e)
         /\ l \in Objects \cup {None}
         /\ l # None => Sharable(v, g, s, e, l) /\ ~InUseBy(s, l)
         /\ \A o \in Objects : o # l => g[o] = f[o]
<1>1. CASE t = None
  BY <1>1 DEF WithLambda
<1>2. CASE t # None
  <2>1. l \in Objects /\ f[l] = None /\ l # None /\ t \in Lambdas
    BY <1>2, NamesAssumption
  <2>2. g = Made(f, l, t, None, 1)
    BY <2>1 DEF WithLambda, Made
  <2>3. f \in [Objects -> Object \cup {None}]
    BY DEF Sound, Types
  <2>4. /\ \A o \in Objects : o # l => g[o] = f[o]
        /\ g[l].text = t /\ g[l].owners = 1 /\ g[l] \in Object /\ g[l] # None
    <3>1. [text |-> t, part |-> None, owners |-> 1] \in Object
      BY <2>1 DEF Object
    <3> QED BY <2>1, <2>2, <2>3, <3>1, NamesAssumption DEF Made
  <2>5. None \in Objects \cup {None} /\ 1 \in Nat /\ t \in Functions \cup Lambdas
    BY <2>1
  <2>6. Sound(v, g, s, e) /\ Shares(v, g, s, l) = {} /\ ~InUseBy(s, l)
    BY <2>1, <2>2, <2>5, MakeObject
  <2>7. Cardinality(Shares(v, g, s, l)) = 0
    BY <2>6, FS_EmptySet
  <2>8. Sharable(v, g, s, e, l)
    BY <2>1, <2>4, <2>7 DEF Sharable, Lambda
  <2> QED BY <2>1, <2>4, <2>6, <2>8
<1> QED BY <1>1, <1>2

-----------------------------------------------------------------------------
(* The steps of statements and contexts.                                   *)

LEMMA TypeInv == ASSUME IInv, Type PROVE IInv'
<1>1. PICK t \in Lambdas \cup {None} : \E l \in Place(t) :
        /\ si' = Append(si, NewContext("statements", None, l, Safe))
        /\ fn' = WithLambda(fn, l, t)
  BY DEF Type
<1>2. PICK l \in Place(t) : /\ si' = Append(si, NewContext("statements", None, l, Safe))
                            /\ fn' = WithLambda(fn, l, t)
  BY <1>1
<1>3. /\ ~running /\ running' = TRUE /\ Len(si) < MaxDepth
      /\ vs' = vs /\ expunged' = expunged
  BY DEF Type
<1>4. /\ si \in Seq(Context) /\ DOMAIN si = 1 .. Len(si) /\ Len(si) \in Nat
      /\ \A i \in 1 .. Len(si) : si[i].safe \in Nat
  BY Stack
<1>5. (t = None => l = None) /\ (t # None => l \in Objects /\ fn[l] = None)
  BY <1>2 DEF Place, Free, Alive
<1>6. /\ Sound(vs, fn', si, expunged)
      /\ l \in Objects \cup {None}
      /\ l # None => Sharable(vs, fn', si, expunged, l) /\ ~InUseBy(si, l)
  BY <1>2, <1>5, WithLambdaSound DEF IInv
<1> DEFINE c == NewContext("statements", None, l, Safe)
<1>7. /\ Safe \in Nat
      /\ Len(si) = 0 => Safe = 0
      /\ Len(si) > 0 => Safe = si[Len(si)].safe
  <2>1. CASE si = <<>>
    BY <2>1 DEF Safe
  <2>2. CASE si # <<>>
    <3>1. Len(si) > 0 /\ Len(si) \in 1 .. Len(si)
      BY <1>4, <2>2, EmptySeq
    <3>2. Safe = si[Len(si)].safe
      BY <2>2 DEF Safe, Top
    <3> QED BY <1>4, <3>1, <3>2
  <2> QED BY <2>1, <2>2
<1>8. /\ c \in Context /\ c.kind = "statements" /\ c.fun = None /\ c.part = l
      /\ c.held = None /\ c.safe = Safe
  BY <1>6, <1>7 DEF NewContext, Context
<1>9. si' = Append(si, c)
  BY <1>2
<1> HIDE DEF c
<1>10. Sound(vs, fn', Append(si, c), expunged)
  <2>1. vs \in [Symbols -> Seq(Binding)]
    BY DEF IInv, Sound, Types
  <2>2. LocalisedIn(fn', c) = {}
    BY <1>8 DEF LocalisedIn
  <2>3. Grown(vs, fn', c, vs)
    BY <2>1, <2>2 DEF Grown
  <2> QED BY <1>3, <1>6, <1>8, <2>3, Push
<1>11. Stacked(Append(si, c)) /\ Len(Append(si, c)) > 0
  <2>1. Stacked(si)
    BY DEF IInv
  <2>2. Len(si) > 0 => c.safe >= si[Len(si)].safe
    BY <1>4, <1>7, <1>8
  <2> QED BY <1>4, <1>7, <1>8, <2>1, <2>2, PushStacked
<1> QED BY <1>3, <1>9, <1>10, <1>11 DEF IInv, Waits

\* The parser stack of the top context when it calls something
LEMMA HoldingInv ==
  ASSUME IInv, running, NEW h \in {None, Top.held} \cup Readable
  PROVE  /\ Sound(vs, fn, Holding(h), expunged)
         /\ Holding(h) \in Seq(Context) /\ Len(Holding(h)) = Len(si)
         /\ \A i \in 1 .. Len(si) :
              /\ Holding(h)[i].kind = si[i].kind /\ Holding(h)[i].safe = si[i].safe
              /\ BodyIn(fn, Holding(h)[i]) = BodyIn(fn, si[i])
         /\ \A x : BodyShares(fn, Holding(h), x) = BodyShares(fn, si, x)
<1>1. Len(si) \in 1 .. Len(si) /\ Sound(vs, fn, si, expunged)
  BY Stack DEF IInv
<1>2. h # None => /\ h \in Objects /\ fn[h] # None
                  /\ Lambda(fn, h) => BodyIn(fn, si[Len(si)]) = h \/ Spare(fn, si, h)
  BY ReadableFacts
<1>3. Holding(h) = HoldingIn(si, Len(si), h)
  BY DEF Holding, HoldingIn
<1> DEFINE q == Holding(h)
<1> HIDE DEF q
<1>4. q = HoldingIn(si, Len(si), h)
  BY <1>3 DEF q
<1>5. /\ Sound(vs, fn, q, expunged)
      /\ Len(q) = Len(si)
      /\ \A i \in 1 .. Len(si) : q[i].kind = si[i].kind /\ q[i].safe = si[i].safe /\ BodyIn(fn, q[i]) = BodyIn(fn, si[i])
      /\ \A x : BodyShares(fn, q, x) = BodyShares(fn, si, x)
  BY <1>1, <1>2, <1>4, Hold
<1>6. q \in Seq(Context)
  BY <1>5 DEF Sound, Types
<1> QED BY <1>5, <1>6 DEF q

LEMMA ExecuteInv == ASSUME IInv, Execute PROVE IInv'
<1>1. PICK t \in Lambdas \cup {None}, h \in MayHold, s \in {Top.safe, Top.safe + 1} :
        \E l \in Place(t) :
          /\ si' = Append(Holding(h), NewContext("execute", None, l, s))
          /\ fn' = WithLambda(fn, l, t)
  BY DEF Execute
<1>2. PICK l \in Place(t) : /\ si' = Append(Holding(h), NewContext("execute", None, l, s))
                            /\ fn' = WithLambda(fn, l, t)
  BY <1>1
<1>3. /\ running /\ running' = running /\ Len(si) < MaxDepth
      /\ vs' = vs /\ expunged' = expunged
  BY DEF Execute
<1>4. /\ Len(si) \in Nat /\ Len(si) > 0 /\ Len(si) \in 1 .. Len(si)
      /\ si[Len(si)].safe \in Nat /\ Top = si[Len(si)]
  BY <1>3, Stack DEF Top
<1>5. h \in {None, Top.held} \cup Readable
  BY DEF MayHold
<1> DEFINE q == Holding(h)
<1>6. /\ Sound(vs, fn, q, expunged)
      /\ q \in Seq(Context) /\ Len(q) = Len(si)
      /\ \A i \in 1 .. Len(si) : q[i].kind = si[i].kind /\ q[i].safe = si[i].safe
  BY <1>3, <1>5, HoldingInv
<1> HIDE DEF q
<1>7. (t = None => l = None) /\ (t # None => l \in Objects /\ fn[l] = None)
  BY <1>2 DEF Place, Free, Alive
<1>8. /\ Sound(vs, fn', q, expunged)
      /\ l \in Objects \cup {None}
      /\ l # None => Sharable(vs, fn', q, expunged, l) /\ ~InUseBy(q, l)
  BY <1>2, <1>6, <1>7, WithLambdaSound
<1>9. s \in Nat /\ s >= si[Len(si)].safe
  BY <1>4
<1> DEFINE c == NewContext("execute", None, l, s)
<1>10. /\ c \in Context /\ c.kind = "execute" /\ c.fun = None /\ c.part = l
       /\ c.held = None /\ c.safe = s
  BY <1>8, <1>9 DEF NewContext, Context
<1>11. si' = Append(q, c)
  BY <1>2 DEF q
<1> HIDE DEF c
<1>12. Sound(vs, fn', Append(q, c), expunged)
  <2>1. vs \in [Symbols -> Seq(Binding)]
    BY DEF IInv, Sound, Types
  <2>2. LocalisedIn(fn', c) = {}
    BY <1>10 DEF LocalisedIn
  <2>3. Grown(vs, fn', c, vs)
    BY <2>1, <2>2 DEF Grown
  <2> QED BY <1>3, <1>6, <1>8, <1>10, <2>3, Push
<1>13. Stacked(Append(q, c)) /\ Len(Append(q, c)) > 0
  <2>1. Stacked(si)
    BY DEF IInv
  <2> QED BY <1>4, <1>6, <1>9, <1>10, <2>1, PushStacked
<1> QED BY <1>3, <1>11, <1>12, <1>13 DEF IInv, Waits

LEMMA EnterInv ==
  ASSUME IInv, running, NEW o \in {Top.held} \cup Readable, o # None,
         NEW h \in {None, Top.held} \cup Readable, Enter(o, h)
  PROVE  IInv'
<1>1. /\ running' = running /\ Len(si) < MaxDepth /\ fn' = fn /\ expunged' = expunged
      /\ si' = Append(Holding(h), NewContext("function", o, None, Top.safe))
      /\ vs' = Localising(fn[o].text.locals)
  BY DEF Enter
<1>2. /\ Len(si) \in Nat /\ Len(si) > 0 /\ Len(si) \in 1 .. Len(si)
      /\ si[Len(si)].safe \in Nat /\ Top = si[Len(si)]
  BY Stack DEF Top
<1>3. /\ o \in Objects /\ fn[o] # None
      /\ Lambda(fn, o) => BodyIn(fn, si[Len(si)]) = o \/ Spare(fn, si, o)
  BY ReadableFacts
<1> DEFINE q == Holding(h)
<1>4. /\ Sound(vs, fn, q, expunged)
      /\ q \in Seq(Context) /\ Len(q) = Len(si)
      /\ \A i \in 1 .. Len(si) : /\ q[i].kind = si[i].kind /\ q[i].safe = si[i].safe
                                 /\ BodyIn(fn, q[i]) = BodyIn(fn, si[i])
      /\ \A x : BodyShares(fn, q, x) = BodyShares(fn, si, x)
  BY HoldingInv
<1> HIDE DEF q
<1>5. Lambda(fn, o) => BodyIn(fn, q[Len(q)]) = o \/ Spare(fn, q, o)
  BY <1>2, <1>3, <1>4 DEF Spare
<1> DEFINE c == NewContext("function", o, None, Top.safe)
           locals == fn[o].text.locals
           w == Localising(locals)
<1>6. /\ c \in Context /\ c.kind = "function" /\ c.fun = o /\ c.part = None
      /\ c.held = None /\ c.safe = si[Len(si)].safe
  BY <1>2, <1>3 DEF NewContext, Context
<1>7. LocalisedIn(fn, c) = DOMAIN locals
  BY <1>3, <1>6 DEF LocalisedIn
<1>8. \A n \in DOMAIN locals : locals[n] \in Binding \ Objects
  <2>1. fn[o].text \in Functions \cup Lambdas
    BY <1>3 DEF IInv, Sound, Types, Object
  <2>2. fn[o].text \in TextType
    BY <2>1, NamesAssumption
  <2>3. locals \in UNION { [ns -> {"unused", "value", "label"}] : ns \in SUBSET Symbols }
    BY <2>2 DEF TextType
  <2>4. PICK ns \in SUBSET Symbols : locals \in [ns -> {"unused", "value", "label"}]
    BY <2>3
  <2>5. \A n \in DOMAIN locals : locals[n] \in {"unused", "value", "label"}
    BY <2>4
  <2> QED BY <2>5, NamesAssumption DEF Binding
<1>9. si' = Append(q, c) /\ vs' = w
  BY <1>1 DEF q
<1> HIDE DEF c, locals
<1>10. ASSUME NEW n \in Symbols
       PROVE  /\ w[n] \in Seq(Binding)
              /\ Len(w[n]) = IF n \in DOMAIN locals THEN Len(vs[n]) + 1 ELSE Len(vs[n])
              /\ \A i \in 1 .. Len(w[n]) : w[n][i] \in Objects => i \in 1 .. Len(vs[n]) /\ w[n][i] = vs[n][i]
  <2>1. vs[n] \in Seq(Binding) /\ Len(vs[n]) \in Nat
    BY StacksAreBounded DEF IInv
  <2>2. CASE n \in DOMAIN locals
    <3>1. w[n] = Append(vs[n], locals[n]) /\ locals[n] \in Binding /\ locals[n] \notin Objects
      BY <1>8, <2>2 DEF Localising
    <3> HIDE DEF w
    <3>2. /\ w[n] \in Seq(Binding) /\ Len(w[n]) = Len(vs[n]) + 1
          /\ \A i \in 1 .. Len(vs[n]) : w[n][i] = vs[n][i]
          /\ w[n][Len(vs[n]) + 1] = locals[n]
      BY <2>1, <3>1, AppendProperties
    <3>3. \A i \in 1 .. Len(w[n]) : i = Len(vs[n]) + 1 \/ i \in 1 .. Len(vs[n])
      BY <2>1, <3>2
    <3> QED BY <2>2, <3>1, <3>2, <3>3
  <2>3. CASE n \notin DOMAIN locals
    <3>1. w[n] = vs[n]
      BY <2>3 DEF Localising
    <3> QED BY <2>1, <2>3, <3>1
  <2> QED BY <2>2, <2>3
<1>11. w \in [Symbols -> Seq(Binding)]
  BY <1>10 DEF Localising
<1> HIDE DEF w
<1>12. Sound(w, fn, Append(q, c), expunged)
  <2>1. \A n \in Symbols : Len(w[n]) = IF n \in LocalisedIn(fn, c) THEN Len(vs[n]) + 1 ELSE Len(vs[n])
    BY <1>7, <1>10
  <2>2. \A n \in Symbols : \A i \in 1 .. Len(w[n]) :
          w[n][i] \in Objects => i \in 1 .. Len(vs[n]) /\ w[n][i] = vs[n][i]
    BY <1>10
  <2>3. Lambda(fn, c.fun) => (Len(q) > 0 /\ BodyIn(fn, q[Len(q)]) = c.fun) \/ Spare(fn, q, c.fun)
    BY <1>2, <1>4, <1>5, <1>6
  <2>4. Len(q) < MaxDepth
    BY <1>1, <1>4
  <2>5. (c.kind = "function" <=> c.fun # None) /\ c.fun # None /\ fn[c.fun] # None
    BY <1>3, <1>6
  <2>6. Sound(vs, fn, q, expunged) /\ c \in Context /\ c.held = None /\ c.part = None
    BY <1>4, <1>6
  <2>7. Grown(vs, fn, c, w)
    BY <1>11, <2>1, <2>2 DEF Grown
  <2> QED BY <2>3, <2>4, <2>5, <2>6, <2>7, Push
<1>13. Stacked(Append(q, c)) /\ Len(Append(q, c)) > 0
  <2>1. Stacked(si)
    BY DEF IInv
  <2> QED BY <1>2, <1>4, <1>6, <2>1, PushStacked
<1> QED BY <1>1, <1>9, <1>12, <1>13 DEF IInv, Waits

LEMMA CallInv == ASSUME IInv, Call \/ CallHeld PROVE IInv'
<1>1. CASE Call
  <2>1. running
    BY <1>1 DEF Call
  <2>2. PICK o \in Readable, h \in MayHold : Enter(o, h)
    BY <1>1 DEF Call
  <2>3. h \in {None, Top.held} \cup Readable
    BY DEF MayHold
  <2>4. o \in {Top.held} \cup Readable /\ o # None
    BY NamesAssumption DEF Readable, IsFunction
  <2> QED BY <2>1, <2>2, <2>3, <2>4, EnterInv
<1>2. CASE CallHeld
  <2>1. running /\ Top.held # None
    BY <1>2 DEF CallHeld
  <2>2. PICK h \in {None} \cup Readable : Enter(Top.held, h)
    BY <1>2 DEF CallHeld
  <2>3. Top.held \in {Top.held} \cup Readable /\ h \in {None, Top.held} \cup Readable
    OBVIOUS
  <2> QED BY <2>1, <2>2, <2>3, EnterInv
<1> QED BY <1>1, <1>2

LEMMA ReturnInv == ASSUME IInv, Return PROVE IInv'
<1>1. running /\ Answer(Len(si) - 1)
  BY DEF Return
<1>2. Len(si) - 1 \in 0 .. Len(si) - 1
  BY <1>1, Stack
<1> QED BY <1>1, <1>2, AnswerInv

LEMMA AttentionInv == ASSUME IInv, Attention PROVE IInv'
<1> DEFINE m == IF Top.kind = "statements" THEN Len(si) ELSE Len(si) - 1
<1>1. running /\ PopTo(m, Below(m)) /\ running' = FALSE
  BY DEF Attention
<1>2. m \in 0 .. Len(si)
  BY <1>1, Stack
<1> HIDE DEF m
<1> QED BY <1>1, <1>2, StopInv

\* The safe execution that a context has started is left.
LEMMA SafeStartInv ==
  ASSUME IInv, NEW i \in 1 .. Len(si), Answer(i - 1)
  PROVE  IInv'
<1>1. i - 1 \in 0 .. Len(si) - 1
  BY Stack
<1> QED BY <1>1, AnswerInv

LEMMA ErrorInv == ASSUME IInv, Error PROVE IInv'
<1>1. running /\ Len(si) > 0 /\ Len(si) \in Nat /\ DOMAIN si = 1 .. Len(si) /\ Len(si) \in 1 .. Len(si)
  BY Stack DEF Error
<1>2. CASE Safe > 0
  <2>1. PICK i \in DOMAIN si : Answer(i - 1)
    BY <1>2 DEF Error
  <2> QED BY <1>1, <2>1, SafeStartInv
<1>3. CASE ~(Safe > 0)
  <2>1. PICK m \in Latest({ i \in DOMAIN si : Suspends(si[i]) }) : PopTo(m, Below(m))
    BY <1>3 DEF Error, Leave
  <2>2. running' = FALSE
    BY <1>3 DEF Error
  <2>3. m \in 1 .. Len(si) /\ m \in 0 .. Len(si)
    BY <1>1 DEF Latest
  <2> QED BY <2>1, <2>2, <2>3, StopInv
<1> QED BY <1>2, <1>3

LEMMA BranchInv == ASSUME IInv, Branch PROVE IInv'
<1>1. running /\ Len(si) > 0 /\ Len(si) \in Nat /\ DOMAIN si = 1 .. Len(si) /\ Len(si) \in 1 .. Len(si)
  BY Stack DEF Branch
<1>2. si # <<>> /\ Top = si[Len(si)]
  BY <1>1 DEF Top
<1>3. CASE Top.kind = "function"
  <2>1. PopTo(Len(si), Holding(None)) /\ running' = TRUE
    BY <1>1, <1>3, Stack DEF Branch, Leave, Waits, IInv
  <2>2. Below(Len(si)) = si
    BY Stack DEF Below
  <2>3. Holding(None) = [Below(Len(si)) EXCEPT ![Len(si)].held = None]
    BY <2>2 DEF Holding
  <2> QED BY <1>1, <2>1, <2>3, ContinueInv
<1>4. CASE Top.kind # "function" /\ SafeStart(Len(si))
  <2>1. Answer(Len(si) - 1)
    BY <1>4 DEF Branch
  <2> QED BY <1>1, <2>1, SafeStartInv
<1>5. CASE Top.kind # "function" /\ ~SafeStart(Len(si)) /\ OfKind("function") # {}
  <2>1. PICK m \in Latest(OfKind("function")) : PopTo(m, [Below(m) EXCEPT ![m].held = None])
    BY <1>5 DEF Branch, Leave
  <2>2. running' = TRUE
    BY <1>1, <1>5 DEF Branch, Waits, IInv
  <2>3. m \in 1 .. Len(si)
    BY <1>1 DEF Latest, OfKind
  <2> QED BY <2>1, <2>2, <2>3, ContinueInv
<1>6. CASE Top.kind # "function" /\ ~SafeStart(Len(si)) /\ ~(OfKind("function") # {})
  <2>1. running' = FALSE /\ vs' = vs /\ si' = si /\ fn' = fn /\ expunged' = expunged
    BY <1>6 DEF Branch
  <2> QED BY <2>1 DEF IInv, Waits
<1> QED BY <1>3, <1>4, <1>5, <1>6

LEMMA RetryInv == ASSUME IInv, Retry PROVE IInv'
<1>1. running' = TRUE /\ Len(si) > 1 /\ PopTo(Len(si) - 1, Below(Len(si) - 1))
  BY DEF Retry, Leave, IInv, Waits
<1>2. Len(si) - 1 \in 1 .. Len(si)
  BY <1>1, Stack
<1> QED BY <1>1, <1>2, ContinueInv

LEMMA EscapeInv == ASSUME IInv, Escape PROVE IInv'
<1>1. Len(si) > 0 /\ Len(si) \in Nat /\ DOMAIN si = 1 .. Len(si) /\ Len(si) \in 1 .. Len(si)
  <2>1. si # <<>>
    BY DEF Escape
  <2> QED BY <2>1, Stack, EmptySeq
<1>2. CASE running /\ SafeStart(Len(si))
  <2>1. Answer(Len(si) - 1)
    BY <1>2 DEF Escape
  <2> QED BY <1>1, <2>1, SafeStartInv
<1>3. CASE ~(running /\ SafeStart(Len(si)))
  <2>1. PICK m \in Latest(OfKind("statements")) : PopTo(m-1, Below(m-1)) /\ running' = FALSE
    BY <1>3 DEF Escape, Leave
  <2>2. m \in 1 .. Len(si) /\ si[m].kind = "statements" /\ m-1 \in 0 .. Len(si)
    BY <1>1 DEF Latest, OfKind
  <2> QED BY <2>1, <2>2, StopInv
<1> QED BY <1>2, <1>3

LEMMA ClearSIInv == ASSUME IInv, ClearSI PROVE IInv'
<1>1. PopTo(0, <<>>) /\ running' = FALSE
  BY DEF ClearSI, Leave
<1>2. Below(0) = <<>> /\ 0 \in 0 .. Len(si)
  BY Stack DEF Below
<1> QED BY <1>1, <1>2, StopInv

LEMMA ClearWSInv == ASSUME IInv, ClearWS PROVE IInv'
<1> DEFINE u == [n \in Symbols |-> <<"unused">>]
           g == Released(fn, { si[i].part : i \in DOMAIN si })
<1>1. /\ vs' = u /\ si' = <<>> /\ running' = FALSE /\ expunged' = expunged
      /\ fn' = Kept(g, vs', si', expunged)
  BY DEF ClearWS
<1>2. Sound(u, g, <<>>, expunged)
  BY ClearSound DEF IInv
<1> HIDE DEF u, g
<1>3. Sound(vs', fn', si', expunged')
  BY <1>1, <1>2, KeptSound
<1>4. Stacked(si') /\ Waits(si', running')
  <2>1. Len(si') = 0 /\ running' = FALSE
    BY <1>1
  <2> QED BY <2>1, EmptyStack
<1> QED BY <1>3, <1>4 DEF IInv

-----------------------------------------------------------------------------
(* The steps of names and functions.                                       *)

LEMMA RebindInv ==
  ASSUME IInv, NEW n \in Symbols, NEW b, NEW f, NEW e, Rebind(n, b, f, e),
         Sound(Rebound(vs, n, b), f, si, e)
  PROVE  IInv'
<1>1. /\ vs' = Rebound(vs, n, b) /\ fn' = Kept(f, vs', si, e) /\ expunged' = e
      /\ si' = si /\ running' = running
  BY DEF Rebind, Rebound
<1>2. Sound(vs', fn', si', expunged')
  BY <1>1, KeptSound
<1> QED BY <1>1, <1>2 DEF IInv

\* The functions and the list of expunged ones when a function that nobody is
\* executing, or will, has lost a name
LEMMA LoseName ==
  ASSUME IInv, NEW n \in Symbols, Bound(n) \in Objects, \A i \in 1 .. Len(si) : si[i].held # Bound(n),
         NEW b \in Binding \ Objects, NEW w, w = Rebound(vs, n, b)
  PROVE  /\ Sound(w, fn, si, expunged)
         /\ ~Executing(Bound(n)) =>
              /\ IsLambda(Bound(n)) => Sound(w, Released(fn, {Bound(n)}), si, expunged)
              /\ ~IsLambda(Bound(n)) => Sound(w, Deleted(fn, Bound(n)), si, expunged)
         /\ ~IsLambda(Bound(n)) => Sound(w, fn, si, expunged \cup {Bound(n)})
<1> DEFINE o == Bound(n)
<1>1. Sound(vs, fn, si, expunged) /\ DOMAIN si = 1 .. Len(si)
  BY Stack DEF IInv
<1>2. o = vs[n][Len(vs[n])] /\ o \in Objects /\ \A i \in 1 .. Len(si) : si[i].held # o
  BY DEF Bound, Last
<1> HIDE DEF o
<1>4. /\ Sound(w, fn, si, expunged)
      /\ fn[o] # None
      /\ Lambda(fn, o) => fn[o].owners >= Cardinality(Shares(w, fn, si, o)) + 1
      /\ ~Lambda(fn, o) => o \notin OnStacks(w) /\ o \notin expunged /\ Named(w, o) = {}
  <2>1. Sound(w, fn, si, expunged)
    BY <1>1, Unbind
  <2>2. HasLost(w, fn, si, expunged, o)
    BY <1>1, <1>2, Unbind
  <2> QED BY <2>1, <2>2 DEF HasLost
<1>5. IsLambda(o) <=> Lambda(fn, o)
  BY DEF IsLambda, Lambda
<1>6. ~Executing(o) => \A i \in 1 .. Len(si) : si[i].fun # o /\ si[i].held # o
  BY <1>1, <1>2 DEF Executing
<1>7. ASSUME ~Executing(o), Lambda(fn, o) PROVE Sound(w, Released(fn, {o}), si, expunged)
  BY <1>2, <1>4, <1>6, <1>7, ReleaseSound
<1>8. ASSUME ~Executing(o), ~Lambda(fn, o) PROVE Sound(w, Deleted(fn, o), si, expunged)
  BY <1>2, <1>4, <1>6, <1>8, DeleteSound
<1>9. ASSUME ~Lambda(fn, o) PROVE Sound(w, fn, si, expunged \cup {o})
  BY <1>2, <1>4, <1>9, ToExpunged
<1> QED BY <1>4, <1>5, <1>7, <1>8, <1>9 DEF o

\* A name that is no function is bound to something else that is none.
LEMMA PlainInv ==
  ASSUME IInv, NEW n \in Symbols, NEW b \in {"unused", "value"}, Rebind(n, b, fn, expunged)
  PROVE  IInv'
<1>1. b \in Binding \ Objects /\ Sound(vs, fn, si, expunged)
  BY NamesAssumption DEF Binding, IInv
<1>2. Sound(Rebound(vs, n, b), fn, si, expunged)
  BY <1>1, Unbind
<1> QED BY <1>2, RebindInv

LEMMA AssignLambdaInv == ASSUME IInv, NEW n \in Symbols, AssignLambda(n) PROVE IInv'
<1> DEFINE l == Body(Top)
           g == Gained(fn, l)
<1>1. running /\ Bound(n) = "unused" /\ l # None /\ Rebind(n, l, g, expunged)
  BY DEF AssignLambda
<1>2. l \in Readable \cup {Top.held}
  BY <1>1 DEF Readable
<1>3. l \in Objects /\ fn[l] # None
  BY <1>1, <1>2, ReadableFacts
<1>4. Lambda(fn, l)
  <2>1. Len(si) \in 1 .. Len(si) /\ DOMAIN si = 1 .. Len(si) /\ Top = si[Len(si)] /\ si[Len(si)].fun \in Objects \cup {None}
    BY <1>1, Stack DEF Top
  <2>2. CASE Top.fun = None
    BY <1>1, <2>1, <2>2 DEF IInv, Sound, PartsIn, Body
  <2>3. CASE Top.fun # None
    <3>1. Top.fun \in Objects /\ Top.fun \in InContexts(si)
      BY <2>1, <2>3 DEF InContexts
    <3>2. fn[Top.fun] # None
      BY <3>1 DEF IInv, Sound, AliveIn, Referred
    <3> QED BY <1>1, <2>3, <3>1, <3>2 DEF IInv, Sound, PartsIn, Body
  <2> QED BY <2>2, <2>3
<1> HIDE DEF l
<1>5. /\ Sound(vs, g, si, expunged)
      /\ g[l] # None /\ Lambda(g, l)
      /\ g[l].owners >= Cardinality(Shares(vs, g, si, l)) + 1
  BY <1>3, <1>4, GainSound DEF IInv
<1> HIDE DEF g
<1>6. vs[n][Len(vs[n])] \notin Objects
  BY <1>1, NamesAssumption DEF Bound, Last
<1>7. Sound(Rebound(vs, n, l), g, si, expunged)
  BY <1>3, <1>5, <1>6, BindObject DEF Sharable
<1> QED BY <1>1, <1>7, RebindInv

LEMMA ExpungeInv == ASSUME Careful, IInv, NEW n \in Symbols, Expunge(n) PROVE IInv'
<1>1. CASE ~IsFunction(n)
  <2>1. Rebind(n, "unused", fn, expunged)
    BY <1>1 DEF Expunge
  <2> QED BY <2>1, PlainInv
<1>2. CASE IsFunction(n)
  <2> DEFINE o == Bound(n)
             w == Rebound(vs, n, "unused")
  <2>1. o \in Objects /\ \A i \in 1 .. Len(si) : si[i].held # o
    BY <1>2, Stack DEF Expunge, IsFunction, Careful
  <2>2. /\ Sound(w, fn, si, expunged)
        /\ ~Executing(o) => /\ IsLambda(o) => Sound(w, Released(fn, {o}), si, expunged)
                            /\ ~IsLambda(o) => Sound(w, Deleted(fn, o), si, expunged)
        /\ ~IsLambda(o) => Sound(w, fn, si, expunged \cup {o})
    BY <2>1, LoseName, NamesAssumption DEF Binding
  <2> HIDE DEF w
  <2>3. CASE IsLambda(o)
    <3>1. ~Executing(o) /\ Rebind(n, "unused", Released(fn, {o}), expunged)
      BY <1>2, <2>3 DEF Expunge, Careful
    <3> QED BY <2>2, <2>3, <3>1, RebindInv DEF w
  <2>4. CASE ~IsLambda(o) /\ Executing(o)
    <3>1. Rebind(n, "unused", fn, expunged \cup {o})
      BY <1>2, <2>4 DEF Expunge
    <3> QED BY <2>2, <2>4, <3>1, RebindInv DEF w
  <2>5. CASE ~IsLambda(o) /\ ~Executing(o)
    <3>1. Rebind(n, "unused", Deleted(fn, o), expunged)
      BY <1>2, <2>5 DEF Expunge
    <3> QED BY <2>2, <2>5, <3>1, RebindInv DEF w
  <2> QED BY <2>3, <2>4, <2>5
<1> QED BY <1>1, <1>2

\* A function that is certainly not called is neither executing nor was read.
LEMMA NotCalled ==
  ASSUME IInv, NEW o, FALSE \in Called(o)
  PROVE  ~Executing(o) /\ \A i \in 1 .. Len(si) : si[i].held # o
<1>1. ~CertainlyCalled(o)
  BY DEF Called
<1> QED BY <1>1, Stack DEF CertainlyCalled

LEMMA EraseInv == ASSUME IInv, NEW n \in Symbols, Erase(n) PROVE IInv'
<1>1. CASE ~IsFunction(n)
  <2>1. Rebind(n, "unused", fn, expunged)
    BY <1>1 DEF Erase
  <2> QED BY <2>1, PlainInv
<1>2. CASE IsFunction(n)
  <2> DEFINE o == Bound(n)
             w == Rebound(vs, n, "unused")
  <2>1. /\ FALSE \in Called(o) /\ o \in Objects
        /\ Rebind(n, "unused", IF IsLambda(o) THEN Released(fn, {o}) ELSE Deleted(fn, o), expunged)
    BY <1>2 DEF Erase, IsFunction
  <2>2. ~Executing(o) /\ \A i \in 1 .. Len(si) : si[i].held # o
    BY <2>1, NotCalled
  <2>3. /\ IsLambda(o) => Sound(w, Released(fn, {o}), si, expunged)
        /\ ~IsLambda(o) => Sound(w, Deleted(fn, o), si, expunged)
    BY <2>1, <2>2, LoseName, NamesAssumption DEF Binding
  <2> HIDE DEF w, o
  <2>4. CASE IsLambda(o)
    <3>1. Rebind(n, "unused", Released(fn, {o}), expunged)
      BY <2>1, <2>4
    <3> QED BY <2>3, <2>4, <3>1, RebindInv DEF w
  <2>5. CASE ~IsLambda(o)
    <3>1. Rebind(n, "unused", Deleted(fn, o), expunged)
      BY <2>1, <2>5
    <3> QED BY <2>3, <2>5, <3>1, RebindInv DEF w
  <2> QED BY <2>4, <2>5
<1> QED BY <1>1, <1>2

\* A name is bound twice.
LEMMA ReboundTwice ==
  ASSUME NEW v \in [Symbols -> Seq(Binding)], NEW n \in Symbols, NEW b \in Binding, NEW o,
         Len(v[n]) \in 1 .. Len(v[n])
  PROVE  Rebound(Rebound(v, n, b), n, o) = Rebound(v, n, o)
<1> DEFINE k == Len(v[n])
           w == [v EXCEPT ![n][k] = b]
<1>1. v[n] \in Seq(Binding) /\ k \in Nat /\ k \in 1 .. Len(v[n])
  BY LenProperties
<1>2. Rebound(v, n, b) = w
  BY DEF Rebound
<1>3. w[n] = [v[n] EXCEPT ![k] = b]
  OBVIOUS
<1>4. Len(w[n]) = k
  BY <1>1, <1>3, ExceptSeq
<1>5. Rebound(w, n, o) = [w EXCEPT ![n][k] = o]
  BY <1>4 DEF Rebound
<1>6. [w EXCEPT ![n][k] = o] = [v EXCEPT ![n][k] = o]
  OBVIOUS
<1> QED BY <1>2, <1>5, <1>6 DEF Rebound

LEMMA FixInv == ASSUME Careful, IInv, NEW t \in Functions, Fix(t) PROVE IInv'
<1> DEFINE n == t.name
           old == IF IsFunction(n) THEN Bound(n) ELSE None
           f == IF old = None THEN fn ELSE Deleted(fn, old)
           b == "unused"
           w == Rebound(vs, n, b)
<1>1. n \in Symbols /\ t.lambda \in Lambdas \cup {None} /\ t \notin Lambdas
  BY NamesAssumption, FunctionsAreNotLambdas DEF TextType
<1>2. PICK o \in Free, l \in Place(t.lambda) : o # l /\ Rebind(n, o, WithFunction(f, o, t, l), expunged)
  BY DEF Fix
<1>3. old # None => /\ FALSE \in Called(old)
                    /\ IsLambda(old) => fn[old].owners = 1
  BY DEF Fix, Careful
<1>4. /\ Sound(vs, fn, si, expunged)
      /\ vs \in [Symbols -> Seq(Binding)] /\ fn \in [Objects -> Object \cup {None}]
      /\ DOMAIN si = 1 .. Len(si) /\ Len(si) \in Nat
  BY Stack DEF IInv, Sound, Types
<1>5. b \in Binding \ Objects
  BY NamesAssumption DEF Binding
<1>6. Sound(w, fn, si, expunged) /\ w[n][Len(w[n])] = b
  <2> HIDE DEF n, b, w
  <2>1. w = Rebound(vs, n, b)
    BY DEF w
  <2> QED BY <1>1, <1>4, <1>5, <2>1, Unbind
<1>7. Sound(w, f, si, expunged)
  <2>1. CASE old = None
    BY <1>6, <2>1
  <2>2. CASE old # None
    <3>1. old = Bound(n) /\ Bound(n) \in Objects /\ f = Deleted(fn, old)
      BY <2>2 DEF IsFunction
    <3>2. ~Executing(old) /\ \A i \in 1 .. Len(si) : si[i].held # old
      BY <1>3, <2>2, NotCalled
    <3> HIDE DEF n, old, f
    <3>3. /\ IsLambda(old) => Sound(w, Released(fn, {old}), si, expunged)
          /\ ~IsLambda(old) => Sound(w, Deleted(fn, old), si, expunged)
      BY <1>1, <1>5, <3>1, <3>2, LoseName DEF w
    <3>4. ASSUME IsLambda(old) PROVE Released(fn, {old}) = Deleted(fn, old)
      <4>1. fn[old] # None /\ fn[old].owners = 1
        <5>1. vs[n][Len(vs[n])] = old /\ old \in Objects
          BY <3>1 DEF Bound, Last
        <5> DEFINE u == Rebound(vs, n, b)
        <5>2. u = Rebound(vs, n, b)
          OBVIOUS
        <5> HIDE DEF u, b
        <5>3. HasLost(u, fn, si, expunged, old)
          BY <1>1, <1>4, <1>5, <5>1, <5>2, Unbind
        <5> QED BY <1>3, <2>2, <3>4, <5>3 DEF HasLost
      <4>2. fn[old].part = None
        BY <3>1, <3>4, <4>1 DEF IInv, Sound, PartsIn, IsLambda, Lambda
      <4>3. Deleted(fn, old) = [fn EXCEPT ![old] = None]
        <5> DEFINE h == [fn EXCEPT ![old] = None]
        <5>1. Deleted(fn, old) = Released(h, {None})
          BY <4>1, <4>2 DEF Deleted
        <5>2. h \in [Objects -> Object \cup {None}]
          BY <1>4
        <5> HIDE DEF h
        <5>3. Released(h, {None}) = h
          BY <5>2, NamesAssumption DEF Released
        <5> QED BY <5>1, <5>3 DEF h
      <4>4. Released(fn, {old}) = [fn EXCEPT ![old] = None]
        <5>1. \A x \in Objects : Released(fn, {old})[x] = IF x = old THEN None ELSE fn[x]
          BY <4>1 DEF Released
        <5>2. Released(fn, {old}) = [x \in Objects |-> Released(fn, {old})[x]]
          BY DEF Released
        <5> QED BY <1>4, <3>1, <5>1, <5>2
      <4> QED BY <4>3, <4>4
    <3> QED BY <3>1, <3>3, <3>4
  <2> QED BY <2>1, <2>2
<1>8. \A x \in Objects : fn[x] = None => f[x] = None
  BY <1>4 DEF Deleted, Released
<1> HIDE DEF f, n, w, b, old
<1>9. o \in Objects /\ f[o] = None /\ (l = None \/ (l \in Objects /\ f[l] = None))
      /\ (t.lambda = None => l = None) /\ (t.lambda # None => l \in Objects /\ f[l] = None)
  BY <1>2, <1>8 DEF Free, Alive, Place
<1> DEFINE g == WithLambda(f, l, t.lambda)
           h == Made(g, o, t, l, 0)
<1>10. g = WithLambda(f, l, t.lambda)
  OBVIOUS
<1>11. WithFunction(f, o, t, l) = h
  BY DEF WithFunction, Made
<1> HIDE DEF g
<1>12. /\ Sound(w, g, si, expunged)
       /\ l \in Objects \cup {None}
       /\ l # None => Sharable(w, g, si, expunged, l) /\ ~InUseBy(si, l)
       /\ g[o] = None
  BY <1>1, <1>2, <1>7, <1>9, <1>10, WithLambdaSound
<1>13. h = Made(g, o, t, l, 0) /\ 0 \in Nat /\ t \in Functions \cup Lambdas
  OBVIOUS
<1>14. h[o] # None /\ h[o].text = t
  <2>1. g \in [Objects -> Object \cup {None}]
    BY <1>12 DEF Sound, Types
  <2>2. h[o] = [text |-> t, part |-> l, owners |-> 0]
    BY <1>9, <2>1 DEF Made
  <2>3. h[o] \in Object
    BY <1>12, <2>2 DEF Object
  <2> QED BY <2>2, <2>3, NamesAssumption
<1> HIDE DEF h
<1>15. Sound(w, h, si, expunged) /\ Shares(w, h, si, o) = {} /\ o \notin expunged
  BY <1>1, <1>9, <1>12, <1>13, MakeObject
<1>16. Named(w, o) = {}
  <2>1. Shares(w, h, si, o) = Named(w, o) \cup BodyShares(h, si, o)
    BY <1>4, SharesFinite
  <2> QED BY <1>15, <2>1
<1>17. ~Lambda(h, o) /\ w[n][Len(w[n])] \notin Objects
  BY <1>1, <1>5, <1>6, <1>14 DEF Lambda
<1> DEFINE u == Rebound(w, n, o)
<1>18. u = Rebound(w, n, o)
  OBVIOUS
<1> HIDE DEF u
<1>19. Sound(u, h, si, expunged)
  BY <1>1, <1>9, <1>14, <1>15, <1>16, <1>17, <1>18, BindObject
<1>20. u = Rebound(vs, n, o)
  <2>1. Len(vs[n]) \in 1 .. Len(vs[n])
    BY <1>1, <1>4, StacksAreBounded
  <2> QED BY <1>1, <1>4, <1>5, <1>18, <2>1, ReboundTwice DEF w
<1>21. Rebind(n, o, h, expunged) /\ Sound(Rebound(vs, n, o), h, si, expunged)
  BY <1>2, <1>11, <1>19, <1>20 DEF f, n, old
<1> QED BY <1>1, <1>21, RebindInv

LEMMA CheckInv == ASSUME IInv, Check PROVE IInv'
<1> DEFINE g == Released([o \in Objects |-> IF o \in expunged THEN None ELSE fn[o]],
                         Bodies([o \in Objects |-> IF o \in expunged THEN fn[o] ELSE None]))
<1>1. /\ si = <<>> /\ vs' = vs /\ si' = si /\ running' = running /\ expunged' = {}
      /\ fn' = Kept(g, vs, si, {})
  BY DEF Check
<1>2. Sound(vs, g, si, {})
  BY <1>1, CheckSound DEF IInv
<1> HIDE DEF g
<1>3. Sound(vs', fn', si', expunged')
  BY <1>1, <1>2, KeptSound
<1> QED BY <1>1, <1>3 DEF IInv

LEMMA InitInv == Init => IInv
<1> SUFFICES ASSUME Init PROVE IInv
  OBVIOUS
<1>1. /\ vs = [n \in Symbols |-> <<"unused">>] /\ fn = [o \in Objects |-> None]
      /\ si = <<>> /\ expunged = {} /\ running = FALSE
  BY DEF Init
<1>2. si \in Seq(Context) /\ Len(si) = 0 /\ DOMAIN si = {} /\ \A i \in 1 .. Len(si) : FALSE
  BY <1>1
<1>3. /\ \A n \in Symbols : vs[n] = <<"unused">> /\ vs[n] \in Seq(Binding) /\ Len(vs[n]) = 1
      /\ vs \in [Symbols -> Seq(Binding)]
  BY <1>1 DEF Binding
<1>4. Types(vs, fn, si, expunged)
  BY <1>1, <1>2, <1>3, NamesAssumption DEF Types
<1>5. ScopesIn(vs, fn, si)
  <2> SUFFICES ASSUME NEW n \in Symbols PROVE Len(vs[n]) = 1 + Cardinality(InDepth(fn, si, n, 1 .. Len(si)))
    BY DEF ScopesIn
  <2>1. InDepth(fn, si, n, 1 .. Len(si)) = {}
    BY <1>2 DEF InDepth
  <2>2. Cardinality(InDepth(fn, si, n, 1 .. Len(si))) = 0
    BY <2>1, FS_EmptySet
  <2>3. Len(vs[n]) = 1
    BY <1>3
  <2> QED BY <2>2, <2>3
<1>6. AliveIn(vs, fn, si, expunged)
  <2> SUFFICES ASSUME NEW o \in Objects, o \in Referred(vs, fn, si, expunged) PROVE FALSE
    BY DEF AliveIn
  <2>1. o \notin Bodies(fn) /\ o \notin expunged
    BY <1>1 DEF Bodies
  <2>2. o \notin InContexts(si)
    BY <1>2 DEF InContexts
  <2>3. o \notin OnStacks(vs)
    BY <1>3, NamesAssumption DEF OnStacks
  <2> QED BY <2>1, <2>2, <2>3 DEF Referred
<1>7. PartsIn(fn, si) /\ OwnedIn(vs, fn, si) /\ InUse(fn, si) /\ BoundOnce(vs, fn, expunged)
  BY <1>1, <1>2 DEF PartsIn, OwnedIn, InUse, BoundOnce
<1>8. Stacked(si) /\ Waits(si, running)
  BY <1>1, <1>2, EmptyStack
<1> QED BY <1>4, <1>5, <1>6, <1>7, <1>8 DEF IInv, Sound

LEMMA NextInv == ASSUME Careful, IInv, [Next]_vars PROVE IInv'
<1>1. CASE Type
  BY <1>1, TypeInv
<1>2. CASE Execute
  BY <1>2, ExecuteInv
<1>3. CASE Call \/ CallHeld
  BY <1>3, CallInv
<1>4. CASE Return
  BY <1>4, ReturnInv
<1>5. CASE Attention
  BY <1>5, AttentionInv
<1>6. CASE Error
  BY <1>6, ErrorInv
<1>7. CASE Branch
  BY <1>7, BranchInv
<1>8. CASE Retry
  BY <1>8, RetryInv
<1>9. CASE Escape
  BY <1>9, EscapeInv
<1>10. CASE ClearSI
  BY <1>10, ClearSIInv
<1>11. CASE ClearWS
  BY <1>11, ClearWSInv
<1>12. ASSUME NEW n \in Symbols, Assign(n) PROVE IInv'
  <2>1. Rebind(n, "value", fn, expunged)
    BY <1>12 DEF Assign
  <2> QED BY <2>1, PlainInv
<1>13. ASSUME NEW n \in Symbols, AssignLambda(n) PROVE IInv'
  BY <1>13, AssignLambdaInv
<1>14. ASSUME NEW n \in Symbols, Expunge(n) PROVE IInv'
  BY <1>14, ExpungeInv
<1>15. ASSUME NEW n \in Symbols, Erase(n) PROVE IInv'
  BY <1>15, EraseInv
<1>16. ASSUME NEW t \in Functions, Fix(t) PROVE IInv'
  BY <1>16, FixInv
<1>17. CASE Check
  BY <1>17, CheckInv
<1>18. CASE UNCHANGED vars
  BY <1>18 DEF vars, IInv
<1> QED BY <1>1, <1>2, <1>3, <1>4, <1>5, <1>6, <1>7, <1>8, <1>9, <1>10, <1>11, <1>12, <1>13, <1>14, <1>15, <1>16, <1>17, <1>18 DEF Next

-----------------------------------------------------------------------------
(* What is safe while the interpreter waits for a line.                    *)

\* A statement list, which is read when the interpreter waits, is on top of
\* contexts that are stranded or have not started a safe execution.
Quiet ==
  /\ stranded \in Nat
  /\ \A j \in 1 .. Len(si) : si[j].kind = "statements" =>
       \A i \in 1 .. j : i > stranded => ~SafeStart(i)
  /\ InputIsNotSafe

LEMMA InputIsQuiet ==
  ASSUME IInv
  PROVE  InputIsNotSafe <=> (~running => \A i \in 1 .. Len(si) : i > stranded => ~SafeStart(i))
BY Stack DEF InputIsNotSafe

\* A context starts a safe execution as before if what is below remains.
LEMMA SameStarts ==
  ASSUME NEW m \in Nat, \A i \in 1 .. m : si'[i].safe = si[i].safe
  PROVE  \A i \in 1 .. m : SafeStart(i)' <=> SafeStart(i)
<1> TAKE i \in 1 .. m
<1>1. CASE i = 1
  BY <1>1 DEF SafeStart
<1>2. CASE i # 1
  <2>1. i - 1 \in 1 .. m
    BY <1>2
  <2> QED BY <1>2, <2>1 DEF SafeStart
<1> QED BY <1>1, <1>2

\* Contexts below one that is not safe do not start a safe execution.
LEMMA NoStart ==
  ASSUME IInv, NEW m \in 1 .. Len(si), si[m].safe = 0
  PROVE  \A i \in 1 .. m : ~SafeStart(i)
<1> TAKE i \in 1 .. m
<1>1. \A j \in 1 .. m : si[j].safe = 0
  BY NotSafe
<1>2. CASE i = 1
  BY <1>1, <1>2 DEF SafeStart
<1>3. CASE i # 1
  <2>1. i - 1 \in 1 .. m
    BY <1>3, Stack
  <2> QED BY <1>1, <1>3, <2>1 DEF SafeStart
<1> QED BY <1>2, <1>3

\* The contexts above m are popped.
LEMMA PopQuiet ==
  ASSUME IInv, IInv', NEW m \in 0 .. Len(si), Len(si') = m, stranded' \in Nat,
         \A i \in 1 .. m : si'[i].kind = si[i].kind /\ si'[i].safe = si[i].safe,
         \A j \in 1 .. m : si[j].kind = "statements" =>
           \A i \in 1 .. j : i > stranded' => ~SafeStart(i),
         ~running' => \A i \in 1 .. m : i > stranded' => ~SafeStart(i)
  PROVE  Quiet'
<1>1. m \in Nat
  BY Stack
<1>2. \A i \in 1 .. m : SafeStart(i)' <=> SafeStart(i)
  BY <1>1, SameStarts
<1>3. DOMAIN si' = 1 .. m
  BY Stack DEF IInv, Sound, Types
<1>4. InputIsNotSafe'
  BY <1>2, <1>3 DEF InputIsNotSafe
<1>5. ASSUME NEW j \in 1 .. m, si'[j].kind = "statements", NEW i \in 1 .. j, i > stranded'
      PROVE  ~SafeStart(i)'
  <2>1. i \in 1 .. m
    BY <1>1
  <2> QED BY <1>2, <1>5, <2>1
<1> QED BY <1>4, <1>5 DEF Quiet

LEMMA LeaveQuiet ==
  ASSUME IInv, IInv', Quiet, NEW m \in 0 .. Len(si), NEW s, Leave(m, s),
         s = Below(m) \/ (m > 0 /\ s = [Below(m) EXCEPT ![m].held = None]),
         ~running' => \A i \in 1 .. m : i > stranded => ~SafeStart(i)
  PROVE  Quiet'
<1>1. m \in Nat /\ Len(si) \in Nat /\ stranded \in Nat
  BY Stack DEF Quiet
<1>2. PopTo(m, s) /\ stranded' = IF stranded < m THEN stranded ELSE m
  BY DEF Leave
<1>3. Len(si') = m /\ \A i \in 1 .. m : si'[i].kind = si[i].kind /\ si'[i].safe = si[i].safe
  BY <1>2, PopToInv
<1>4. stranded' \in Nat /\ \A i \in 1 .. m : i > stranded' => i > stranded
  BY <1>1, <1>2
<1>5. ASSUME NEW j \in 1 .. m, si[j].kind = "statements", NEW i \in 1 .. j, i > stranded'
      PROVE  ~SafeStart(i)
  <2>1. j \in 1 .. Len(si) /\ i \in 1 .. m
    BY <1>1
  <2> QED BY <1>4, <1>5, <2>1 DEF Quiet
<1> QED BY <1>3, <1>4, <1>5, PopQuiet

\* Contexts remain as they are, and those in []EC are stranded.
LEMMA StrandQuiet ==
  ASSUME IInv, IInv', NEW m \in 0 .. Len(si), Len(si') = m, stranded' = Stranded(m),
         \A i \in 1 .. m : si'[i].kind = si[i].kind /\ si'[i].safe = si[i].safe
  PROVE  Quiet'
<1>1. m \in Nat /\ Len(si) \in Nat /\ (m > 0 => m \in 1 .. Len(si) /\ si[m].safe \in Nat)
  BY Stack
<1>2. stranded' \in Nat
  BY <1>1 DEF Stranded
<1>3. \A i \in 1 .. m : i > stranded' => ~SafeStart(i)
  <2>1. CASE m > 0 /\ si[m].safe > 0
    <3>1. stranded' = m
      BY <2>1 DEF Stranded
    <3> QED BY <1>1, <3>1
  <2>2. CASE m > 0 /\ ~(si[m].safe > 0)
    <3>1. m \in 1 .. Len(si) /\ si[m].safe = 0
      BY <1>1, <2>2
    <3> QED BY <3>1, NoStart
  <2>3. CASE ~(m > 0)
    BY <1>1, <2>3
  <2> QED BY <2>1, <2>2, <2>3
<1>4. ASSUME NEW j \in 1 .. m, NEW i \in 1 .. j, i > stranded' PROVE ~SafeStart(i)
  <2>1. i \in 1 .. m
    BY <1>1
  <2> QED BY <1>3, <1>4, <2>1
<1> QED BY <1>2, <1>3, <1>4, PopQuiet

\* A finished statement list is popped, and a line is read.
LEMMA AnswerQuiet ==
  ASSUME IInv, IInv', Quiet, NEW m \in 0 .. Len(si) - 1, Answer(m)
  PROVE  Quiet'
<1>1. m \in 0 .. Len(si) /\ m + 1 \in 1 .. Len(si) /\ Len(si) \in Nat /\ m \in Nat
  BY Stack
<1>2. Leave(m, Below(m)) /\ running' = (si[m+1].kind # "statements")
  BY DEF Answer
<1>3. ASSUME ~running', NEW i \in 1 .. m, i > stranded PROVE ~SafeStart(i)
  <2>1. si[m+1].kind = "statements"
    BY <1>2, <1>3
  <2>2. i \in 1 .. m + 1
    BY <1>1
  <2> QED BY <1>1, <1>3, <2>1, <2>2 DEF Quiet
<1> QED BY <1>1, <1>2, <1>3, LeaveQuiet

\* A context is entered.
LEMMA PushQuiet ==
  ASSUME IInv, IInv', Quiet, running', stranded' = stranded,
         NEW r \in Seq(Context), NEW c \in Context, si' = Append(r, c), Len(r) = Len(si),
         \A i \in 1 .. Len(si) : r[i].kind = si[i].kind /\ r[i].safe = si[i].safe,
         c.kind = "statements" => ~running /\ c.safe = Safe
  PROVE  Quiet'
<1>0. PICK k \in Nat : k = Len(si)
  BY Stack
<1>1. k \in Nat /\ \A i \in 1 .. k : si[i].safe \in Nat
  BY <1>0, Stack
<1>2. Len(si') = k + 1 /\ si'[k+1] = c /\ \A i \in 1 .. k : si'[i] = r[i]
  BY <1>0, AppendProperties
<1>3. \A i \in 1 .. k : si'[i].kind = si[i].kind /\ si'[i].safe = si[i].safe
  BY <1>0, <1>2
<1>4. \A i \in 1 .. k : SafeStart(i)' <=> SafeStart(i)
  BY <1>1, <1>3, SameStarts
<1>5. ASSUME c.kind = "statements" PROVE ~SafeStart(k+1)'
  <2>1. c.safe = Safe
    BY <1>5
  <2>2. CASE k = 0
    <3>1. si = <<>> /\ Safe = 0
      BY <1>0, <2>2, Stack, EmptySeq DEF Safe
    <3> QED BY <1>2, <2>1, <2>2, <3>1 DEF SafeStart
  <2>3. CASE k # 0
    <3>1. si # <<>> /\ Safe = si[k].safe /\ k \in 1 .. k /\ k + 1 # 1 /\ (k + 1) - 1 = k
      BY <1>0, <1>1, <2>3 DEF Safe, Top
    <3>2. si'[k].safe = si[k].safe /\ si[k].safe \in Nat
      BY <1>1, <1>3, <3>1
    <3>3. SafeStart(k+1)' <=> si'[k+1].safe > si'[k].safe
      BY <3>1 DEF SafeStart
    <3> QED BY <1>2, <2>1, <3>1, <3>2, <3>3
  <2> QED BY <2>2, <2>3
<1>6. ASSUME NEW j \in 1 .. k+1, si'[j].kind = "statements", NEW i \in 1 .. j, i > stranded
      PROVE  ~SafeStart(i)'
  <2>1. CASE j \in 1 .. k
    <3>1. si[j].kind = "statements"
      BY <1>3, <1>6, <2>1
    <3>2. i \in 1 .. k
      BY <1>1, <2>1
    <3> QED BY <1>0, <1>4, <1>6, <2>1, <3>1, <3>2 DEF Quiet
  <2>2. CASE j = k + 1 /\ i \in 1 .. k
    <3>1. ~running
      BY <1>2, <1>6, <2>2
    <3> QED BY <1>0, <1>4, <1>6, <2>2, <3>1, InputIsQuiet DEF Quiet
  <2>3. CASE j = k + 1 /\ i = k + 1
    BY <1>2, <1>5, <1>6, <2>3
  <2>4. (j \in 1 .. k \/ j = k + 1) /\ (i \in 1 .. k \/ i = k + 1 \/ i > k + 1)
    BY <1>1
  <2>5. i <= j
    BY <1>1
  <2> QED BY <1>1, <2>1, <2>2, <2>3, <2>4, <2>5
<1> QED BY <1>2, <1>6 DEF Quiet, InputIsNotSafe

\* The contexts are the same, and whether a line is read.
LEMMA SameQuiet ==
  ASSUME Quiet, si' = si, running' = running, stranded' = stranded
  PROVE  Quiet'
BY DEF Quiet, InputIsNotSafe, SafeStart

LEMMA EnterQuiet ==
  ASSUME IInv, IInv', Quiet, running, NEW o \in {Top.held} \cup Readable, o # None,
         NEW h \in {None, Top.held} \cup Readable, Enter(o, h)
  PROVE  Quiet'
<1> DEFINE c == NewContext("function", o, None, Top.safe)
           q == Holding(h)
<1>1. si' = Append(q, c) /\ running' = running /\ stranded' = stranded
  BY DEF Enter
<1>2. q \in Seq(Context) /\ Len(q) = Len(si)
      /\ \A i \in 1 .. Len(si) : q[i].kind = si[i].kind /\ q[i].safe = si[i].safe
  BY HoldingInv
<1>3. o \in Objects /\ Top.safe \in Nat
  BY ReadableFacts, Stack DEF Top
<1>4. c \in Context /\ c.kind = "function"
  BY <1>3 DEF NewContext, Context
<1> HIDE DEF c, q
<1> QED BY <1>1, <1>2, <1>4, PushQuiet

LEMMA CallQuiet == ASSUME IInv, IInv', Quiet, Call \/ CallHeld PROVE Quiet'
<1>1. CASE Call
  <2>1. running
    BY <1>1 DEF Call
  <2>2. PICK o \in Readable, h \in MayHold : Enter(o, h)
    BY <1>1 DEF Call
  <2>3. h \in {None, Top.held} \cup Readable
    BY DEF MayHold
  <2>4. o \in {Top.held} \cup Readable /\ o # None
    BY NamesAssumption DEF Readable, IsFunction
  <2> QED BY <2>1, <2>2, <2>3, <2>4, EnterQuiet
<1>2. CASE CallHeld
  <2>1. running /\ Top.held # None
    BY <1>2 DEF CallHeld
  <2>2. PICK h \in {None} \cup Readable : Enter(Top.held, h)
    BY <1>2 DEF CallHeld
  <2>3. Top.held \in {Top.held} \cup Readable /\ h \in {None, Top.held} \cup Readable
    OBVIOUS
  <2> QED BY <2>1, <2>2, <2>3, EnterQuiet
<1> QED BY <1>1, <1>2

LEMMA TypeQuiet == ASSUME IInv, IInv', Quiet, Type PROVE Quiet'
<1>1. PICK t \in Lambdas \cup {None} : \E l \in Place(t) :
        si' = Append(si, NewContext("statements", None, l, Safe))
  BY DEF Type
<1>2. PICK l \in Place(t) : si' = Append(si, NewContext("statements", None, l, Safe))
  BY <1>1
<1>3. ~running /\ running' = TRUE /\ stranded' = stranded /\ si \in Seq(Context)
  BY Stack DEF Type
<1> DEFINE c == NewContext("statements", None, l, Safe)
<1>4. Safe \in Nat
  <2>1. CASE si = <<>>
    BY <2>1 DEF Safe
  <2>2. CASE si # <<>>
    <3>1. Len(si) \in 1 .. Len(si)
      BY <2>2, Stack, EmptySeq
    <3> QED BY <2>2, <3>1, Stack DEF Safe, Top
  <2> QED BY <2>1, <2>2
<1>5. l \in Objects \cup {None}
  BY DEF Place, Free
<1>6. c \in Context /\ c.safe = Safe
  BY <1>4, <1>5 DEF NewContext, Context
<1>7. si' = Append(si, c)
  BY <1>2
<1> HIDE DEF c
<1> QED BY <1>3, <1>6, <1>7, PushQuiet

LEMMA ExecuteQuiet == ASSUME IInv, IInv', Quiet, Execute PROVE Quiet'
<1>1. PICK t \in Lambdas \cup {None}, h \in MayHold, s \in {Top.safe, Top.safe + 1} :
        \E l \in Place(t) : si' = Append(Holding(h), NewContext("execute", None, l, s))
  BY DEF Execute
<1>2. PICK l \in Place(t) : si' = Append(Holding(h), NewContext("execute", None, l, s))
  BY <1>1
<1>3. running /\ running' = running /\ stranded' = stranded
  BY DEF Execute
<1>4. h \in {None, Top.held} \cup Readable
  BY DEF MayHold
<1> DEFINE q == Holding(h)
           c == NewContext("execute", None, l, s)
<1>5. q \in Seq(Context) /\ Len(q) = Len(si)
      /\ \A i \in 1 .. Len(si) : q[i].kind = si[i].kind /\ q[i].safe = si[i].safe
  BY <1>3, <1>4, HoldingInv
<1>6. s \in Nat /\ l \in Objects \cup {None}
  BY <1>3, Stack DEF Top, Place, Free
<1>7. c \in Context /\ c.kind = "execute"
  BY <1>6 DEF NewContext, Context
<1>8. si' = Append(q, c)
  BY <1>2
<1> HIDE DEF c, q
<1> QED BY <1>3, <1>5, <1>7, <1>8, PushQuiet

LEMMA AttentionQuiet == ASSUME IInv, IInv', Quiet, Attention PROVE Quiet'
<1> DEFINE m == IF Top.kind = "statements" THEN Len(si) ELSE Len(si) - 1
<1>1. running /\ PopTo(m, Below(m)) /\ stranded' = Stranded(m)
  BY DEF Attention
<1>2. m \in 0 .. Len(si)
  BY <1>1, Stack
<1> HIDE DEF m
<1>3. Len(si') = m /\ \A i \in 1 .. m : si'[i].kind = si[i].kind /\ si'[i].safe = si[i].safe
  BY <1>1, <1>2, PopToInv
<1> QED BY <1>1, <1>2, <1>3, StrandQuiet

LEMMA ErrorQuiet == ASSUME IInv, IInv', Quiet, Error PROVE Quiet'
<1>1. Len(si) \in Nat /\ DOMAIN si = 1 .. Len(si) /\ Len(si) \in 1 .. Len(si)
      /\ Top = si[Len(si)] /\ Safe = si[Len(si)].safe /\ si[Len(si)].safe \in Nat
  <2>1. running
    BY DEF Error
  <2>2. Len(si) > 0 /\ si # <<>>
    BY <2>1, Stack
  <2> QED BY <2>1, <2>2, Stack DEF Top, Safe
<1>2. CASE Safe > 0
  <2>1. PICK i \in DOMAIN si : Answer(i - 1)
    BY <1>2 DEF Error
  <2>2. i - 1 \in 0 .. Len(si) - 1
    BY <1>1
  <2> QED BY <2>1, <2>2, AnswerQuiet
<1>3. CASE ~(Safe > 0)
  <2>1. PICK m \in Latest({ i \in DOMAIN si : Suspends(si[i]) }) : Leave(m, Below(m))
    BY <1>3 DEF Error
  <2>2. m \in 1 .. Len(si) /\ m \in 0 .. Len(si)
    BY <1>1 DEF Latest
  <2>3. si[Len(si)].safe = 0
    BY <1>1, <1>3
  <2>4. \A i \in 1 .. Len(si) : ~SafeStart(i)
    BY <1>1, <2>3, NoStart
  <2>5. \A i \in 1 .. m : ~SafeStart(i)
    BY <1>1, <2>2, <2>4
  <2> QED BY <2>1, <2>2, <2>5, LeaveQuiet
<1> QED BY <1>2, <1>3

LEMMA BranchQuiet == ASSUME IInv, IInv', Quiet, Branch PROVE Quiet'
<1>1. running /\ Len(si) \in Nat /\ DOMAIN si = 1 .. Len(si) /\ Len(si) \in 1 .. Len(si)
      /\ Len(si) \in 0 .. Len(si)
  BY Stack DEF Branch
<1>2. CASE Top.kind = "function"
  <2>1. Leave(Len(si), Holding(None)) /\ running' /\ Len(si) > 0
    BY <1>1, <1>2 DEF Branch
  <2>2. Below(Len(si)) = si
    BY Stack DEF Below
  <2>3. Holding(None) = [Below(Len(si)) EXCEPT ![Len(si)].held = None]
    BY <2>2 DEF Holding
  <2> QED BY <1>1, <2>1, <2>3, LeaveQuiet
<1>3. CASE Top.kind # "function" /\ SafeStart(Len(si))
  <2>1. Answer(Len(si) - 1) /\ Len(si) - 1 \in 0 .. Len(si) - 1
    BY <1>1, <1>3 DEF Branch
  <2> QED BY <2>1, AnswerQuiet
<1>4. CASE Top.kind # "function" /\ ~SafeStart(Len(si)) /\ OfKind("function") # {}
  <2>1. PICK m \in Latest(OfKind("function")) : Leave(m, [Below(m) EXCEPT ![m].held = None])
    BY <1>4 DEF Branch
  <2>2. running'
    BY <1>1, <1>4 DEF Branch
  <2>3. m \in 0 .. Len(si) /\ m > 0
    BY <1>1 DEF Latest, OfKind
  <2> QED BY <2>1, <2>2, <2>3, LeaveQuiet
<1>5. CASE Top.kind # "function" /\ ~SafeStart(Len(si)) /\ ~(OfKind("function") # {})
  <2>1. si' = si /\ stranded' = Stranded(Len(si))
    BY <1>5 DEF Branch
  <2> QED BY <1>1, <2>1, StrandQuiet
<1> QED BY <1>2, <1>3, <1>4, <1>5

LEMMA RetryQuiet == ASSUME IInv, IInv', Quiet, Retry PROVE Quiet'
<1>1. running' /\ Len(si) > 1 /\ Leave(Len(si) - 1, Below(Len(si) - 1))
  BY DEF Retry
<1>2. Len(si) - 1 \in 0 .. Len(si)
  BY <1>1, Stack
<1> QED BY <1>1, <1>2, LeaveQuiet

\* What is left of a statement list that is escaped from is below it.
LEMMA EscapeQuiet == ASSUME IInv, IInv', Quiet, Escape PROVE Quiet'
<1>1. Len(si) \in Nat /\ DOMAIN si = 1 .. Len(si) /\ Len(si) \in 1 .. Len(si)
  <2>1. si # <<>>
    BY DEF Escape
  <2> QED BY <2>1, Stack, EmptySeq
<1>2. CASE running /\ SafeStart(Len(si))
  <2>1. Answer(Len(si) - 1) /\ Len(si) - 1 \in 0 .. Len(si) - 1
    BY <1>1, <1>2 DEF Escape
  <2> QED BY <2>1, AnswerQuiet
<1>3. CASE ~(running /\ SafeStart(Len(si)))
  <2>1. PICK m \in Latest(OfKind("statements")) : Leave(m-1, Below(m-1))
    BY <1>3 DEF Escape
  <2>2. m \in 1 .. Len(si) /\ si[m].kind = "statements" /\ m-1 \in 0 .. Len(si)
    BY <1>1 DEF Latest, OfKind
  <2>3. ASSUME NEW i \in 1 .. m-1, i > stranded PROVE ~SafeStart(i)
    <3>1. i \in 1 .. m
      BY <1>1, <2>2
    <3> QED BY <2>2, <2>3, <3>1 DEF Quiet
  <2> QED BY <2>1, <2>2, <2>3, LeaveQuiet
<1> QED BY <1>2, <1>3

LEMMA ClearQuiet == ASSUME IInv, IInv', Quiet, ClearSI \/ ClearWS PROVE Quiet'
<1>1. si' = <<>> /\ Len(si') = 0 /\ 0 \in 0 .. Len(si)
  BY Stack DEF ClearSI, ClearWS, Leave, PopTo
<1>2. stranded' = 0
  BY DEF ClearSI, ClearWS, Leave, Quiet
<1> QED BY <1>1, <1>2, PopQuiet

LEMMA RebindQuiet ==
  ASSUME Quiet, NEW n, NEW b, NEW f, NEW e, Rebind(n, b, f, e)
  PROVE  Quiet'
BY SameQuiet DEF Rebind

LEMMA NextQuiet == ASSUME IInv, IInv', Quiet, [Next]_vars PROVE Quiet'
<1>1. CASE Type
  BY <1>1, TypeQuiet
<1>2. CASE Execute
  BY <1>2, ExecuteQuiet
<1>3. CASE Call \/ CallHeld
  BY <1>3, CallQuiet
<1>4. CASE Return
  <2>1. Answer(Len(si) - 1) /\ Len(si) - 1 \in 0 .. Len(si) - 1
    BY <1>4, Stack DEF Return
  <2> QED BY <2>1, AnswerQuiet
<1>5. CASE Attention
  BY <1>5, AttentionQuiet
<1>6. CASE Error
  BY <1>6, ErrorQuiet
<1>7. CASE Branch
  BY <1>7, BranchQuiet
<1>8. CASE Retry
  BY <1>8, RetryQuiet
<1>9. CASE Escape
  BY <1>9, EscapeQuiet
<1>10. CASE ClearSI \/ ClearWS
  BY <1>10, ClearQuiet
<1>11. ASSUME NEW n \in Symbols, Assign(n) \/ AssignLambda(n) \/ Expunge(n) \/ Erase(n) PROVE Quiet'
  BY <1>11, RebindQuiet DEF Assign, AssignLambda, Expunge, Erase
<1>12. ASSUME NEW t \in Functions, Fix(t) PROVE Quiet'
  BY <1>12, RebindQuiet DEF Fix
<1>13. CASE Check
  BY <1>13, SameQuiet DEF Check
<1>14. CASE UNCHANGED vars
  BY <1>14, SameQuiet DEF vars
<1> QED BY <1>1, <1>2, <1>3, <1>4, <1>5, <1>6, <1>7, <1>8, <1>9, <1>10, <1>11, <1>12, <1>13, <1>14 DEF Next

-----------------------------------------------------------------------------
(* The theorems.                                                           *)

LEMMA Invariance == ASSUME Careful PROVE Spec => []IInv
<1>1. IInv /\ [Next]_vars => IInv'
  BY NextInv
<1> QED BY <1>1, InitInv, PTL DEF Spec

LEMMA StaysQuiet == ASSUME Careful PROVE Spec => []Quiet
<1>1. Init => Quiet
  <2> SUFFICES ASSUME Init PROVE Quiet
    OBVIOUS
  <2>1. si = <<>> /\ stranded = 0
    BY DEF Init
  <2> QED BY <2>1 DEF Quiet, InputIsNotSafe
<1>2. IInv /\ IInv' /\ Quiet /\ [Next]_vars => Quiet'
  BY NextQuiet
<1> QED BY <1>1, <1>2, Invariance, PTL DEF Spec

\* Every action leaves the value stacks, the function objects, the contexts
\* and the list of expunged functions well-formed.
THEOREM TypeCorrect == ASSUME Careful PROVE Spec => []TypeOK
<1>1. IInv /\ Quiet => TypeOK
  <2> SUFFICES ASSUME IInv, Quiet PROVE TypeOK
    OBVIOUS
  <2>1. Types(vs, fn, si, expunged) /\ running \in BOOLEAN /\ stranded \in Nat
    BY DEF IInv, Sound, Waits, Quiet
  <2>2. \A n \in Symbols : vs[n] \in Seq(Binding) \ {<<>>}
    <3> TAKE n \in Symbols
    <3>1. vs[n] \in Seq(Binding) /\ Len(vs[n]) \in 1 .. MaxDepth + 1
      BY StacksAreBounded DEF IInv
    <3>2. Len(vs[n]) # 0
      BY <3>1, NamesAssumption
    <3>3. vs[n] # <<>>
      BY <3>2
    <3> QED BY <3>1, <3>3
  <2> QED BY <2>1, <2>2 DEF TypeOK, Types
<1> QED BY <1>1, Invariance, StaysQuiet, PTL

\* However functions are fixed, expunged and erased while they execute, every
\* context that is popped pops as many bindings as it has pushed, if nobody
\* expunges a lambda that is executing or a function that waits for its call,
\* and no name that shares a lambda with a body is redefined.
THEOREM ScopesFollow == ASSUME Careful PROVE Spec => []ScopesFollowSI
<1>1. IInv => ScopesFollowSI
  <2> SUFFICES ASSUME IInv, NEW n \in Symbols PROVE Len(vs[n]) = 1 + Depth(n, DOMAIN si)
    BY DEF ScopesFollowSI
  <2>1. DOMAIN si = 1 .. Len(si)
    BY Stack
  <2>2. \A c : Localised(c) = LocalisedIn(fn, c)
    BY DEF Localised, LocalisedIn, Alive
  <2>3. Depth(n, DOMAIN si) = Cardinality(InDepth(fn, si, n, 1 .. Len(si)))
    BY <2>1, <2>2 DEF Depth, InDepth
  <2> QED BY <2>3 DEF IInv, Sound, ScopesIn
<1> QED BY <1>1, Invariance, PTL

\* With the same care, no context, body, name or list refers to a function
\* object that was deleted.
THEOREM NothingDangles == ASSUME Careful PROVE Spec => []FunctionsInUseExist
<1>1. IInv => FunctionsInUseExist
  BY DEF IInv, Sound, AliveIn, FunctionsInUseExist, Alive
<1> QED BY <1>1, Invariance, PTL

\* With the same care, the owners that a lambda counts are no fewer than the
\* names, bodies and statements that refer to it.
THEOREM OwnersAreCounted == ASSUME Careful PROVE Spec => []LambdasAreOwned
<1>1. IInv => LambdasAreOwned
  BY DEF IInv, Sound, OwnedIn, LambdasAreOwned, Alive, IsLambda, Lambda
<1> QED BY <1>1, Invariance, PTL

\* With the same care, a line is read with a context on the stack that has
\* started a safe execution only if an interrupt, or a branch without a
\* function, has stranded that context: not after any error, escape, branch,
\* retry or result, however the safe executions were nested.
THEOREM NoInputInSafeExecution == ASSUME Careful PROVE Spec => []InputIsNotSafe
<1>1. Quiet => InputIsNotSafe
  BY DEF Quiet
<1> QED BY <1>1, StaysQuiet, PTL
=============================================================================
