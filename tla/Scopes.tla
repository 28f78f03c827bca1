-------------------------------- MODULE Scopes --------------------------------
(***************************************************************************)
(* Dynamic scope, as APL defines it: every call of a defined function has  *)
(* bindings of its own for the names that it localises, a name means the   *)
(* binding of the innermost call that localises it, and what a call has    *)
(* bound is gone, and what it hid is back, when it leaves.  The first      *)
(* scope is the workspace, which binds every name.                         *)
(***************************************************************************)
EXTENDS Naturals, Sequences

CONSTANTS
  Names,    \* what can be bound
  Bindings, \* what a name can be bound to
  Unused    \* the binding of a name that is not used

VARIABLE scopes  \* one function from names to bindings for each scope

Workspace == [n \in Names |-> Unused]

Scope == UNION { [ns -> Bindings] : ns \in SUBSET Names }

\* The innermost scope that binds n
Owner(n) ==
  CHOOSE i \in DOMAIN scopes :
    n \in DOMAIN scopes[i] /\ \A j \in i+1 .. Len(scopes) : n \notin DOMAIN scopes[j]

Init == scopes = <<Workspace>>

Enter == \E s \in Scope : scopes' = Append(scopes, s)

Bind ==
  \E n \in Names, b \in Bindings : scopes' = [scopes EXCEPT ![Owner(n)][n] = b]

Leave == \E k \in 1 .. Len(scopes) : scopes' = SubSeq(scopes, 1, k)

Clear == scopes' = <<Workspace>>

Next == Clear \/ Leave \/ Bind \/ Enter

Spec == Init /\ [][Next]_scopes
=============================================================================
