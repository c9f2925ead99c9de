----------------------------- MODULE AliasBook -----------------------------
(***************************************************************************)
(* What the Live Response alias registry promises: lr-1, lr-2, ... each    *)
(* name one session on one device, for good.  The book only grows, and a   *)
(* new entry takes an alias and a session that no entry had.               *)
(***************************************************************************)
EXTENDS Naturals

CONSTANTS Aliases, Sessions, Machines

VARIABLE book   \* the bindings made so far

Binding == [alias: Aliases, session: Sessions, machine: Machines]

TypeOK == book \subseteq Binding

\* Bindings that come from a registry of an older version of the program.
Init == book \subseteq Binding

Bind(b) ==
    /\ \A x \in book : x.alias # b.alias /\ x.session # b.session
    /\ book' = book \cup {b}

Next == \E b \in Binding : Bind(b)

Spec == Init /\ [][Next]_book
=============================================================================
