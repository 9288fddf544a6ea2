-------------------------------- MODULE Ledger --------------------------------
(***************************************************************************)
(* What the tables of the store promise, whatever calls are in progress:   *)
(* a set of entries, each needing some others and tagged with some others. *)
(* An entry appears once, at one instant, when all it refers to is there;  *)
(* it is retagged with entries that are there; and it goes, alone or with  *)
(* others, only when no other needs it, and is taken off the tags of all.  *)
(***************************************************************************)
EXTENDS TLAPS

CONSTANTS
    Entry,      \* all entries there can be
    Founding    \* those that are there to begin with

VARIABLES
    entries,    \* the entries that are there
    ever,       \* the entries that ever were
    needs,      \* the entries each cannot do without
    tags        \* the entries each is tagged with

lvars == <<entries, ever, needs, tags>>

Init ==
    /\ entries = Founding
    /\ ever = Founding
    /\ needs = [x \in Entry |-> {}]
    /\ tags = [x \in Entry |-> {}]

Add(x) ==
    /\ x \notin ever
    /\ entries' = entries \cup {x}
    /\ ever' = ever \cup {x}
    /\ \E N \in SUBSET entries, T \in SUBSET entries :
          /\ needs' = [needs EXCEPT ![x] = N]
          /\ tags' = [tags EXCEPT ![x] = T]

Retag(x) ==
    /\ x \in entries
    /\ \E T \in SUBSET entries : tags' = [tags EXCEPT ![x] = T]
    /\ UNCHANGED <<entries, ever, needs>>

(* The entries of S go at once.                                            *)
Remove(S) ==
    /\ \A y \in entries \ S : needs[y] \cap S = {}
    /\ entries' = entries \ S
    /\ needs' = [y \in Entry |-> IF y \in S THEN {} ELSE needs[y]]
    /\ tags' = [y \in Entry |-> IF y \in S THEN {} ELSE tags[y] \ S]
    /\ UNCHANGED ever

Next == \/ \E x \in Entry : Add(x) \/ Retag(x)
        \/ \E S \in SUBSET entries : Remove(S)

Spec == Init /\ [][Next]_lvars
-----------------------------------------------------------------------------
TypeOK ==
    /\ entries \subseteq ever
    /\ ever \subseteq Entry
    /\ needs \in [Entry -> SUBSET Entry]
    /\ tags \in [Entry -> SUBSET Entry]

(* No entry refers to one that is not there.                               *)
Closed == \A x \in entries : needs[x] \cup tags[x] \subseteq entries
-----------------------------------------------------------------------------
(* The tables of a ledger are sets and functions of its entries.           *)
THEOREM TypeCorrect == ASSUME Founding \subseteq Entry PROVE Spec => []TypeOK
<1>1. Init => TypeOK
  BY DEF Init, TypeOK
<1>2. TypeOK /\ [Next]_lvars => TypeOK'
  BY DEF TypeOK, Next, lvars, Add, Retag, Remove
<1>. QED  BY <1>1, <1>2, PTL DEF Spec

(* No step of a ledger leaves an entry that refers to a missing one.       *)
THEOREM ClosedInvariant == ASSUME Founding \subseteq Entry PROVE Spec => []Closed
<1>1. Init => Closed
  BY DEF Init, Closed
<1>2. TypeOK /\ Closed /\ [Next]_lvars => Closed'
  <2>. SUFFICES ASSUME TypeOK, Closed, [Next]_lvars PROVE Closed'
    OBVIOUS
  <2>1. ASSUME NEW x \in Entry, Add(x) PROVE Closed'
    BY <2>1 DEF TypeOK, Closed, Add
  <2>2. ASSUME NEW x \in Entry, Retag(x) PROVE Closed'
    BY <2>2 DEF TypeOK, Closed, Retag
  <2>3. ASSUME NEW S \in SUBSET entries, Remove(S) PROVE Closed'
    BY <2>3 DEF TypeOK, Closed, Remove
  <2>4. CASE UNCHANGED lvars
    BY <2>4 DEF Closed, lvars
  <2>. QED  BY <2>1, <2>2, <2>3, <2>4 DEF Next
<1>3. Spec => []TypeOK
  BY TypeCorrect
<1>. QED  BY <1>1, <1>2, <1>3, PTL DEF Spec
=============================================================================
