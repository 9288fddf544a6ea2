---------------------------- MODULE KeysetScanProofs ----------------------------
(* Proofs about KeysetScan, for any rows, keys, lists, page sizes and      *)
(* number of failures.                                                     *)
EXTENDS KeysetScan, FiniteSetTheorems, WellFoundedInduction, TLAPS

-----------------------------------------------------------------------------
(* Finite sets of rows and their keys.                                     *)

(* Induction over the subsets of a finite set, for a property given as the *)
(* set G of those that have it.                                            *)
LEMMA SubsetInduction ==
    ASSUME NEW S, IsFiniteSet(S), NEW G,
           \A T \in SUBSET S : (\A U \in SUBSET T : U # T => U \in G) => T \in G
    PROVE  S \in G
<1> DEFINE F == {T \in SUBSET S : T \notin G}
<1>. SUFFICES ASSUME S \notin G PROVE FALSE
  OBVIOUS
<1>1. F \subseteq FiniteSubsetsOf(S) /\ S \in F
  BY FS_Subset DEF FiniteSubsetsOf
<1>2. PICK T \in F : \A U \in F : <<U, T>> \notin StrictSubsetOrdering(S)
  <2>1. IsWellFoundedOn(StrictSubsetOrdering(S), FiniteSubsetsOf(S))
    BY FS_StrictSubsetOrderingWellFounded
  <2> HIDE DEF F
  <2>2. F # {}
    BY <1>1
  <2>. QED  BY <1>1, <2>1, <2>2, WFMin
<1>3. ASSUME NEW U \in SUBSET T, U # T PROVE U \in G
  <2>1. T \in SUBSET S /\ U \in SUBSET S
    BY <1>2
  <2>2. <<U, T>> \in StrictSubsetOrdering(S)
    BY <1>3, <2>1 DEF StrictSubsetOrdering
  <2>. QED  BY <1>2, <2>1, <2>2
<1>. QED  BY <1>2, <1>3

(* Rows are finitely many, each with a number as its key.                  *)
LEMMA RowsFacts ==
    ASSUME NEW S \in SUBSET Rows
    PROVE  /\ IsFiniteSet(S) /\ Cardinality(S) \in Nat
           /\ \A r \in S : KeyOf[r] \in Nat
  BY RowsAssumption, FS_Subset, FS_CardinalityType

(* Rows have a last one.                                                   *)
LEMMA Greatest ==
    ASSUME NEW S \in SUBSET Rows, S # {}
    PROVE  \E m \in S : \A r \in S : KeyOf[r] <= KeyOf[m]
<1> DEFINE HasLast(T) == \E m \in T : \A r \in T : KeyOf[r] <= KeyOf[m]
           G == {T \in SUBSET S : T = {} \/ HasLast(T)}
<1>1. ASSUME NEW T \in SUBSET S, \A U \in SUBSET T : U # T => U \in G
      PROVE  T \in G
  <2>. SUFFICES ASSUME T # {} PROVE HasLast(T)
    OBVIOUS
  <2>1. PICK x \in T : TRUE
    OBVIOUS
  <2>2. T \ {x} = {} \/ HasLast(T \ {x})
    <3>1. T \ {x} \in SUBSET T /\ T \ {x} # T
      BY <2>1
    <3>. QED  BY <1>1, <3>1
  <2>3. CASE T \ {x} = {}
    <3>1. \A r \in T : r = x
      BY <2>3
    <3>2. KeyOf[x] \in Nat
      BY <2>1, RowsFacts
    <3>. QED  BY <2>1, <3>1, <3>2
  <2>4. ASSUME NEW m \in T \ {x}, \A r \in T \ {x} : KeyOf[r] <= KeyOf[m]
        PROVE  HasLast(T)
    <3>1. CASE KeyOf[x] <= KeyOf[m]
      BY <2>4, <3>1
    <3>2. CASE KeyOf[m] <= KeyOf[x]
      BY <2>4, <3>2, RowsFacts
    <3>. QED  BY <3>1, <3>2, RowsFacts
  <2>. QED  BY <2>2, <2>3, <2>4
<1> HIDE DEF G
<1>2. S \in G
  BY <1>1, RowsFacts, SubsetInduction
<1>. QED  BY <1>2 DEF G

(* The first n rows come before all others.                                *)
LEMMA FirstComesFirst ==
    ASSUME NEW S \in SUBSET Rows, NEW n \in Nat,
           NEW b \in First(S, n), NEW r \in S \ First(S, n)
    PROVE  KeyOf[b] < KeyOf[r]
<1> DEFINE UpTo(x) == {s \in S : KeyOf[s] <= KeyOf[x]}
<1>1. b \in S /\ Cardinality(UpTo(b)) <= n /\ ~(Cardinality(UpTo(r)) <= n)
  BY DEF First
<1>. SUFFICES ASSUME KeyOf[r] <= KeyOf[b] PROVE FALSE
  BY <1>1, RowsFacts
<1>2. UpTo(r) \subseteq UpTo(b)
  BY <1>1, RowsFacts
<1>3. Cardinality(UpTo(r)) <= Cardinality(UpTo(b))
  BY <1>2, FS_Subset, RowsFacts
<1>4. Cardinality(UpTo(r)) \in Nat /\ Cardinality(UpTo(b)) \in Nat
  BY RowsFacts
<1>. QED  BY <1>1, <1>3, <1>4

(* They are n at most,                                                     *)
LEMMA FirstBounded ==
    ASSUME NEW S \in SUBSET Rows, NEW n \in Nat
    PROVE  Cardinality(First(S, n)) <= n
<1>1. First(S, n) \in SUBSET S
  BY DEF First
<1>2. CASE First(S, n) = {}
  BY <1>2, FS_EmptySet
<1>3. CASE First(S, n) # {}
  <2>1. PICK m \in First(S, n) : \A r \in First(S, n) : KeyOf[r] <= KeyOf[m]
    BY <1>1, <1>3, Greatest
  <2> DEFINE U == {s \in S : KeyOf[s] <= KeyOf[m]}
  <2>2. Cardinality(U) <= n
    BY <2>1 DEF First
  <2>3. First(S, n) \in SUBSET U
    BY <1>1, <2>1
  <2>4. Cardinality(First(S, n)) <= Cardinality(U)
    BY <2>3, FS_Subset, RowsFacts
  <2>5. U \in SUBSET Rows /\ First(S, n) \in SUBSET Rows
    BY <1>1
  <2>. QED  BY <2>2, <2>4, <2>5, RowsFacts
<1>. QED  BY <1>2, <1>3

(* and n if there are as many and no two have the same key.                *)
LEMMA FirstFull ==
    ASSUME NEW S \in SUBSET Rows, UniqueKeys(S), NEW n \in Nat, n <= Cardinality(S)
    PROVE  n <= Cardinality(First(S, n))
<1> DEFINE Full(T) == n <= Cardinality(T) => n <= Cardinality(First(T, n))
           G == {T \in SUBSET S : Full(T)}
<1>1. ASSUME NEW T \in SUBSET S, \A U \in SUBSET T : U # T => U \in G
      PROVE  T \in G
  <2>. SUFFICES ASSUME n <= Cardinality(T) PROVE n <= Cardinality(First(T, n))
    OBVIOUS
  <2>1. T \in SUBSET Rows /\ First(T, n) \in SUBSET T /\ Cardinality(T) \in Nat
    BY RowsFacts DEF First
  <2>2. CASE Cardinality(T) = n
    <3>1. ASSUME NEW r \in T PROVE r \in First(T, n)
      <4> DEFINE U == {s \in T : KeyOf[s] <= KeyOf[r]}
      <4>1. Cardinality(U) <= n
        BY <2>1, <2>2, FS_Subset, RowsFacts
      <4>. QED  BY <4>1 DEF First
    <3>2. First(T, n) = T
      BY <2>1, <3>1
    <3>. QED  BY <2>1, <2>2, <3>2
  <2>3. CASE n < Cardinality(T)
    <3>1. T # {}
      BY <2>3, FS_EmptySet
    <3>2. PICK m \in T : \A r \in T : KeyOf[r] <= KeyOf[m]
      BY <2>1, <3>1, Greatest
    <3> DEFINE R == T \ {m}
    <3>3. R \in SUBSET T /\ R # T /\ R \in SUBSET Rows
      BY <2>1, <3>2
    <3>4. Cardinality(R) = Cardinality(T) - 1
      BY <2>1, <3>2, RowsFacts, FS_RemoveElement
    <3>5. n <= Cardinality(First(R, n))
      <4>1. R \in G
        BY <1>1, <3>3
      <4>. QED  BY <2>1, <2>3, <3>4, <4>1
    <3>6. ASSUME NEW r \in R PROVE {s \in R : KeyOf[s] <= KeyOf[r]} = {s \in T : KeyOf[s] <= KeyOf[r]}
      <4>1. KeyOf[r] # KeyOf[m]
        BY <3>2, <3>3 DEF UniqueKeys
      <4>2. ~(KeyOf[m] <= KeyOf[r])
        BY <2>1, <3>2, <3>3, <4>1, RowsFacts
      <4>. QED  BY <4>2
    <3>7. First(R, n) \in SUBSET First(T, n)
      BY <3>3, <3>6 DEF First
    <3>8. Cardinality(First(R, n)) <= Cardinality(First(T, n))
      BY <2>1, <3>7, FS_Subset, RowsFacts
    <3>9. First(R, n) \in SUBSET Rows /\ First(T, n) \in SUBSET Rows
      BY <2>1, <3>3 DEF First
    <3>10. Cardinality(First(R, n)) \in Nat /\ Cardinality(First(T, n)) \in Nat
      BY <3>9, RowsFacts
    <3>. QED  BY <3>5, <3>8, <3>10
  <2>. QED  BY <2>1, <2>2, <2>3
<1> HIDE DEF G
<1>2. S \in G
  BY <1>1, RowsFacts, SubsetInduction
<1>. QED  BY <1>2 DEF G

(* The key of the last row.                                                *)
LEMMA LastKey ==
    ASSUME NEW S \in SUBSET Rows, S # {}
    PROVE  \E m \in S : Last(S) = KeyOf[m] /\ \A r \in S : KeyOf[r] <= KeyOf[m]
<1>1. PICK m \in S : \A r \in S : KeyOf[r] <= KeyOf[m]
  BY Greatest
<1>2. \E k \in {KeyOf[r] : r \in S} : \A r \in S : KeyOf[r] <= k
  BY <1>1
<1>3. Last(S) \in {KeyOf[r] : r \in S} /\ \A r \in S : KeyOf[r] <= Last(S)
  BY <1>2 DEF Last
<1>. QED  BY <1>3

-----------------------------------------------------------------------------
(* The cursor stands between the rows received and those to come.          *)

Reading == pc \in {"ready", "lookup", "stream"}

Cursor ==
    /\ UniqueKeys(rows)
    /\ Reading /\ token \notin Keys => Received = {}
    /\ token \in Keys => \A s \in Received : KeyOf[s] <= token
    /\ pc = "stream" => /\ UniqueKeys(batch)
                        /\ token \in Keys => \A r \in batch : token < KeyOf[r]

(* The inductive invariant of the order of the pages.                      *)
OrderInv == TypeOK /\ Cursor /\ PagesAdvance

(* The tokens that are no key are none.                                    *)
LEMMA NoKey == NoToken \notin Keys /\ BadToken \notin Keys /\ Keys \subseteq Nat
  BY RowsAssumption, TokenAssumption DEF Keys

(* A page, and the cursor after it, made of any of the rows selected.      *)
LEMMA AnswerOrder ==
    ASSUME OrderInv, pc = "stream", NEW got \in SUBSET batch, Answer(got),
           faults' \in 0..MaxFaults, broken' \in 0..faults'
    PROVE  OrderInv'
<1> DEFINE overfull == Cardinality(got) > size
           kept == IF overfull THEN First(got, size) ELSE got
<1>1. /\ page' = kept /\ delivered' = Received
      /\ token' = (IF overfull THEN Last(kept) ELSE NoToken)
      /\ pc' = (IF overfull THEN "ready" ELSE "done")
      /\ batch' = {}
      /\ UNCHANGED <<dbVars, list, filters, size, at>>
  BY DEF Answer
<1>2. /\ batch \subseteq Rows /\ got \subseteq Rows /\ page \subseteq Rows
      /\ delivered \subseteq Rows /\ size \in Nat \ {0}
  BY DEF OrderInv, TypeOK
<1>3. kept \subseteq got
  BY DEF First
<1>4. ASSUME overfull PROVE \E m \in kept : /\ Last(kept) = KeyOf[m]
                                            /\ \A r \in kept : KeyOf[r] <= KeyOf[m]
  <2>1. UniqueKeys(got)
    BY DEF OrderInv, Cursor, UniqueKeys
  <2>2. Cardinality(got) \in Nat
    BY <1>2, RowsFacts
  <2>3. size <= Cardinality(First(got, size))
    BY <1>2, <1>4, <2>1, <2>2, FirstFull
  <2>4. kept = First(got, size)
    BY <1>4
  <2>5. kept # {}
    BY <1>2, <2>3, <2>4, FS_EmptySet
  <2>. QED  BY <1>2, <1>3, <2>5, LastKey
<1> HIDE DEF kept, overfull
<1>5. token' \in Keys \cup {NoToken, BadToken}
  BY <1>1, <1>2, <1>3, <1>4 DEF Keys
<1>6. TypeOK'
  BY <1>1, <1>2, <1>3, <1>5 DEF OrderInv, TypeOK, dbVars, Received
<1>7. \A r \in kept, s \in Received : KeyOf[s] < KeyOf[r]
  <2>1. ASSUME NEW r \in kept, NEW s \in Received PROVE KeyOf[s] < KeyOf[r]
    <3>1. token \in Keys
      BY <2>1 DEF OrderInv, Cursor, Reading
    <3>2. KeyOf[s] <= token /\ token < KeyOf[r]
      BY <1>3, <2>1, <3>1 DEF OrderInv, Cursor
    <3>3. KeyOf[s] \in Nat /\ KeyOf[r] \in Nat /\ token \in Nat
      BY <1>2, <1>3, <2>1, <3>1, RowsAssumption, NoKey DEF Received
    <3>. QED  BY <3>2, <3>3
  <2>. QED  BY <2>1
<1>8. PagesAdvance'
  BY <1>1, <1>7 DEF PagesAdvance
<1>9. Cursor'
  <2>1. CASE overfull
    <3>1. PICK m \in kept : token' = KeyOf[m] /\ \A r \in kept : KeyOf[r] <= KeyOf[m]
      BY <1>1, <1>4, <2>1
    <3>2. token' \in Keys
      BY <1>2, <1>3, <3>1 DEF Keys
    <3>3. \A s \in Received' : KeyOf[s] <= token'
      <4>1. Received' = Received \cup kept
        BY <1>1 DEF Received
      <4>2. \A s \in Received : KeyOf[s] <= token'
        BY <1>2, <1>3, <1>7, <3>1, RowsAssumption DEF Received
      <4>. QED  BY <3>1, <4>1, <4>2
    <3>4. pc' # "stream" /\ rows' = rows
      BY <1>1, <2>1 DEF dbVars
    <3>. QED  BY <3>2, <3>3, <3>4 DEF OrderInv, Cursor
  <2>2. CASE ~overfull
    <3>1. token' \notin Keys /\ pc' = "done" /\ rows' = rows
      BY <1>1, <2>2, NoKey DEF dbVars
    <3>. QED  BY <3>1 DEF OrderInv, Cursor, Reading
  <2>. QED  BY <2>1, <2>2
<1>. QED  BY <1>6, <1>8, <1>9 DEF OrderInv

(* A scan begins with nothing received and nothing selected.               *)
LEMMA InitOrder == Init => OrderInv
<1>. SUFFICES ASSUME Init PROVE OrderInv
  OBVIOUS
<1>1. filters \subseteq Kinds
  BY ListsAssumption DEF Init, Elements, ListMethod
<1>2. TypeOK
  BY <1>1, PageSizeAssumption, FaultAssumption DEF Init, TypeOK
<1>3. Cursor
  BY NoKey DEF Init, Cursor, Received
<1>4. PagesAdvance
  BY DEF Init, PagesAdvance
<1>. QED  BY <1>2, <1>3, <1>4 DEF OrderInv

(* Other requests touch nothing the client has.                            *)
LEMMA DatabaseOrder ==
    ASSUME OrderInv, Database
    PROVE  OrderInv' /\ UNCHANGED <<scanVars, failVars>>
<1>1. UNCHANGED <<scanVars, failVars>>
  BY DEF Database, AddRow, RemoveRow, DropFilterRow
<1>2. UniqueKeys(rows') /\ rows' \subseteq Rows /\ steady' \subseteq rows' /\ gone' \subseteq Kinds
  BY DEF OrderInv, TypeOK, Cursor, UniqueKeys, Database, AddRow, RemoveRow, DropFilterRow
<1>. QED  BY <1>1, <1>2 DEF OrderInv, TypeOK, Cursor, UniqueKeys, PagesAdvance, Reading,
                            Received, scanVars, failVars

(* Every step of the scan keeps what is received behind the cursor and     *)
(* what is selected beyond it.                                             *)
LEMMA ScanOrder ==
    ASSUME OrderInv, Scan \/ StatementFails \/ StreamBreaks
    PROVE  OrderInv'
<1>1. CASE Request
  <2>1. size' \in Nat \ {0}
    BY <1>1, PageSizeAssumption DEF Request
  <2>. QED  BY <1>1, <2>1 DEF Request, OrderInv, TypeOK, Cursor, UniqueKeys,
                              PagesAdvance, Reading, Received, dbVars, failVars
<1>2. CASE LookupFilter
  BY <1>2 DEF LookupFilter, OrderInv, TypeOK, Cursor, UniqueKeys, PagesAdvance, Reading,
              Received, dbVars, failVars
<1>3. CASE Select
  <2>1. batch' \subseteq Beyond(token) /\ Beyond(token) \subseteq rows
    BY <1>3 DEF Select, First, Beyond
  <2>2. token \in Keys => \A r \in batch' : token < KeyOf[r]
    BY <2>1, NoKey DEF Beyond
  <2>3. UniqueKeys(batch') /\ batch' \subseteq Rows
    BY <2>1 DEF OrderInv, TypeOK, Cursor, UniqueKeys
  <2>. QED  BY <1>3, <2>2, <2>3 DEF Select, OrderInv, TypeOK, Cursor, UniqueKeys,
                                     PagesAdvance, Reading, Received, dbVars, failVars
<1>4. CASE Finish
  BY <1>4, AnswerOrder DEF Finish, OrderInv, TypeOK, failVars
<1>5. ASSUME Fail, Reading, faults' \in 0..MaxFaults, broken' \in 0..faults'
      PROVE  OrderInv'
  BY <1>5 DEF Fail, OrderInv, TypeOK, Cursor, UniqueKeys, PagesAdvance, Reading, Received,
              dbVars
<1>6. CASE StatementFails
  <2>1. faults' \in 0..MaxFaults /\ broken' \in 0..faults'
    BY <1>6, FaultAssumption DEF StatementFails, OrderInv, TypeOK
  <2>. QED  BY <1>5, <1>6, <2>1 DEF StatementFails, Reading
<1>7. CASE StreamBreaks
  <2>1. faults' \in 0..MaxFaults /\ broken' \in 0..faults'
    BY <1>7, FaultAssumption DEF StreamBreaks, OrderInv, TypeOK
  <2>2. CASE Fail
    BY <1>5, <1>7, <2>1, <2>2 DEF StreamBreaks, Reading
  <2>3. ASSUME NEW n \in 0..Cardinality(batch), Answer(First(batch, n)) PROVE OrderInv'
    <3>1. First(batch, n) \in SUBSET batch
      BY DEF First
    <3>. QED  BY <1>7, <2>1, <2>3, <3>1, AnswerOrder DEF StreamBreaks
  <2>. QED  BY <1>7, <2>2, <2>3 DEF StreamBreaks
<1>. QED  BY <1>1, <1>2, <1>3, <1>4, <1>6, <1>7 DEF Scan

(* The cursor never falls behind a row the client has and never runs ahead *)
(* of one it was not given in key order: OrderInv is inductive.            *)
THEOREM OrderInvariance == Spec => []OrderInv
<1>1. OrderInv /\ [Next]_vars => OrderInv'
  <2>. SUFFICES ASSUME OrderInv, [Next]_vars PROVE OrderInv'
    OBVIOUS
  <2>1. CASE UNCHANGED vars
    BY <2>1 DEF vars, dbVars, scanVars, failVars, OrderInv, TypeOK, Cursor, UniqueKeys,
                PagesAdvance, Reading, Received
  <2>. QED  BY <2>1, DatabaseOrder, ScanOrder DEF Next
<1>. QED  BY <1>1, InitOrder, PTL DEF Spec

(* The state of a scan stays within its types: in particular the page size *)
(* used is positive and the cursor the key of some row, whatever is asked. *)
THEOREM TypeCorrect == Spec => []TypeOK
<1>1. OrderInv => TypeOK
  BY DEF OrderInv
<1>. QED  BY <1>1, OrderInvariance, PTL

(* No page holds a row of an earlier one or comes before it, for any list, *)
(* any page sizes and any number of failures, while rows come and go.      *)
THEOREM OrderOfPages == Spec => []PagesAdvance
<1>1. OrderInv => PagesAdvance
  BY DEF OrderInv
<1>. QED  BY <1>1, OrderInvariance, PTL

-----------------------------------------------------------------------------
(* Nothing is left behind the cursor.                                      *)

(* A steady row behind the cursor was received; one ahead of it is in the  *)
(* rows selected or comes after them, and then they are more than a page.  *)
NothingBehind ==
    \A r \in steady :
       /\ token \in Keys /\ KeyOf[r] <= token => r \in Received
       /\ pc = "stream" =>
            \/ token \in Keys /\ KeyOf[r] <= token
            \/ r \in batch
            \/ size < Cardinality(batch) /\ \A b \in batch : KeyOf[b] < KeyOf[r]
       /\ pc = "done" => r \in Received

(* Nothing lies behind a cursor that is not there yet.                     *)
LEMMA InitNothingBehind == Init => NothingBehind
  BY NoKey DEF Init, NothingBehind

(* Holds as long as every row that was selected is iterated over.          *)
LEMMA FinishNothingBehind ==
    ASSUME OrderInv, NothingBehind, pc = "stream", Answer(batch)
    PROVE  NothingBehind'
<1> DEFINE overfull == Cardinality(batch) > size
           kept == IF overfull THEN First(batch, size) ELSE batch
<1>1. /\ token' = (IF overfull THEN Last(kept) ELSE NoToken)
      /\ pc' = (IF overfull THEN "ready" ELSE "done")
      /\ Received' = Received \cup kept
      /\ steady' = steady
  BY DEF Answer, Received, dbVars
<1>2. /\ batch \in SUBSET Rows /\ size \in Nat /\ steady \subseteq Rows
      /\ UniqueKeys(batch) /\ Cardinality(batch) \in Nat
  BY RowsFacts DEF OrderInv, TypeOK, Cursor
<1>3. CASE ~overfull
  <2>1. ASSUME NEW r \in steady PROVE r \in Received'
    BY <1>1, <1>2, <1>3, <2>1 DEF NothingBehind
  <2>. QED  BY <1>1, <1>3, <2>1, NoKey DEF NothingBehind
<1>4. CASE overfull
  <2>1. kept = First(batch, size) /\ kept \subseteq batch
    BY <1>4 DEF First
  <2>2. kept # {}
    <3>1. 1 <= size
      BY DEF OrderInv, TypeOK
    <3>2. size <= Cardinality(kept)
      BY <1>2, <1>4, <2>1, FirstFull
    <3>. QED  BY <3>1, <3>2, <1>2, FS_EmptySet
  <2>3. PICK m \in kept : token' = KeyOf[m] /\ \A r \in kept : KeyOf[r] <= KeyOf[m]
    BY <1>1, <1>2, <1>4, <2>1, <2>2, LastKey
  <2> HIDE DEF kept
  <2>4. ASSUME NEW r \in steady, KeyOf[r] <= KeyOf[m] PROVE r \in Received'
    <3>1. r \in Rows /\ m \in batch /\ KeyOf[r] \in Nat /\ KeyOf[m] \in Nat
      BY <1>2, <2>1, RowsAssumption
    <3>2. CASE r \in batch
      <4>1. r \in kept
        BY <1>2, <2>1, <2>4, <3>1, <3>2, FirstComesFirst
      <4>. QED  BY <1>1, <4>1
    <3>3. CASE r \notin batch
      <4>1. r \in Received
        BY <2>4, <3>1, <3>3 DEF NothingBehind
      <4>. QED  BY <1>1, <4>1
    <3>. QED  BY <3>2, <3>3
  <2>. QED  BY <1>1, <1>4, <2>3, <2>4 DEF NothingBehind
<1>. QED  BY <1>3, <1>4

(* What is selected are the first rows beyond the cursor, so a row ahead   *)
(* is among them or after all of them.                                     *)
LEMMA SelectNothingBehind ==
    ASSUME OrderInv, NothingBehind, Select
    PROVE  NothingBehind'
<1> DEFINE B == Beyond(token)
<1>1. /\ batch' = First(B, size + 1) /\ pc' = "stream" /\ pc = "lookup"
      /\ UNCHANGED <<rows, steady, token, size, page, delivered>>
  BY DEF Select, dbVars
<1>2. /\ B \subseteq rows /\ B \in SUBSET Rows /\ UniqueKeys(B)
      /\ steady \subseteq rows /\ steady \subseteq Rows /\ size + 1 \in Nat /\ size \in Nat
  BY DEF Beyond, OrderInv, TypeOK, Cursor, UniqueKeys
<1>3. Received' = Received
  BY <1>1 DEF Received
<1>4. ASSUME NEW r \in steady, r \notin batch', ~(token \in Keys /\ KeyOf[r] <= token)
      PROVE  size < Cardinality(batch') /\ \A b \in batch' : KeyOf[b] < KeyOf[r]
  <2>1. r \in B
    <3>1. KeyOf[r] \in Nat
      BY <1>2, RowsAssumption
    <3>2. CASE token \in Keys
      BY <1>2, <1>4, <3>1, <3>2, NoKey DEF Beyond
    <3>3. CASE token \notin Keys
      BY <1>2, <3>3 DEF Beyond, OrderInv, TypeOK
    <3>. QED  BY <3>2, <3>3
  <2>2. r \in B \ First(B, size + 1)
    BY <1>1, <1>4, <2>1
  <2>3. \A b \in batch' : KeyOf[b] < KeyOf[r]
    BY <1>1, <1>2, <2>2, FirstComesFirst
  <2>4. size + 1 <= Cardinality(B)
    <3> DEFINE U == {s \in B : KeyOf[s] <= KeyOf[r]}
    <3>1. ~(Cardinality(U) <= size + 1)
      BY <2>2 DEF First
    <3>2. Cardinality(U) <= Cardinality(B)
      BY <1>2, FS_Subset, RowsFacts
    <3>3. Cardinality(U) \in Nat /\ Cardinality(B) \in Nat
      BY <1>2, RowsFacts
    <3>. QED  BY <1>2, <3>1, <3>2, <3>3
  <2>5. size + 1 <= Cardinality(batch')
    BY <1>1, <1>2, <2>4, FirstFull
  <2>6. Cardinality(batch') \in Nat
    <3>1. batch' \in SUBSET Rows
      BY <1>1, <1>2 DEF First
    <3>. QED  BY <3>1, RowsFacts
  <2>. QED  BY <1>2, <2>3, <2>5, <2>6
<1>. QED  BY <1>1, <1>3, <1>4 DEF NothingBehind

(* No stream broke unnoticed.                                              *)
Noticed == broken = 0 \/ list.checksRowsErr

(* As long as breaks are noticed no step leaves a steady row behind.       *)
LEMMA StepNothingBehind ==
    ASSUME OrderInv, Noticed => NothingBehind, [Next]_vars
    PROVE  Noticed' => NothingBehind'
<1>1. Noticed' => Noticed
  <2>1. list' = list
    BY DEF Next, Database, Scan, AddRow, RemoveRow, DropFilterRow, Request, LookupFilter,
           Select, Finish, Answer, StatementFails, StreamBreaks, Fail, scanVars, vars
  <2>2. broken' = broken \/ broken' = broken + 1
    BY DEF Next, Database, Scan, AddRow, RemoveRow, DropFilterRow, Request, LookupFilter,
           Select, Finish, StatementFails, StreamBreaks, failVars, vars
  <2>3. broken \in Nat
    BY FaultAssumption DEF OrderInv, TypeOK
  <2>. QED  BY <2>1, <2>2, <2>3 DEF Noticed
<1>. SUFFICES ASSUME Noticed', NothingBehind PROVE NothingBehind'
  BY <1>1
<1>2. CASE Database
  <2>1. /\ UNCHANGED <<pc, token, size, batch, page, delivered>>
        /\ steady' \subseteq steady
    BY <1>2 DEF Database, AddRow, RemoveRow, DropFilterRow, scanVars
  <2>. QED  BY <2>1 DEF NothingBehind, Received
<1>3. CASE Request
  BY <1>3 DEF Request, NothingBehind, Received, dbVars
<1>4. CASE LookupFilter
  BY <1>4 DEF LookupFilter, NothingBehind, Received, dbVars
<1>5. CASE Select
  BY <1>5, SelectNothingBehind
<1>6. CASE Finish
  BY <1>6, FinishNothingBehind DEF Finish
<1>7. CASE Fail
  BY <1>7 DEF Fail, NothingBehind, Received, dbVars
<1>8. CASE StatementFails
  BY <1>7, <1>8 DEF StatementFails
<1>9. CASE StreamBreaks
  <2>1. broken' # 0
    BY <1>9 DEF StreamBreaks, OrderInv, TypeOK
  <2>2. list' = list
    BY <1>9 DEF StreamBreaks, Fail, Answer
  <2>3. list.checksRowsErr
    BY <2>1, <2>2 DEF Noticed
  <2>. QED  BY <1>7, <1>9, <2>3 DEF StreamBreaks
<1>10. CASE UNCHANGED vars
  BY <1>10 DEF vars, dbVars, scanVars, NothingBehind, Received
<1>. QED  BY <1>2, <1>3, <1>4, <1>5, <1>6, <1>8, <1>9, <1>10 DEF Next, Scan

(* A client that reached the end of a list read every row that was in it   *)
(* all along, however many others came and went between and during the     *)
(* requests: with the methods that read rows.Err whatever breaks, with the *)
(* others as long as no connection breaks while rows stream.               *)
THEOREM CompleteScans == Spec => []CompleteUnlessBroken
<1>1. Init => (Noticed => NothingBehind)
  BY InitNothingBehind
<1>2. OrderInv /\ (Noticed => NothingBehind) /\ [Next]_vars => (Noticed => NothingBehind)'
  BY StepNothingBehind
<1>3. (Noticed => NothingBehind) => CompleteUnlessBroken
  BY DEF Noticed, NothingBehind, Completeness, CompleteUnlessBroken
<1>. QED  BY <1>1, <1>2, <1>3, OrderInvariance, PTL DEF Spec

(* If every List method read rows.Err, as ListAssets and ListPriceHistory  *)
(* do, no failure of the database would pass off part of a list as all of  *)
(* it: the five that do not are all there is to the missing rows.          *)
COROLLARY CompleteIfRowsErrIsRead ==
    ASSUME \A l \in Lists : l.checksRowsErr
    PROVE  Spec => []Completeness
<1>1. TypeOK /\ CompleteUnlessBroken => Completeness
  BY DEF TypeOK, CompleteUnlessBroken
<1>. QED  BY <1>1, TypeCorrect, CompleteScans, PTL

-----------------------------------------------------------------------------
(* A page followed by another is full: the token of a next page is given   *)
(* with exactly the requested number of rows, never with fewer or more.    *)
THEOREM FullPages == Spec => FullUntilLast
<1>1. ASSUME OrderInv, pc = "stream", NEW got \in SUBSET batch, Answer(got), pc' = "ready"
      PROVE  Cardinality(page') = size
  <2>1. page' = First(got, size) /\ Cardinality(got) > size
    BY <1>1 DEF Answer
  <2>2. got \in SUBSET Rows /\ UniqueKeys(got) /\ size \in Nat
    BY <1>1 DEF OrderInv, TypeOK, Cursor, UniqueKeys
  <2>3. Cardinality(got) \in Nat /\ Cardinality(page') \in Nat
    <3>1. page' \in SUBSET Rows
      BY <2>1, <2>2 DEF First
    <3>. QED  BY <2>2, <3>1, RowsFacts
  <2>4. size <= Cardinality(page')
    BY <2>1, <2>2, <2>3, FirstFull
  <2>5. Cardinality(page') <= size
    BY <2>1, <2>2, FirstBounded
  <2>. QED  BY <2>2, <2>3, <2>4, <2>5
<1>2. ASSUME OrderInv, Next, page' # page, pc' = "ready"
      PROVE  Cardinality(page') = size
  <2>1. \E got \in SUBSET batch : pc = "stream" /\ Answer(got)
    <3>1. ~Database
      BY <1>2 DEF Database, AddRow, RemoveRow, DropFilterRow, scanVars
    <3>2. ~Request /\ ~LookupFilter /\ ~Select /\ ~StatementFails /\ ~Fail
      BY <1>2 DEF Request, LookupFilter, Select, StatementFails, Fail
    <3>3. CASE Finish
      BY <3>3 DEF Finish
    <3>4. CASE StreamBreaks
      BY <3>2, <3>4 DEF StreamBreaks, First
    <3>. QED  BY <1>2, <3>1, <3>2, <3>3, <3>4 DEF Next, Scan
  <2>. QED  BY <1>1, <1>2, <2>1
<1>3. OrderInv /\ [Next]_vars =>
        [page' # page /\ pc' = "ready" => Cardinality(page') = size]_vars
  BY <1>2 DEF vars, scanVars
<1>. QED  BY <1>3, OrderInvariance, PTL DEF Spec, FullUntilLast
=============================================================================
