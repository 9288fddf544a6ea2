---------------------------- MODULE PriceStoreProofs ----------------------------
(* Proofs about PriceStore, for any assets, prices, calls and requests.    *)
EXTENDS PriceLedger, FiniteSetTheorems, TLAPS

-----------------------------------------------------------------------------
(* Calls in progress.                                                      *)

(* A call that creates has a quote to create until it is done, and by its  *)
(* INSERT the quote has all that the table requires but for its assets.    *)
WellFormed(k) ==
    IF Creating(k)
    THEN IF k.next = "done" THEN k.todo = << >>
         ELSE /\ k.todo # << >>
              /\ k.next \in {"base", "write"} => Head(k.todo).source # NULL
              /\ k.next = "write" => Head(k.todo).time # NULL
    ELSE k.todo = << >>

CallsWellFormed == \A c \in Calls : call[c] # NULL => WellFormed(call[c])

(* The inductive invariant of the types.                                   *)
IInv == TypeOK /\ CallsWellFormed

CallOK(k) == k \in Call /\ WellFormed(k)

(* The head and the tail of a list of quotes.                              *)
LEMMA QuotesLeft ==
    ASSUME NEW s \in Seq(Quote), s # << >>
    PROVE  /\ Head(s) \in Quote /\ Tail(s) \in Seq(Quote)
           /\ Len(s) > 1 <=> Tail(s) # << >>
  OBVIOUS

(* Going on to the next quote leaves a well-formed call.                   *)
LEMMA OverOK ==
    ASSUME NEW k, CallOK(k), Creating(k), k.next # "done"
    PROVE  CallOK(Over(k))
<1>1. k \in Call /\ k.todo \in Seq(Quote) /\ k.todo # << >>
  BY DEF CallOK, WellFormed, Call
<1>2. Over(k) \in Call
  BY <1>1, QuotesLeft DEF Over, Call
<1>3. /\ Creating(Over(k)) /\ Over(k).todo = Tail(k.todo)
      /\ Over(k).next = IF Len(k.todo) > 1 THEN "asset" ELSE "done"
  BY <1>1 DEF Over, Creating, Call
<1>4. Tail(k.todo) # << >> <=> Len(k.todo) > 1
  BY <1>1, QuotesLeft
<1>5. WellFormed(Over(k))
  BY <1>3, <1>4 DEF WellFormed
<1>. QED  BY <1>2, <1>5 DEF CallOK

(* So does an answer.                                                      *)
LEMMA AnswerOK ==
    ASSUME NEW k, CallOK(k), NEW code \in Codes
    PROVE  CallOK(Answer(k, code))
<1>1. k \in Call /\ << >> \in Seq(Quote)
  BY DEF CallOK
<1>2. Answer(k, code) \in Call
  BY <1>1 DEF Answer, Call
<1>3. Answer(k, code).todo = << >> /\ Answer(k, code).next = "done"
  BY <1>1 DEF Answer, Call
<1>4. WellFormed(Answer(k, code))
  BY <1>3 DEF WellFormed
<1>. QED  BY <1>2, <1>4 DEF CallOK

(* So does a refusal, which is one or the other.                           *)
LEMMA RefusedOK ==
    ASSUME NEW k, CallOK(k), k.next # "done", NEW code \in Codes
    PROVE  CallOK(Refused(k, code))
<1>1. CASE k.op = "CreatePrices"
  BY <1>1, OverOK DEF Refused, Creating
<1>2. CASE k.op # "CreatePrices"
  BY <1>2, AnswerOK DEF Refused
<1>. QED  BY <1>1, <1>2

(* A statement that fails notes its quote, and is a refusal otherwise.     *)
LEMMA FailingOK ==
    ASSUME NEW k, CallOK(k), k.next # "done"
    PROVE  /\ CallOK(Failing(k)) /\ Failing(k).next # "done"
           /\ Failing(k).op = k.op /\ Failing(k).id = k.id /\ Failing(k).request = k.request
           /\ Failing(k).todo = k.todo /\ Failing(k).count = k.count
           /\ Creating(k) => Failing(k).failed = k.failed \cup {Head(k.todo)}
<1>1. k \in Call /\ WellFormed(k) /\ k.todo \in Seq(Quote) /\ k.failed \subseteq Quote
  BY DEF CallOK, Call
<1>2. CASE ~Creating(k)
  BY <1>2 DEF Failing
<1>3. CASE Creating(k)
  <2>. DEFINE failed == k.failed \cup {Head(k.todo)}
              h == [k EXCEPT !.failed = failed]
  <2>1. Failing(k) = h
    BY <1>3 DEF Failing
  <2>2. failed \subseteq Quote
    BY <1>1, <1>3, QuotesLeft DEF WellFormed
  <2>. HIDE DEF failed
  <2>3. h \in Call
    BY <1>1, <2>2 DEF Call
  <2>4. /\ h.op = k.op /\ h.id = k.id /\ h.request = k.request /\ h.todo = k.todo
        /\ h.count = k.count /\ h.next = k.next /\ h.failed = failed
    BY <1>1 DEF Call
  <2>. HIDE DEF h
  <2>5. WellFormed(h)
    BY <1>1, <2>4 DEF WellFormed, Creating
  <2>. QED  BY <2>1, <2>3, <2>4, <2>5 DEF CallOK, failed
<1>. QED  BY <1>2, <1>3

(* What a call that starts or goes on to its next statement looks like.    *)
LEMMA InvokeOK ==
    ASSUME TypeOK, NEW c \in Calls, Invoke(c)
    PROVE  /\ \E k : CallOK(k) /\ call' = [call EXCEPT ![c] = k]
           /\ UNCHANGED <<db, clock>>
<1>. SUFFICES \E k : CallOK(k) /\ call' = [call EXCEPT ![c] = k]
  BY DEF Invoke, Begin
<1>1. ASSUME NEW op \in PriceOps, NEW quotes \in Seq(Quote), NEW f \in Filter,
             NEW id \in Prices \cup Malformed \cup {NULL},
             NEW first \in {"asset", "base", "write", "done"},
             op \in {"CreatePrice", "CreatePrices"} =>
                first = (IF quotes = << >> THEN "done" ELSE "asset"),
             op \notin {"CreatePrice", "CreatePrices"} => quotes = << >>,
             Begin(c, op, quotes, f, id, first)
      PROVE  \E k : CallOK(k) /\ call' = [call EXCEPT ![c] = k]
  <2> DEFINE k == [op |-> op, request |-> quotes, filter |-> f, id |-> id,
                   todo |-> quotes, next |-> first, count |-> 0,
                   answer |-> "OK", price |-> NULL,
                   before |-> IF f = NoFilter THEN {} ELSE Matching(f),
                   failed |-> {}]
  <2>1. k.before \in SUBSET Prices
    BY DEF Matching, TypeOK
  <2>2. k \in Call
    BY <2>1 DEF Call, Codes
  <2>3. k.op = op /\ k.todo = quotes /\ k.next = first
    OBVIOUS
  <2>4. call' = [call EXCEPT ![c] = k]
    BY <1>1 DEF Begin
  <2> HIDE DEF k
  <2>5. WellFormed(k)
    BY <1>1, <2>3 DEF WellFormed, Creating
  <2>. QED  BY <2>2, <2>4, <2>5 DEF CallOK
<1>2. NoFilter \in Filter
  BY DEF NoFilter, Filter
<1>3. CASE \E q \in Creates : Begin(c, "CreatePrice", <<q>>, NoFilter, NULL, "asset")
  <2>1. PICK q \in Creates : Begin(c, "CreatePrice", <<q>>, NoFilter, NULL, "asset")
    BY <1>3
  <2>2. <<q>> \in Seq(Quote) /\ <<q>> # << >>
    BY RequestsAssumption
  <2> DEFINE quotes == <<q>>
  <2>3. quotes \in Seq(Quote) /\ "asset" = IF quotes = << >> THEN "done" ELSE "asset"
    BY <2>2
  <2>4. Begin(c, "CreatePrice", quotes, NoFilter, NULL, "asset")
    BY <2>1
  <2> HIDE DEF quotes
  <2>. QED  BY <1>1, <1>2, <2>3, <2>4 DEF PriceOps
<1>4. CASE \E b \in Bulks : Begin(c, "CreatePrices", b, NoFilter, NULL,
                                  IF b = << >> THEN "done" ELSE "asset")
  <2>1. PICK b \in Bulks : Begin(c, "CreatePrices", b, NoFilter, NULL,
                                 IF b = << >> THEN "done" ELSE "asset")
    BY <1>4
  <2>2. b \in Seq(Quote)
    BY RequestsAssumption
  <2> DEFINE first == IF b = << >> THEN "done" ELSE "asset"
  <2>3. first \in {"asset", "base", "write", "done"}
    OBVIOUS
  <2>4. Begin(c, "CreatePrices", b, NoFilter, NULL, first)
    BY <2>1
  <2>5. first = IF b = << >> THEN "done" ELSE "asset"
    OBVIOUS
  <2> HIDE DEF first
  <2>. QED  BY <1>1, <1>2, <2>2, <2>3, <2>4, <2>5 DEF PriceOps
<1>5. ASSUME NEW f \in Filters,
             \/ Begin(c, "GetLatestPrice", << >>, f, NULL, "asset")
             \/ Begin(c, "DeletePrices", << >>, f, NULL, "asset")
      PROVE  \E k : CallOK(k) /\ call' = [call EXCEPT ![c] = k]
  <2>1. << >> \in Seq(Quote) /\ f \in Filter
    BY RequestsAssumption
  <2>. QED  BY <1>1, <1>5, <2>1 DEF PriceOps
<1>6. ASSUME NEW i \in drawn \cup Malformed,
             Begin(c, "DeletePrice", << >>, NoFilter, i, "write")
      PROVE  \E k : CallOK(k) /\ call' = [call EXCEPT ![c] = k]
  <2>1. << >> \in Seq(Quote) /\ i \in Prices \cup Malformed \cup {NULL}
    BY DEF TypeOK
  <2>. QED  BY <1>1, <1>2, <1>6, <2>1 DEF PriceOps
<1>. QED  BY <1>3, <1>4, <1>5, <1>6 DEF Invoke

(* A call that executes a statement is one that may.                       *)
LEMMA ExecutesOK ==
    ASSUME IInv, NEW c \in Calls, NEW step \in {"asset", "base", "write"}, Executes(c, step)
    PROVE  /\ CallOK(call[c]) /\ call[c].next = step /\ ~Invalid(call[c])
           /\ Creating(call[c]) => call[c].todo # << >> /\ Head(call[c].todo) \in Quote
<1>1. CallOK(call[c]) /\ call[c].next = step /\ ~Invalid(call[c])
  BY DEF Executes, At, IInv, TypeOK, CallsWellFormed, CallOK
<1>2. Creating(call[c]) => call[c].todo # << >>
  BY <1>1 DEF CallOK, WellFormed
<1>3. call[c].todo \in Seq(Quote)
  BY <1>1 DEF CallOK, Call
<1>. QED  BY <1>1, <1>2, <1>3, QuotesLeft

(* The first lookup leaves a well-formed call and the tables alone.        *)
LEMMA LookupAssetOK ==
    ASSUME IInv, NEW c \in Calls, LookupAsset(c)
    PROVE  /\ \E k : CallOK(k) /\ call' = [call EXCEPT ![c] = k]
           /\ UNCHANGED <<db, clock>>
<1>1. /\ CallOK(call[c]) /\ call[c].next = "asset" /\ ~Invalid(call[c])
      /\ Creating(call[c]) => call[c].todo # << >>
  BY ExecutesOK DEF LookupAsset
<1>2. CASE Refuse(c, "NotFound")
  BY <1>1, <1>2, RefusedOK DEF Refuse, Codes, LookupAsset
<1>3. CASE call' = [call EXCEPT ![c].next = "base"]
  <2> DEFINE k == [call[c] EXCEPT !.next = "base"]
  <2>1. call' = [call EXCEPT ![c] = k]
    BY <1>3 DEF IInv, TypeOK
  <2>2. k \in Call
    BY <1>1 DEF CallOK, Call
  <2>3. Creating(call[c]) => Head(call[c].todo).source # NULL
    <3>. SUFFICES ASSUME Creating(call[c]) PROVE Head(call[c].todo).source # NULL
      OBVIOUS
    <3>1. ~Lacking(call[c])
      BY <1>1 DEF Invalid
    <3>2. NULL \notin {Subject(call[c]).asset, Subject(call[c]).base, Subject(call[c]).source}
      BY <3>1 DEF Lacking
    <3>. QED  BY <3>2 DEF Subject
  <2>4. k.op = call[c].op /\ k.next = "base" /\ k.todo = call[c].todo
    BY <1>1 DEF CallOK, Call
  <2> HIDE DEF k
  <2>5. WellFormed(k)
    BY <1>1, <2>3, <2>4 DEF CallOK, WellFormed, Creating
  <2>. QED  BY <2>1, <2>2, <2>5 DEF CallOK, LookupAsset
<1>. QED  BY <1>2, <1>3 DEF LookupAsset

(* The quote at the head, stamped.                                         *)
LEMMA StampedOK ==
    ASSUME clock \in Times, NEW s \in Seq(Quote), s # << >>, Head(s).source # NULL
    PROVE  /\ Stamped(s) \in Seq(Quote) /\ Stamped(s) # << >>
           /\ Head(Stamped(s)).source # NULL /\ Head(Stamped(s)).time # NULL
<1>. DEFINE q == [s[1] EXCEPT !.time = clock]
            t == [s EXCEPT ![1] = q]
<1>1. 1 \in DOMAIN s /\ s[1] \in Quote /\ Head(s) = s[1]
  OBVIOUS
<1>2. q \in Quote /\ q.source = s[1].source /\ q.time # NULL
  <2>1. clock \in Nat /\ clock # NULL
    BY TimeAssumption DEF Times
  <2>. QED  BY <1>1, <2>1 DEF Quote
<1>3. t \in Seq(Quote) /\ Len(t) = Len(s) /\ t[1] = q
  <2>. HIDE DEF q
  <2>. QED  BY <1>1, <1>2
<1>4. t # << >> /\ Head(t) = q
  <2>. HIDE DEF q, t
  <2>. QED  BY <1>1, <1>3
<1>5. CASE s[1].time = NULL
  <2>1. Stamped(s) = t
    BY <1>1, <1>5 DEF Stamped
  <2>. HIDE DEF q, t
  <2>. QED  BY <1>1, <1>2, <1>3, <1>4, <2>1
<1>6. CASE s[1].time # NULL
  BY <1>1, <1>6 DEF Stamped
<1>. QED  BY <1>5, <1>6

(* So does the second.                                                     *)
LEMMA LookupBaseOK ==
    ASSUME IInv, NEW c \in Calls, LookupBase(c)
    PROVE  /\ \E k : CallOK(k) /\ call' = [call EXCEPT ![c] = k]
           /\ UNCHANGED <<db, clock>>
<1>1. /\ CallOK(call[c]) /\ call[c].next = "base"
      /\ Creating(call[c]) => call[c].todo # << >>
  BY ExecutesOK DEF LookupBase
<1>2. CASE Refuse(c, "NotFound")
  BY <1>1, <1>2, RefusedOK DEF Refuse, Codes, LookupBase
<1>3. CASE call' = [call EXCEPT ![c].next = "write", ![c].todo = Stamped(@)]
  <2> DEFINE todo == Stamped(call[c].todo)
             k == [call[c] EXCEPT !.next = "write", !.todo = todo]
  <2>1. call' = [call EXCEPT ![c] = k]
    BY <1>3 DEF IInv, TypeOK
  <2>2. /\ todo \in Seq(Quote)
        /\ Creating(call[c]) => /\ todo # << >>
                                /\ Head(todo).source # NULL /\ Head(todo).time # NULL
        /\ ~Creating(call[c]) => todo = << >>
    <3>1. call[c].todo \in Seq(Quote) /\ clock \in Times
      BY <1>1 DEF CallOK, Call, IInv, TypeOK
    <3>2. CASE Creating(call[c])
      BY <1>1, <3>1, <3>2, StampedOK DEF CallOK, WellFormed
    <3>3. CASE ~Creating(call[c])
      <4>1. call[c].todo = << >>
        BY <1>1, <3>3 DEF CallOK, WellFormed
      <4>. QED  BY <3>3, <4>1 DEF Stamped
    <3>. QED  BY <3>2, <3>3
  <2> HIDE DEF todo
  <2>3. k \in Call
    BY <1>1, <2>2 DEF CallOK, Call
  <2>4. k.op = call[c].op /\ k.next = "write" /\ k.todo = todo
    BY <1>1 DEF CallOK, Call
  <2> HIDE DEF k
  <2>5. WellFormed(k)
    BY <2>2, <2>4 DEF WellFormed, Creating
  <2>. QED  BY <2>1, <2>3, <2>5 DEF CallOK, LookupBase
<1>. QED  BY <1>2, <1>3 DEF LookupBase

(* The quote that an INSERT stores.                                        *)
LEMMA InsertedOK ==
    ASSUME IInv, NEW c \in Calls, Executes(c, "write"), Creating(call[c]),
           Insertable(Head(call[c].todo))
    PROVE  Head(call[c].todo) \in Priced
<1>1. /\ CallOK(call[c]) /\ call[c].next = "write" /\ Head(call[c].todo) \in Quote
  BY ExecutesOK
<1>2. Head(call[c].todo).source # NULL /\ Head(call[c].todo).time # NULL
  BY <1>1 DEF CallOK, WellFormed
<1>3. {Head(call[c].todo).asset, Head(call[c].todo).base} \subseteq Assets
  BY DEF Insertable, IInv, TypeOK
<1>. DEFINE q == Head(call[c].todo)
<1>. HIDE DEF q
<1>4. q \in Quote /\ q.source # NULL /\ q.time # NULL /\ {q.asset, q.base} \subseteq Assets
  BY <1>1, <1>2, <1>3 DEF q
<1>5. q \in Priced
  BY <1>4 DEF Quote, Priced
<1>. QED  BY <1>5 DEF q

(* An INSERT is of a quote that has all a price needs.                     *)
LEMMA CreatePriceOK ==
    ASSUME IInv, NEW c \in Calls, NEW i \in Prices, PutPrice(c, i)
    PROVE  /\ CallOK(call[c]) /\ Creating(call[c]) /\ call[c].next = "write"
           /\ Head(call[c].todo) \in Priced
           /\ CallOK(Inserted(call[c], i))
<1>1. CallOK(call[c]) /\ Creating(call[c]) /\ call[c].next = "write"
  BY ExecutesOK DEF PutPrice
<1>2. Head(call[c].todo) \in Priced
  BY InsertedOK DEF PutPrice
<1>3. CallOK(Over(call[c]))
  BY <1>1, OverOK
<1>. DEFINE h == Over(call[c])
            n == h.count + 1
            k == [h EXCEPT !.count = n, !.price = i]
<1>. HIDE DEF h
<1>4. h \in Call /\ WellFormed(h)
  BY <1>3 DEF CallOK, h
<1>5. n \in Nat
  BY <1>4 DEF Call
<1>. HIDE DEF n
<1>6. k \in Call
  BY <1>4, <1>5 DEF Call
<1>7. k.op = h.op /\ k.todo = h.todo /\ k.next = h.next
  BY <1>4 DEF Call
<1>. HIDE DEF k
<1>8. CallOK(k)
  BY <1>4, <1>6, <1>7 DEF CallOK, WellFormed, Creating
<1>. QED  BY <1>1, <1>2, <1>8 DEF h, n, k, Inserted

(* A reading or a deletion that is done is well formed.                    *)
LEMMA DoneOK ==
    ASSUME NEW k, CallOK(k), ~Creating(k), NEW p \in Prices \cup {NULL}
    PROVE  CallOK([k EXCEPT !.next = "done", !.price = p])
           /\ CallOK([k EXCEPT !.next = "done"])
<1>. DEFINE a == [k EXCEPT !.next = "done", !.price = p]
            b == [k EXCEPT !.next = "done"]
<1>1. k \in Call /\ WellFormed(k)
  BY DEF CallOK
<1>2. a \in Call /\ b \in Call
  BY <1>1 DEF Call
<1>3. /\ a.op = k.op /\ a.todo = k.todo /\ b.op = k.op /\ b.todo = k.todo
  BY <1>1 DEF Call
<1>. HIDE DEF a, b
<1>4. CallOK(a) /\ CallOK(b)
  BY <1>1, <1>2, <1>3 DEF CallOK, WellFormed, Creating
<1>. QED  BY <1>4 DEF a, b
-----------------------------------------------------------------------------
(* One step.                                                               *)

(* One call changes: all are as well formed as before.                     *)
LEMMA CallStep ==
    ASSUME IInv, NEW c \in Calls, NEW k, k = NULL \/ CallOK(k),
           call' = [call EXCEPT ![c] = k]
    PROVE  call' \in [Calls -> Call \cup {NULL}] /\ CallsWellFormed'
<1>1. call \in [Calls -> Call \cup {NULL}]
  BY DEF IInv, TypeOK
<1>2. call' \in [Calls -> Call \cup {NULL}]
  BY <1>1 DEF CallOK
<1>3. ASSUME NEW d \in Calls, call'[d] # NULL PROVE WellFormed(call'[d])
  <2>1. CASE d = c
    BY <1>1, <1>3, <2>1 DEF CallOK
  <2>2. CASE d # c
    BY <1>1, <1>3, <2>2 DEF IInv, CallsWellFormed
  <2>. QED  BY <2>1, <2>2
<1>. QED  BY <1>2, <1>3 DEF CallsWellFormed

(* An error.                                                               *)
LEMMA RefuseOK ==
    ASSUME IInv, NEW c \in Calls, call[c] # NULL, call[c].next # "done",
           NEW code \in Codes, Refuse(c, code)
    PROVE  call' \in [Calls -> Call \cup {NULL}] /\ CallsWellFormed'
<1>1. CallOK(call[c])
  BY DEF IInv, TypeOK, CallsWellFormed, CallOK
<1>2. CallOK(Refused(call[c], code))
  BY <1>1, RefusedOK
<1>3. call' = [call EXCEPT ![c] = Refused(call[c], code)]
  BY DEF Refuse
<1>. QED  BY <1>2, <1>3, CallStep

(* So is a statement that fails.                                           *)
LEMMA FailOK ==
    ASSUME IInv, NEW c \in Calls, StatementFails(c)
    PROVE  /\ call[c] # NULL /\ call[c].next # "done" /\ CallOK(call[c])
           /\ CallOK(Refused(Failing(call[c]), "Internal"))
           /\ call' = [call EXCEPT ![c] = Refused(Failing(call[c]), "Internal")]
           /\ ~Creating(call[c]) => Refuse(c, "Internal")
<1>1. call[c] # NULL /\ call[c].next # "done"
  BY DEF StatementFails, Executes, At
<1>2. CallOK(call[c])
  BY <1>1 DEF IInv, TypeOK, CallsWellFormed, CallOK
<1>3. CallOK(Refused(Failing(call[c]), "Internal"))
  BY <1>1, <1>2, FailingOK, RefusedOK DEF Codes
<1>4. call' = [call EXCEPT ![c] = Refused(Failing(call[c]), "Internal")]
  BY DEF StatementFails
<1>5. ~Creating(call[c]) => Refuse(c, "Internal")
  BY <1>4 DEF Refuse, Failing
<1>. QED  BY <1>1, <1>2, <1>3, <1>4, <1>5

(* A step that leaves the database and the clock alone.                    *)
LEMMA DbKept ==
    ASSUME IInv, UNCHANGED <<db, clock>>,
           call' \in [Calls -> Call \cup {NULL}], CallsWellFormed'
    PROVE  IInv'
BY DEF IInv, TypeOK, db

(* The INSERT keeps the types of the tables.                               *)
LEMMA CreateKeeps ==
    ASSUME IInv, NEW c \in Calls, NEW i \in Prices, PutPrice(c, i),
           call' \in [Calls -> Call \cup {NULL}], CallsWellFormed'
    PROVE  IInv'
<1>1. Head(call[c].todo) \in Priced
  BY CreatePriceOK
<1>2. Priced \subseteq Quote
  BY DEF Priced, Quote
<1>3. /\ stored' = stored \cup {i} /\ drawn' = drawn \cup {i}
      /\ quote' = [quote EXCEPT ![i] = Head(call[c].todo)]
      /\ UNCHANGED <<assets, clock>>
  BY DEF PutPrice
<1>4. quote' \in [Prices -> Quote] /\ \A j \in drawn' : quote'[j] \in Priced
  BY <1>1, <1>2, <1>3 DEF IInv, TypeOK
<1>. QED  BY <1>3, <1>4 DEF IInv, TypeOK

(* So does the DELETE.                                                     *)
LEMMA EraseKeeps ==
    ASSUME IInv, NEW c \in Calls, ErasePrices(c),
           call' \in [Calls -> Call \cup {NULL}], CallsWellFormed'
    PROVE  IInv'
BY DEF IInv, TypeOK, ErasePrices

(* Each step keeps the invariant.                                          *)
LEMMA StepKeeps == IInv /\ [Next]_vars => IInv'
<1>. SUFFICES ASSUME IInv, [Next]_vars PROVE IInv'
  OBVIOUS
<1>1. ASSUME NEW c \in Calls, Invoke(c) PROVE IInv'
  <2>1. PICK k : CallOK(k) /\ call' = [call EXCEPT ![c] = k]
    BY <1>1, InvokeOK DEF IInv
  <2>. QED  BY <1>1, <2>1, CallStep, InvokeOK, DbKept DEF IInv
<1>2. ASSUME NEW c \in Calls, Reject(c) PROVE IInv'
  <2>1. call[c] # NULL /\ call[c].next # "done" /\ Refuse(c, "InvalidArgument")
        /\ UNCHANGED <<db, clock>>
    BY <1>2 DEF Reject, Invalid
  <2>. QED  BY <2>1, RefuseOK, DbKept DEF Codes
<1>3. ASSUME NEW c \in Calls, Return(c) PROVE IInv'
  BY <1>3, CallStep, DbKept DEF Return
<1>4. ASSUME NEW c \in Calls, LookupAsset(c) PROVE IInv'
  BY <1>4, LookupAssetOK, CallStep, DbKept
<1>5. ASSUME NEW c \in Calls, LookupBase(c) PROVE IInv'
  BY <1>5, LookupBaseOK, CallStep, DbKept
<1>6. ASSUME NEW c \in Calls, CreatePrice(c) PROVE IInv'
  <2>1. PICK i \in Prices : PutPrice(c, i) /\ call' = [call EXCEPT ![c] = Inserted(@, i)]
    BY <1>6 DEF CreatePrice
  <2>2. CallOK(Inserted(call[c], i))
    BY <2>1, CreatePriceOK
  <2>3. call' \in [Calls -> Call \cup {NULL}] /\ CallsWellFormed'
    BY <2>1, <2>2, CallStep
  <2>. QED  BY <2>1, <2>3, CreateKeeps
<1>7. ASSUME NEW c \in Calls, InsertRefused(c) PROVE IInv'
  <2>1. call[c] # NULL /\ call[c].next # "done"
    BY <1>7 DEF InsertRefused, Executes, At
  <2>. QED  BY <1>7, <2>1, RefuseOK, DbKept DEF InsertRefused, Codes
<1>8. ASSUME NEW c \in Calls, GetLatestPrice(c) PROVE IInv'
  <2>1. CallOK(call[c]) /\ call[c].next = "write" /\ ~Creating(call[c]) /\ call[c] # NULL
    BY <1>8, ExecutesOK DEF GetLatestPrice, Creating, Executes, At
  <2>2. CASE Refuse(c, "NotFound")
    BY <1>8, <2>1, <2>2, RefuseOK, DbKept DEF GetLatestPrice, Codes
  <2>3. ASSUME NEW i \in Joined(Matching(call[c].filter)),
               call' = [call EXCEPT ![c].next = "done", ![c].price = i]
        PROVE  IInv'
    <3>1. i \in Prices
      BY DEF Joined, Matching, IInv, TypeOK
    <3>2. call' = [call EXCEPT ![c] = [call[c] EXCEPT !.next = "done", !.price = i]]
      BY <2>3 DEF IInv, TypeOK
    <3>3. CallOK([call[c] EXCEPT !.next = "done", !.price = i])
      BY <2>1, <3>1, DoneOK
    <3>. QED  BY <1>8, <3>2, <3>3, CallStep, DbKept DEF GetLatestPrice
  <2>. QED  BY <1>8, <2>2, <2>3 DEF GetLatestPrice
<1>9. ASSUME NEW c \in Calls, DeletePrices(c) PROVE IInv'
  <2>1. CallOK(call[c]) /\ ~Creating(call[c])
    BY <1>9, ExecutesOK DEF DeletePrices, ErasePrices, Creating
  <2>2. CallOK([call[c] EXCEPT !.next = "done"])
    BY <2>1, DoneOK
  <2>3. call' = [call EXCEPT ![c] = [call[c] EXCEPT !.next = "done"]]
    BY <1>9 DEF DeletePrices, IInv, TypeOK
  <2>. QED  BY <1>9, <2>2, <2>3, CallStep, EraseKeeps DEF DeletePrices
<1>10. ASSUME NEW c \in Calls, NothingDeleted(c) PROVE IInv'
  <2>1. call[c] # NULL /\ call[c].next # "done"
    BY <1>10 DEF NothingDeleted, Executes, At
  <2>. QED  BY <1>10, <2>1, RefuseOK, DbKept DEF NothingDeleted, Codes
<1>11. ASSUME NEW c \in Calls, StatementFails(c) PROVE IInv'
  <2>1. call' \in [Calls -> Call \cup {NULL}] /\ CallsWellFormed'
    BY <1>11, FailOK, CallStep
  <2>. QED  BY <1>11, <2>1, DbKept DEF StatementFails
<1>12. ASSUME NEW c \in Calls, ReplyLost(c) PROVE IInv'
  <2>1. Refuse(c, "Internal") /\ call[c] # NULL /\ call[c].next # "done"
    BY <1>12 DEF ReplyLost, ErasePrices, PutPrice, Executes, At
  <2>2. call' \in [Calls -> Call \cup {NULL}] /\ CallsWellFormed'
    BY <2>1, RefuseOK DEF Codes
  <2>. QED  BY <1>12, <2>2, EraseKeeps, CreateKeeps DEF ReplyLost
<1>13. ASSUME NEW a \in Assets, DeleteAsset(a) PROVE IInv'
  BY <1>13 DEF DeleteAsset, IInv, TypeOK, CallsWellFormed
<1>14. CASE Tick
  <2>1. clock' \in Times
    BY <1>14, TimeAssumption DEF Tick, IInv, TypeOK, Times
  <2>. QED  BY <1>14, <2>1 DEF Tick, db, IInv, TypeOK, CallsWellFormed
<1>15. CASE Crash
  BY <1>15 DEF Crash, db, IInv, TypeOK, CallsWellFormed
<1>16. CASE UNCHANGED vars
  BY <1>16 DEF vars, db, IInv, TypeOK, CallsWellFormed
<1>. QED
  BY <1>1, <1>2, <1>3, <1>4, <1>5, <1>6, <1>7, <1>8, <1>9, <1>10, <1>11, <1>12, <1>13,
     <1>14, <1>15, <1>16 DEF Next, Statement

(* In every state the tables, the clock and the calls have their types, and*)
(* a call that is to insert a quote holds one the table accepts but for    *)
(* its assets and its instant.                                             *)
THEOREM Invariance == Spec => []IInv
<1>1. Init => IInv
  <2>. SUFFICES ASSUME Init PROVE IInv
    OBVIOUS
  <2>1. NoQuote \in Quote
    BY DEF NoQuote, Quote
  <2>2. clock \in Times
    BY TimeAssumption DEF Init, Times
  <2>. QED  BY <2>1, <2>2 DEF Init, IInv, TypeOK, CallsWellFormed
<1>. QED  BY <1>1, StepKeeps, PTL DEF Spec

(* A stored price has an asset, a base, a source and a time, whatever was  *)
(* left out of the request that made it.                                   *)
THEOREM TypeCorrect == Spec => []TypeOK
<1>1. IInv => TypeOK
  BY DEF IInv
<1>. QED  BY <1>1, Invariance, PTL
-----------------------------------------------------------------------------
(* PriceStore implements Ledger.                                           *)

(* The tables, and how a step may change them.                             *)
LEMMA AddRefines ==
    ASSUME IInv, NEW c \in Calls, NEW i \in Prices, PutPrice(c, i)
    PROVE  L!Next
<1>. DEFINE q == Head(call[c].todo)
<1>1. {q.asset, q.base} \subseteq assets
  BY DEF PutPrice, Insertable
<1>2. /\ i \in Prices \ drawn
      /\ stored' = stored \cup {i} /\ drawn' = drawn \cup {i} /\ assets' = assets
      /\ quote' = [quote EXCEPT ![i] = q]
  BY DEF PutPrice
<1>. HIDE DEF q
<1>3. i \in Entries /\ i \notin Assets \cup drawn /\ i \notin stored
  BY <1>2, IdsAssumption DEF Entries, IInv, TypeOK
<1>4. Needs' = [Needs EXCEPT ![i] = {q.asset, q.base}]
  <2>1. ASSUME NEW x \in Entries
        PROVE  Needs'[x] = IF x = i THEN {q.asset, q.base} ELSE Needs[x]
    BY <1>2 DEF Needs, IInv, TypeOK
  <2>. QED  BY <1>3, <2>1 DEF Needs
<1>5. Untagged' = [Untagged EXCEPT ![i] = {}]
  BY DEF Untagged
<1>6. /\ (assets \cup stored)' = (assets \cup stored) \cup {i}
      /\ (Assets \cup drawn)' = (Assets \cup drawn) \cup {i}
  BY <1>2
<1>7. L!Add(i)
  BY <1>1, <1>3, <1>4, <1>5, <1>6 DEF L!Add
<1>. QED  BY <1>3, <1>7 DEF L!Next

(* A step in which some assets or some prices go.                          *)
LEMMA RemoveRefines ==
    ASSUME IInv, NEW S \in SUBSET (assets \cup stored),
           \A i \in stored \ S : {quote[i].asset, quote[i].base} \cap S = {},
           assets' = assets \ S, stored' = stored \ S, UNCHANGED <<drawn, quote>>
    PROVE  L!Next
<1>1. \A y \in (assets \cup stored) \ S : Needs[y] \cap S = {}
  BY DEF Needs, Entries, IInv, TypeOK
<1>2. Needs' = [y \in Entries |-> IF y \in S THEN {} ELSE Needs[y]]
  BY DEF Needs
<1>3. Untagged' = [y \in Entries |-> IF y \in S THEN {} ELSE Untagged[y] \ S]
  BY DEF Untagged
<1>4. /\ (assets \cup stored)' = (assets \cup stored) \ S
      /\ (Assets \cup drawn)' = Assets \cup drawn
  OBVIOUS
<1>5. L!Remove(S)
  BY <1>1, <1>2, <1>3, <1>4 DEF L!Remove
<1>. QED  BY <1>5 DEF L!Next

(* A DELETE of prices removes entries nobody needs.                        *)
LEMMA EraseRefines ==
    ASSUME IInv, NEW c \in Calls, ErasePrices(c)
    PROVE  L!Next
<1>. DEFINE S == Condemned(call[c])
<1>1. S \subseteq stored
  BY DEF Condemned, Matching
<1>2. stored' = stored \ S /\ UNCHANGED <<assets, drawn, quote>>
  BY DEF ErasePrices
<1>. HIDE DEF S
<1>3. S \cap assets = {}
  BY <1>1, IdsAssumption DEF IInv, TypeOK
<1>4. \A i \in stored : quote[i].asset \in Assets /\ quote[i].base \in Assets
  BY DEF IInv, TypeOK, Priced
<1>5. \A i \in stored : {quote[i].asset, quote[i].base} \cap S = {}
  BY <1>1, <1>4, IdsAssumption DEF IInv, TypeOK
<1>6. assets' = assets \ S /\ S \in SUBSET (assets \cup stored)
  BY <1>1, <1>2, <1>3
<1>. QED  BY <1>2, <1>5, <1>6, RemoveRefines

(* An asset that goes is needed by no price.                               *)
LEMMA DeleteAssetRefines ==
    ASSUME IInv, NEW a \in Assets, DeleteAsset(a)
    PROVE  L!Next
<1>1. a \in assets /\ assets' = assets \ {a} /\ UNCHANGED <<stored, drawn, quote>>
  BY DEF DeleteAsset
<1>2. a \notin stored
  BY IdsAssumption DEF IInv, TypeOK
<1>3. \A i \in stored : {quote[i].asset, quote[i].base} \cap {a} = {}
  BY DEF DeleteAsset, Protected
<1>4. stored' = stored \ {a} /\ {a} \in SUBSET (assets \cup stored)
  BY <1>1, <1>2
<1>. QED  BY <1>1, <1>3, <1>4, RemoveRefines

(* Steps that leave the tables alone stutter.                              *)
LEMMA DbRefines ==
    ASSUME UNCHANGED db
    PROVE  UNCHANGED L!lvars
BY DEF db, L!lvars, Needs, Untagged

(* Each statement is one step of the ledger or none.                       *)
LEMMA StepRefines == IInv /\ [Next]_vars => [L!Next]_(L!lvars)
<1>. SUFFICES ASSUME IInv, [Next]_vars PROVE L!Next \/ UNCHANGED L!lvars
  OBVIOUS
<1>1. ASSUME NEW c \in Calls, CreatePrice(c) PROVE L!Next
  BY <1>1, AddRefines DEF CreatePrice
<1>2. ASSUME NEW c \in Calls, DeletePrices(c) PROVE L!Next
  BY <1>2, EraseRefines DEF DeletePrices
<1>3. ASSUME NEW c \in Calls, ReplyLost(c) PROVE L!Next
  BY <1>3, AddRefines, EraseRefines DEF ReplyLost
<1>4. ASSUME NEW a \in Assets, DeleteAsset(a) PROVE L!Next
  BY <1>4, DeleteAssetRefines
<1>5. ASSUME NEW c \in Calls,
             \/ Invoke(c) \/ Reject(c) \/ Return(c) \/ LookupAsset(c) \/ LookupBase(c)
             \/ InsertRefused(c) \/ GetLatestPrice(c) \/ NothingDeleted(c)
             \/ StatementFails(c)
      PROVE  UNCHANGED db
  BY <1>5 DEF Invoke, Begin, Reject, Return, LookupAsset, LookupBase, InsertRefused,
              GetLatestPrice, NothingDeleted, StatementFails
<1>6. CASE Tick \/ Crash
  <2>1. UNCHANGED db
    BY <1>6 DEF Tick, Crash
  <2>. QED  BY <2>1, DbRefines
<1>7. CASE UNCHANGED vars
  BY <1>7, DbRefines DEF vars
<1>. QED  BY <1>1, <1>2, <1>3, <1>4, <1>5, <1>6, <1>7, DbRefines DEF Next, Statement

(* Whatever fails, and however the calls interleave, every statement is one*)
(* step of the ledger or none: a price appears at one instant, once, with  *)
(* its assets there, and an asset goes only when no price needs it.        *)
THEOREM Refinement == Spec => ImplementsLedger
<1>1. Init => L!Init
  BY DEF Init, L!Init, Needs, Untagged, Entries
<1>2. Spec => []IInv
  BY Invariance
<1>. QED  BY <1>1, <1>2, StepRefines, PTL DEF Spec, ImplementsLedger, L!Spec

(* A price never refers to an asset that is gone, although the assets are  *)
(* looked up statements before the INSERT and may be deleted in between.   *)
THEOREM Integrity == Spec => []PricesRefer
<1>1. Assets \subseteq Entries
  BY DEF Entries
<1>2. L!Spec => []L!Closed
  BY <1>1, L!ClosedInvariant
<1>3. IInv /\ L!Closed => PricesRefer
  <2>. SUFFICES ASSUME IInv, L!Closed, NEW i \in stored
                PROVE  {quote[i].asset, quote[i].base} \subseteq assets
    BY DEF PricesRefer
  <2>1. i \in Entries /\ Needs[i] = {quote[i].asset, quote[i].base}
    BY DEF Entries, Needs, IInv, TypeOK
  <2>2. Needs[i] \subseteq assets \cup stored
    BY <2>1 DEF L!Closed
  <2>3. \A x \in Assets : x \notin stored
    BY IdsAssumption DEF IInv, TypeOK
  <2>4. quote[i].asset \in Assets /\ quote[i].base \in Assets
    BY DEF IInv, TypeOK, Priced
  <2>. QED  BY <2>1, <2>2, <2>3, <2>4
<1>. QED  BY <1>2, <1>3, Invariance, Refinement, PTL DEF ImplementsLedger

(* Deleting assets, failing statements, lost replies and crashes lose no   *)
(* price, and none is ever altered.                                        *)
THEOREM History == Spec => HistoryIsKept
<1>. DEFINE Kept == \A i \in stored :
                       /\ quote'[i] = quote[i]
                       /\ \/ i \in stored'
                          \/ \E c \in Calls :
                               /\ Executes(c, "write")
                               /\ call[c].op \in {"DeletePrice", "DeletePrices"}
                               /\ i \in Condemned(call[c])
<1>1. IInv /\ [Next]_vars => Kept
  <2>. SUFFICES ASSUME IInv, [Next]_vars PROVE Kept
    OBVIOUS
  <2>1. ASSUME NEW c \in Calls, NEW i \in Prices, PutPrice(c, i) PROVE Kept
    BY <2>1 DEF PutPrice, IInv, TypeOK
  <2>2. ASSUME NEW c \in Calls, ErasePrices(c) PROVE Kept
    BY <2>2 DEF ErasePrices
  <2>3. CASE UNCHANGED <<stored, quote>>
    BY <2>3
  <2>4. ASSUME NEW c \in Calls, CreatePrice(c) \/ DeletePrices(c) \/ ReplyLost(c) PROVE Kept
    <3>. HIDE DEF Kept
    <3>. QED  BY <2>1, <2>2, <2>4 DEF CreatePrice, DeletePrices, ReplyLost
  <2>5. ASSUME NEW c \in Calls,
               \/ Invoke(c) \/ Reject(c) \/ Return(c) \/ LookupAsset(c) \/ LookupBase(c)
               \/ InsertRefused(c) \/ GetLatestPrice(c) \/ NothingDeleted(c)
               \/ StatementFails(c)
        PROVE  UNCHANGED <<stored, quote>>
    BY <2>5 DEF Invoke, Begin, Reject, Return, LookupAsset, LookupBase, InsertRefused,
                GetLatestPrice, NothingDeleted, StatementFails, db
  <2>6. CASE \/ \E a \in Assets : DeleteAsset(a)
             \/ Tick \/ Crash \/ UNCHANGED vars
    BY <2>6, <2>3 DEF DeleteAsset, Tick, Crash, vars, db
  <2>. HIDE DEF Kept
  <2>. QED  BY <2>3, <2>4, <2>5, <2>6 DEF Next, Statement
<1>. QED  BY <1>1, Invariance, PTL DEF Spec, HistoryIsKept
-----------------------------------------------------------------------------
(* What a reading or a deletion by criteria says of the prices that were   *)
(* there when it began.                                                    *)

Searching(k) == k.op \in {"GetLatestPrice", "DeletePrices"}

(* The quote q meets the criteria f.                                       *)
Fits(q, f) == /\ f.asset \in {NULL, q.asset}
              /\ f.base \in {NULL, q.base}
              /\ f.source \in {NULL, q.source}
              /\ f.from # NULL => f.from <= q.time
              /\ f.to # NULL => q.time <= f.to

(* The call k is right about the prices S, of those ever drawn D, that are *)
(* quoted as Q: those it began with still fit, and its answer holds.       *)
Right(k, S, D, Q) ==
    Searching(k) =>
        /\ k.before \subseteq D
        /\ \A i \in k.before : Fits(Q[i], k.filter)
        /\ k.next # "done" => k.answer = "OK"
        /\ k.next = "done" /\ k.answer = "OK" =>
             IF k.op = "DeletePrices" THEN k.before \cap S = {}
             ELSE k.price \in D /\ \A i \in k.before \cap S : Q[i].time <= Q[k.price].time
        /\ k.next = "done" /\ k.answer = "NotFound" => k.before \cap S = {}

CallsRight == \A c \in Calls : call[c] # NULL => Right(call[c], stored, drawn, quote)

(* Prices come with new uuids, go, and never change.                       *)
Onward == /\ drawn \subseteq drawn' /\ stored' \cap drawn \subseteq stored
          /\ \A i \in drawn : quote'[i] = quote[i]

(* A call that is right stays right while others go on.                    *)
LEMMA StaysRight ==
    ASSUME Onward, NEW k, Right(k, stored, drawn, quote)
    PROVE  Right(k, stored', drawn', quote')
BY DEF Onward, Right, Fits

(* Every step goes onward.                                                 *)
LEMMA AllOnward == IInv /\ [Next]_vars => Onward
<1>. SUFFICES ASSUME IInv, [Next]_vars PROVE Onward
  OBVIOUS
<1>1. ASSUME NEW c \in Calls, NEW i \in Prices, PutPrice(c, i) PROVE Onward
  BY <1>1 DEF PutPrice, IInv, TypeOK, Onward
<1>2. ASSUME NEW c \in Calls, ErasePrices(c) PROVE Onward
  BY <1>2 DEF ErasePrices, Onward
<1>3. CASE UNCHANGED <<stored, drawn, quote>>
  BY <1>3 DEF Onward
<1>4. ASSUME NEW c \in Calls, CreatePrice(c) \/ DeletePrices(c) \/ ReplyLost(c) PROVE Onward
  BY <1>1, <1>2, <1>4 DEF CreatePrice, DeletePrices, ReplyLost
<1>5. ASSUME NEW c \in Calls,
             \/ Invoke(c) \/ Reject(c) \/ Return(c) \/ LookupAsset(c) \/ LookupBase(c)
             \/ InsertRefused(c) \/ GetLatestPrice(c) \/ NothingDeleted(c)
             \/ StatementFails(c)
      PROVE  UNCHANGED <<stored, drawn, quote>>
  BY <1>5 DEF Invoke, Begin, Reject, Return, LookupAsset, LookupBase, InsertRefused,
              GetLatestPrice, NothingDeleted, StatementFails, db
<1>6. CASE \/ \E a \in Assets : DeleteAsset(a)
           \/ Tick \/ Crash \/ UNCHANGED vars
  BY <1>6, <1>3 DEF DeleteAsset, Tick, Crash, vars, db
<1>. QED  BY <1>3, <1>4, <1>5, <1>6 DEF Next, Statement

(* A step of one call, which is right after it.                            *)
LEMMA OneCallRight ==
    ASSUME IInv, CallsRight, Onward, NEW c \in Calls, NEW k, call' = [call EXCEPT ![c] = k],
           k # NULL => Right(k, stored', drawn', quote')
    PROVE  CallsRight'
<1>. SUFFICES ASSUME NEW d \in Calls, call'[d] # NULL
              PROVE  Right(call'[d], stored', drawn', quote')
  BY DEF CallsRight
<1>1. CASE d = c
  BY <1>1 DEF IInv, TypeOK
<1>2. CASE d # c
  <2>1. call'[d] = call[d] /\ Right(call[d], stored, drawn, quote)
    BY <1>2 DEF IInv, TypeOK, CallsRight
  <2>. QED  BY <2>1, StaysRight
<1>. QED  BY <1>1, <1>2

(* An error other than NotFound says nothing of any price.                 *)
LEMMA RefuseRight ==
    ASSUME IInv, CallsRight, Onward, NEW c \in Calls, call[c] # NULL,
           NEW code \in Codes \ {"OK"}, Refuse(c, code),
           code = "NotFound" /\ Searching(call[c]) => call[c].before \cap stored = {}
    PROVE  CallsRight'
<1>. DEFINE k == call[c]
            r == Refused(k, code)
<1>1. k \in Call /\ Right(k, stored, drawn, quote)
  BY DEF IInv, TypeOK, CallsRight
<1>2. CASE k.op = "CreatePrices"
  <2>1. ~Searching(r)
    BY <1>1, <1>2 DEF Refused, Over, Searching, Call
  <2>. QED  BY <2>1, OneCallRight DEF Right, Refuse
<1>3. CASE k.op # "CreatePrices"
  <2>1. r = Answer(k, code)
    BY <1>3 DEF Refused
  <2>2. r.op = k.op /\ r.before = k.before /\ r.filter = k.filter /\ r.answer = code
      /\ r.next = "done"
    BY <1>1, <2>1 DEF Answer, Call
  <2>. HIDE DEF r
  <2>3. Right(r, stored, drawn, quote)
    BY <1>1, <2>2 DEF Right, Searching
  <2>4. Right(r, stored', drawn', quote')
    BY <2>3, StaysRight
  <2>. QED  BY <2>4, OneCallRight DEF Refuse, r
<1>. QED  BY <1>2, <1>3

(* What began with the call and is still there fits, and has its assets.   *)
LEMMA StillThere ==
    ASSUME IInv, CallsRight, PricesRefer, NEW c \in Calls, call[c] # NULL, Searching(call[c]),
           NEW i \in call[c].before \cap stored
    PROVE  /\ i \in Joined(Matching(call[c].filter))
           /\ call[c].filter.asset \in assets \cup {NULL}
           /\ call[c].filter.base \in assets \cup {NULL}
<1>1. Fits(quote[i], call[c].filter)
  BY DEF CallsRight, Right
<1>2. quote[i].asset \in assets /\ quote[i].base \in assets
  BY DEF PricesRefer
<1>. QED  BY <1>1, <1>2 DEF Fits, Joined, Matching

(* A request begins with the prices that fit.                              *)
LEMMA InvokeRight ==
    ASSUME IInv, CallsRight, Onward, NEW c \in Calls, Invoke(c)
    PROVE  CallsRight'
<1>1. ASSUME NEW op, NEW quotes, NEW f, NEW id, NEW first,
             op \in {"GetLatestPrice", "DeletePrices"} => first = "asset",
             Begin(c, op, quotes, f, id, first)
      PROVE  CallsRight'
  <2> DEFINE k == [op |-> op, request |-> quotes, filter |-> f, id |-> id,
                   todo |-> quotes, next |-> first, count |-> 0,
                   answer |-> "OK", price |-> NULL,
                   before |-> IF f = NoFilter THEN {} ELSE Matching(f),
                   failed |-> {}]
  <2>1. call' = [call EXCEPT ![c] = k]
    BY <1>1 DEF Begin
  <2>2. /\ k.op = op /\ k.filter = f /\ k.next = first /\ k.answer = "OK"
        /\ k.before = IF f = NoFilter THEN {} ELSE Matching(f)
    OBVIOUS
  <2>. HIDE DEF k
  <2>3. k.before \subseteq drawn /\ \A i \in k.before : Fits(quote[i], k.filter)
    BY <2>2 DEF Matching, Fits, IInv, TypeOK
  <2>4. Right(k, stored, drawn, quote)
    BY <1>1, <2>2, <2>3 DEF Right, Searching
  <2>5. Right(k, stored', drawn', quote')
    BY <2>4, StaysRight
  <2>. QED  BY <2>1, <2>5, OneCallRight
<1>. QED  BY <1>1 DEF Invoke

(* A lookup that finds nothing proves that no such price is there.         *)
LEMMA LookupRight ==
    ASSUME IInv, CallsRight, PricesRefer, Onward, NEW c \in Calls,
           LookupAsset(c) \/ LookupBase(c)
    PROVE  CallsRight'
<1>1. call[c] \in Call /\ call[c] # NULL /\ Right(call[c], stored, drawn, quote)
  BY DEF LookupAsset, LookupBase, Executes, At, IInv, TypeOK, CallsRight
<1>2. CASE Refuse(c, "NotFound") /\ (Searching(call[c]) =>
                \/ call[c].filter.asset \notin assets \cup {NULL}
                \/ call[c].filter.base \notin assets \cup {NULL})
  <2>1. Searching(call[c]) => call[c].before \cap stored = {}
    BY <1>1, <1>2, StillThere
  <2>. QED  BY <1>1, <1>2, <2>1, RefuseRight DEF Codes
<1>3. ASSUME NEW k, call' = [call EXCEPT ![c] = k], k.op = call[c].op, k.next # "done",
             call[c].next # "done", k.answer = call[c].answer,
             k.before = call[c].before, k.filter = call[c].filter
      PROVE  CallsRight'
  <2>1. Right(k, stored, drawn, quote)
    BY <1>1, <1>3 DEF Right, Searching
  <2>. QED  BY <1>3, <2>1, StaysRight, OneCallRight
<1>4. CASE LookupAsset(c)
  <2>1. CASE call' = [call EXCEPT ![c].next = "base"]
    <3>. DEFINE k == [call[c] EXCEPT !.next = "base"]
    <3>1. call' = [call EXCEPT ![c] = k]
      BY <2>1 DEF IInv, TypeOK
    <3>2. k.op = call[c].op /\ k.next # "done" /\ k.before = call[c].before
             /\ k.filter = call[c].filter /\ k.answer = call[c].answer
      BY <1>1 DEF Call
    <3>3. call[c].next # "done"
      BY <1>4 DEF LookupAsset, Executes, At
    <3>. HIDE DEF k
    <3>. QED  BY <3>1, <3>2, <3>3, <1>3
  <2>2. CASE Refuse(c, "NotFound") /\ Subject(call[c]).asset \notin assets \cup {NULL}
    BY <2>2, <1>2 DEF Subject, Creating, Searching
  <2>. QED  BY <1>4, <2>1, <2>2 DEF LookupAsset
<1>5. CASE LookupBase(c)
  <2>1. CASE call' = [call EXCEPT ![c].next = "write", ![c].todo = Stamped(@)]
    <3>. DEFINE todo == Stamped(call[c].todo)
                k == [call[c] EXCEPT !.next = "write", !.todo = todo]
    <3>1. call' = [call EXCEPT ![c] = k]
      BY <2>1 DEF IInv, TypeOK
    <3>. HIDE DEF todo
    <3>2. k.op = call[c].op /\ k.next # "done" /\ k.before = call[c].before
             /\ k.filter = call[c].filter /\ k.answer = call[c].answer
      BY <1>1 DEF Call
    <3>3. call[c].next # "done"
      BY <1>5 DEF LookupBase, Executes, At
    <3>. HIDE DEF k
    <3>. QED  BY <3>1, <3>2, <3>3, <1>3
  <2>2. CASE Refuse(c, "NotFound") /\ Subject(call[c]).base \notin assets \cup {NULL}
    BY <2>2, <1>2 DEF Subject, Creating, Searching
  <2>. QED  BY <1>5, <2>1, <2>2 DEF LookupBase
<1>. QED  BY <1>4, <1>5

(* The SELECT sees all that began with the call and is still there.        *)
LEMMA LatestRight ==
    ASSUME IInv, CallsRight, PricesRefer, Onward, NEW c \in Calls, GetLatestPrice(c)
    PROVE  CallsRight'
<1>. DEFINE M == Joined(Matching(call[c].filter))
<1>1. /\ call[c] \in Call /\ call[c] # NULL /\ Right(call[c], stored, drawn, quote)
      /\ call[c].op = "GetLatestPrice" /\ Searching(call[c])
      /\ UNCHANGED <<stored, drawn, quote>>
  BY DEF GetLatestPrice, Executes, At, IInv, TypeOK, CallsRight, Searching, db
<1>2. call[c].before \cap stored \subseteq M
  BY <1>1, StillThere
<1>3. M \subseteq drawn
  BY DEF Joined, Matching, IInv, TypeOK
<1>4. CASE M = {} /\ Refuse(c, "NotFound")
  BY <1>1, <1>2, <1>4, RefuseRight DEF Codes
<1>5. ASSUME NEW i \in M, \A j \in M : quote[j].time <= quote[i].time,
             call' = [call EXCEPT ![c].next = "done", ![c].price = i]
      PROVE  CallsRight'
  <2>. DEFINE k == [call[c] EXCEPT !.next = "done", !.price = i]
  <2>1. call' = [call EXCEPT ![c] = k]
    BY <1>5 DEF IInv, TypeOK
  <2>2. /\ k.op = call[c].op /\ k.before = call[c].before /\ k.filter = call[c].filter
        /\ k.price = i /\ k.answer = call[c].answer
    BY <1>1 DEF Call
  <2>3. call[c].answer = "OK"
    BY <1>1 DEF Right, GetLatestPrice, Executes, At
  <2>. HIDE DEF k, M
  <2>4. Right(k, stored, drawn, quote)
    BY <1>1, <1>2, <1>3, <1>5, <2>2, <2>3 DEF Right, Searching
  <2>. QED  BY <1>1, <2>1, <2>4, OneCallRight
<1>. QED  BY <1>4, <1>5 DEF GetLatestPrice

(* The DELETE takes all that began with the call and is still there.       *)
LEMMA DeleteRight ==
    ASSUME IInv, CallsRight, PricesRefer, Onward, NEW c \in Calls,
           DeletePrices(c) \/ NothingDeleted(c)
    PROVE  CallsRight'
<1>1. /\ call[c] \in Call /\ call[c] # NULL /\ Right(call[c], stored, drawn, quote)
      /\ call[c].next = "write" /\ call[c].op \in {"DeletePrice", "DeletePrices"}
  BY DEF DeletePrices, ErasePrices, NothingDeleted, Executes, At, IInv, TypeOK, CallsRight
<1>2. Searching(call[c]) => call[c].before \cap stored \subseteq Condemned(call[c])
  <2>. SUFFICES ASSUME Searching(call[c]), NEW i \in call[c].before \cap stored
                PROVE  i \in Condemned(call[c])
    OBVIOUS
  <2>1. i \in Matching(call[c].filter)
    BY <1>1, StillThere DEF Joined
  <2>. QED  BY <2>1 DEF Condemned, Searching
<1>3. CASE NothingDeleted(c)
  <2>1. Condemned(call[c]) = {} /\ Refuse(c, "NotFound")
    BY <1>3 DEF NothingDeleted
  <2>. QED  BY <1>1, <1>2, <2>1, RefuseRight DEF Codes
<1>4. CASE DeletePrices(c)
  <2>. DEFINE k == [call[c] EXCEPT !.next = "done"]
  <2>1. call' = [call EXCEPT ![c] = k]
    BY <1>4 DEF DeletePrices, IInv, TypeOK
  <2>2. /\ stored' = stored \ Condemned(call[c]) /\ drawn' = drawn /\ quote' = quote
    BY <1>4 DEF DeletePrices, ErasePrices
  <2>3. /\ k.op = call[c].op /\ k.before = call[c].before /\ k.filter = call[c].filter
        /\ k.answer = call[c].answer
    BY <1>1 DEF Call
  <2>. HIDE DEF k
  <2>4. Searching(k) => k.answer = "OK" /\ k.op = "DeletePrices" /\ k.before \cap stored' = {}
    BY <1>1, <1>2, <2>2, <2>3 DEF Right, Searching
  <2>5. Right(k, stored', drawn', quote')
    BY <1>1, <2>2, <2>3, <2>4 DEF Right, Searching
  <2>. QED  BY <2>1, <2>5, OneCallRight
<1>. QED  BY <1>3, <1>4

(* Every step keeps the calls right.                                       *)
LEMMA StepRight == IInv /\ CallsRight /\ PricesRefer /\ [Next]_vars => CallsRight'
<1>. SUFFICES ASSUME IInv, CallsRight, PricesRefer, [Next]_vars PROVE CallsRight'
  OBVIOUS
<1>0. Onward
  BY AllOnward
<1>1. ASSUME NEW c \in Calls, Invoke(c) PROVE CallsRight'
  BY <1>0, <1>1, InvokeRight
<1>2. ASSUME NEW c \in Calls, Reject(c) \/ InsertRefused(c) \/ ReplyLost(c)
      PROVE  CallsRight'
  <2>1. call[c] # NULL
    BY <1>2 DEF Reject, InsertRefused, ReplyLost, ErasePrices, PutPrice, Executes, At
  <2>2. \E code \in {"InvalidArgument", "FailedPrecondition", "Internal"} : Refuse(c, code)
    BY <1>2 DEF Reject, InsertRefused, ReplyLost
  <2>. QED  BY <1>0, <2>1, <2>2, RefuseRight DEF Codes
<1>10. ASSUME NEW c \in Calls, StatementFails(c) PROVE CallsRight'
  <2>. DEFINE h == Failing(call[c])
              r == Refused(h, "Internal")
  <2>1. CASE Creating(call[c])
    <3>1. CallOK(h) /\ h.op = call[c].op /\ h.next # "done"
      BY <1>10, FailOK, FailingOK
    <3>. HIDE DEF h
    <3>2. r.op = h.op
      BY <3>1 DEF Refused, Over, Answer, CallOK, Call
    <3>3. ~Searching(r)
      BY <2>1, <3>1, <3>2 DEF Searching, Creating
    <3>4. call' = [call EXCEPT ![c] = r]
      BY <1>10, FailOK DEF h
    <3>. HIDE DEF r
    <3>. QED  BY <1>0, <3>3, <3>4, OneCallRight DEF Right
  <2>2. CASE ~Creating(call[c])
    BY <1>0, <1>10, <2>2, FailOK, RefuseRight DEF Codes
  <2>. QED  BY <2>1, <2>2
<1>3. ASSUME NEW c \in Calls, Return(c) PROVE CallsRight'
  BY <1>0, <1>3, OneCallRight DEF Return
<1>4. ASSUME NEW c \in Calls, LookupAsset(c) \/ LookupBase(c) PROVE CallsRight'
  BY <1>0, <1>4, LookupRight
<1>5. ASSUME NEW c \in Calls, CreatePrice(c) PROVE CallsRight'
  <2>1. PICK i \in Prices : PutPrice(c, i) /\ call' = [call EXCEPT ![c] = Inserted(@, i)]
    BY <1>5 DEF CreatePrice
  <2>2. Creating(call[c]) /\ Over(call[c]) \in Call /\ Over(call[c]).op = call[c].op
    BY <2>1, CreatePriceOK, OverOK DEF CallOK, Over, Call
  <2>3. Inserted(call[c], i).op = call[c].op
    BY <2>2 DEF Inserted, Call
  <2>4. ~Searching(Inserted(call[c], i))
    BY <2>2, <2>3 DEF Searching, Creating
  <2>. QED  BY <1>0, <2>1, <2>4, OneCallRight DEF Right
<1>6. ASSUME NEW c \in Calls, GetLatestPrice(c) PROVE CallsRight'
  BY <1>0, <1>6, LatestRight
<1>7. ASSUME NEW c \in Calls, DeletePrices(c) \/ NothingDeleted(c) PROVE CallsRight'
  BY <1>0, <1>7, DeleteRight
<1>8. CASE (\E a \in Assets : DeleteAsset(a)) \/ Tick \/ UNCHANGED vars
  <2>1. call' = call
    BY <1>8 DEF DeleteAsset, Tick, vars
  <2>. QED  BY <1>0, <2>1, StaysRight DEF CallsRight
<1>9. CASE Crash
  BY <1>9 DEF Crash, CallsRight
<1>. QED
  BY <1>1, <1>2, <1>3, <1>4, <1>5, <1>6, <1>7, <1>8, <1>9, <1>10 DEF Next, Statement

(* However the calls interleave, and whatever fails, every reading and     *)
(* deletion by criteria is right about the prices it began with.           *)
THEOREM AllRight == Spec => []CallsRight
<1>1. Init => CallsRight
  BY DEF Init, CallsRight
<1>. QED  BY <1>1, StepRight, Invariance, Integrity, PTL DEF Spec

(* No price that was there all along is later than the one answered as the *)
(* latest, and "not found" is answered only if there was none.             *)
THEOREM Latest == Spec => []LatestIsLatest
<1>1. CallsRight => LatestIsLatest
  BY DEF CallsRight, Right, Searching, LatestIsLatest, Answered, At
<1>. QED  BY <1>1, AllRight, PTL

(* After a deletion that is answered OK, or not found, nothing is left of  *)
(* what it was asked to delete, whoever deleted it.                        *)
THEOREM Deleted == Spec => []DeletedIsGone
<1>1. CallsRight => DeletedIsGone
  BY DEF CallsRight, Right, Searching, DeletedIsGone, Answered, At
<1>. QED  BY <1>1, AllRight, PTL
-----------------------------------------------------------------------------
(* A bulk creation drops errors.  Each is about one quote, by the database *)
(* or by a statement that fails: see what becomes of the others.           *)

(* There is, or was, a price of the asset at the time of q.                *)
Stored(q, D, Q) == \E i \in D : Q[i].asset = q.asset /\ Q[i].time = q.time

(* Of the quotes in todo, those that are complete and have their assets    *)
(* among A are still in rest, or failed, or stored.                        *)
Covered(todo, rest, failed, A, D, Q) ==
    \A q \in Elements(todo) :
        Explicit(q) /\ {q.asset, q.base} \subseteq A =>
            q \in Elements(rest) \cup failed \/ Stored(q, D, Q)

(* The call k has lost none of the quotes it was asked to create but those *)
(* a statement failed on, and names no price.                              *)
Careful(k, A, D, Q) ==
    /\ k.op = "CreatePrices" => Covered(k.request, k.todo, k.failed, A, D, Q)
    /\ Creating(k) => k.id = NULL

CallsCareful == \A c \in Calls : call[c] # NULL => Careful(call[c], assets, drawn, quote)

(* The elements of a list are its head and those of its tail.              *)
LEMMA HeadAndTail ==
    ASSUME NEW s \in Seq(Quote), s # << >>
    PROVE  Elements(s) = {Head(s)} \cup Elements(Tail(s))
<1>1. ASSUME NEW n \in DOMAIN s PROVE s[n] \in {Head(s)} \cup Elements(Tail(s))
  <2>1. CASE n = 1
    BY <2>1
  <2>2. CASE n # 1
    <3>1. n - 1 \in DOMAIN Tail(s) /\ Tail(s)[n - 1] = s[n]
      BY <2>2
    <3>. QED  BY <3>1 DEF Elements
  <2>. QED  BY <2>1, <2>2
<1>2. ASSUME NEW n \in DOMAIN Tail(s) PROVE Tail(s)[n] \in Elements(s)
  <2>1. n + 1 \in DOMAIN s /\ Tail(s)[n] = s[n + 1]
    OBVIOUS
  <2>. QED  BY <2>1 DEF Elements
<1>3. Head(s) \in Elements(s)
  BY 1 \in DOMAIN s DEF Elements
<1>. QED  BY <1>1, <1>2, <1>3 DEF Elements

(* Stamping touches no quote that is complete.                             *)
LEMMA StampingKeeps ==
    ASSUME NEW s \in Seq(Quote), NEW q \in Elements(s), Explicit(q)
    PROVE  q \in Elements(Stamped(s))
<1>. DEFINE t == [s EXCEPT ![1].time = clock]
<1>1. PICK n \in DOMAIN s : q = s[n]
  BY DEF Elements
<1>2. CASE s # << >> /\ s[1].time = NULL
  <2>1. n # 1
    BY <1>1, <1>2 DEF Explicit
  <2>2. n \in DOMAIN t /\ t[n] = s[n]
    BY <2>1
  <2>3. Stamped(s) = t
    BY <1>2 DEF Stamped
  <2>. HIDE DEF t
  <2>. QED  BY <1>1, <2>2, <2>3 DEF Elements
<1>3. CASE ~(s # << >> /\ s[1].time = NULL)
  BY <1>3 DEF Stamped
<1>. QED  BY <1>2, <1>3

(* Assets go and prices come: what is covered stays covered.               *)
LEMMA StaysCareful ==
    ASSUME IInv, [Next]_vars, NEW k, Careful(k, assets, drawn, quote)
    PROVE  Careful(k, assets', drawn', quote')
<1>1. Onward
  BY AllOnward
<1>2. assets' \subseteq assets
  BY DEF Next, Statement, Invoke, Begin, Reject, Return, LookupAsset, LookupBase, CreatePrice,
         PutPrice, InsertRefused, GetLatestPrice, DeletePrices, ErasePrices, NothingDeleted,
         StatementFails, ReplyLost, DeleteAsset, Tick, Crash, db, vars
<1>3. \A q : Stored(q, drawn, quote) => Stored(q, drawn', quote')
  BY <1>1 DEF Onward, Stored
<1>. QED  BY <1>2, <1>3 DEF Careful, Covered

(* A step of one call, which is careful after it.                          *)
LEMMA OneCallCareful ==
    ASSUME IInv, CallsCareful, [Next]_vars, NEW c \in Calls, NEW k,
           call' = [call EXCEPT ![c] = k],
           k # NULL => Careful(k, assets', drawn', quote')
    PROVE  CallsCareful'
<1>. SUFFICES ASSUME NEW d \in Calls, call'[d] # NULL
              PROVE  Careful(call'[d], assets', drawn', quote')
  BY DEF CallsCareful
<1>1. CASE d = c
  BY <1>1 DEF IInv, TypeOK
<1>2. CASE d # c
  <2>1. call'[d] = call[d] /\ Careful(call[d], assets, drawn, quote)
    BY <1>2 DEF IInv, TypeOK, CallsCareful
  <2>. QED  BY <2>1, StaysCareful
<1>. QED  BY <1>1, <1>2

(* The next quote is over: a statement failed on it, it was stored, lacks  *)
(* something, or an asset of it is missing.                                *)
LEMMA OverCareful ==
    ASSUME NEW A, NEW D, NEW Q, NEW k, k \in Call, Careful(k, A, D, Q),
           k.todo # << >>,
           LET q == Head(k.todo)
           IN  Explicit(q) /\ {q.asset, q.base} \subseteq A => q \in k.failed \/ Stored(q, D, Q)
    PROVE  Careful(Over(k), A, D, Q)
<1>1. /\ Over(k).op = k.op /\ Over(k).id = k.id /\ Over(k).failed = k.failed
      /\ Over(k).request = k.request /\ Over(k).todo = Tail(k.todo)
  BY DEF Over, Call
<1>2. k.todo \in Seq(Quote)
  BY DEF Call
<1>3. Elements(k.todo) = {Head(k.todo)} \cup Elements(Tail(k.todo))
  BY <1>2, HeadAndTail
<1>. QED  BY <1>1, <1>3 DEF Careful, Covered, Creating

(* So is one that is dropped.                                              *)
LEMMA DropCareful ==
    ASSUME IInv, CallsCareful, [Next]_vars, NEW c \in Calls,
           NEW k, CallOK(k), k.next # "done", Careful(k, assets', drawn', quote'),
           NEW code, call' = [call EXCEPT ![c] = Refused(k, code)],
           Creating(k) =>
              LET q == Head(k.todo)
              IN  Explicit(q) /\ {q.asset, q.base} \subseteq assets'
                     => q \in k.failed \/ Stored(q, drawn', quote')
    PROVE  CallsCareful'
<1>. DEFINE r == Refused(k, code)
<1>1. k \in Call /\ WellFormed(k)
  BY DEF CallOK
<1>2. CASE k.op = "CreatePrices"
  <2>1. r = Over(k) /\ Creating(k) /\ k.todo # << >>
    BY <1>1, <1>2 DEF Refused, Creating, WellFormed
  <2>2. Careful(r, assets', drawn', quote')
    BY <1>1, <2>1, OverCareful
  <2>. QED  BY <2>2, OneCallCareful
<1>3. CASE k.op # "CreatePrices"
  <2>1. r.op = k.op /\ r.id = k.id
    BY <1>1, <1>3 DEF Refused, Answer, Call
  <2>2. Careful(r, assets', drawn', quote')
    BY <1>1, <1>3, <2>1 DEF Careful, Creating
  <2>. QED  BY <2>2, OneCallCareful
<1>. QED  BY <1>2, <1>3

(* A refusal by a database that works drops what is to be dropped.         *)
LEMMA RefuseCareful ==
    ASSUME IInv, CallsCareful, [Next]_vars, NEW c \in Calls, call[c] # NULL,
           call[c].next # "done", NEW code, Refuse(c, code),
           Creating(call[c]) =>
              LET q == Head(call[c].todo)
              IN  Explicit(q) /\ {q.asset, q.base} \subseteq assets' => Stored(q, drawn', quote')
    PROVE  CallsCareful'
<1>1. CallOK(call[c]) /\ Careful(call[c], assets', drawn', quote')
  BY StaysCareful DEF IInv, TypeOK, CallsWellFormed, CallsCareful, CallOK
<1>2. call' = [call EXCEPT ![c] = Refused(call[c], code)]
  BY DEF Refuse
<1>. QED  BY <1>1, <1>2, DropCareful

(* A statement that fails drops its quote, and no other.                   *)
LEMMA FailCareful ==
    ASSUME IInv, CallsCareful, [Next]_vars, NEW c \in Calls, StatementFails(c)
    PROVE  CallsCareful'
<1>. DEFINE k == call[c]
            h == Failing(k)
<1>1. /\ k # NULL /\ k.next # "done" /\ CallOK(k)
      /\ call' = [call EXCEPT ![c] = Refused(h, "Internal")]
      /\ ~Creating(k) => Refuse(c, "Internal")
  BY FailOK
<1>2. CASE Creating(k)
  <2>1. /\ CallOK(h) /\ h.next # "done" /\ h.op = k.op /\ h.id = k.id
        /\ h.request = k.request /\ h.todo = k.todo
        /\ h.failed = k.failed \cup {Head(k.todo)}
    BY <1>1, <1>2, FailingOK
  <2>2. Careful(k, assets', drawn', quote')
    BY <1>1, StaysCareful DEF CallsCareful
  <2>. HIDE DEF h, k
  <2>3. Careful(h, assets', drawn', quote')
    BY <2>1, <2>2 DEF Careful, Covered, Creating
  <2>. QED  BY <1>1, <2>1, <2>3, DropCareful
<1>3. CASE ~Creating(k)
  BY <1>1, <1>3, RefuseCareful
<1>. QED  BY <1>2, <1>3

(* A request begins with all its quotes to do.                             *)
LEMMA InvokeCareful ==
    ASSUME IInv, CallsCareful, [Next]_vars, NEW c \in Calls, Invoke(c)
    PROVE  CallsCareful'
<1>1. ASSUME NEW op, NEW quotes, NEW f, NEW id, NEW first,
             op \in {"CreatePrice", "CreatePrices"} => id = NULL,
             Begin(c, op, quotes, f, id, first)
      PROVE  CallsCareful'
  <2> DEFINE k == [op |-> op, request |-> quotes, filter |-> f, id |-> id,
                   todo |-> quotes, next |-> first, count |-> 0,
                   answer |-> "OK", price |-> NULL,
                   before |-> IF f = NoFilter THEN {} ELSE Matching(f),
                   failed |-> {}]
  <2>1. call' = [call EXCEPT ![c] = k]
    BY <1>1 DEF Begin
  <2>2. k.op = op /\ k.id = id /\ k.request = quotes /\ k.todo = quotes
    OBVIOUS
  <2>. HIDE DEF k
  <2>3. Careful(k, assets', drawn', quote')
    BY <1>1, <2>2 DEF Careful, Covered, Creating
  <2>. QED  BY <2>1, <2>3, OneCallCareful
<1>. QED  BY <1>1 DEF Invoke

(* A statement that a creation goes on from, with its quotes as they are   *)
(* or stamped, or that a search ends with.                                 *)
LEMMA GoesOnCareful ==
    ASSUME IInv, CallsCareful, [Next]_vars, NEW c \in Calls, call[c] # NULL,
           NEW k, call' = [call EXCEPT ![c] = k],
           k.op = call[c].op, k.id = call[c].id, k.request = call[c].request,
           k.failed = call[c].failed,
           k.todo = call[c].todo \/ k.todo = Stamped(call[c].todo)
    PROVE  CallsCareful'
<1>1. call[c] \in Call /\ Careful(call[c], assets, drawn, quote)
  BY DEF IInv, TypeOK, CallsCareful
<1>2. call[c].todo \in Seq(Quote)
  BY <1>1 DEF Call
<1>3. \A q \in Elements(call[c].todo) : Explicit(q) => q \in Elements(k.todo)
  BY <1>2, StampingKeeps
<1>4. Careful(k, assets, drawn, quote)
  BY <1>1, <1>3 DEF Careful, Covered, Creating
<1>. QED  BY <1>4, StaysCareful, OneCallCareful

(* A lookup goes on, or shows that an asset is missing.                    *)
LEMMA LookupCareful ==
    ASSUME IInv, CallsCareful, [Next]_vars, NEW c \in Calls, LookupAsset(c) \/ LookupBase(c)
    PROVE  CallsCareful'
<1>1. call[c] \in Call /\ call[c] # NULL /\ call[c].next # "done" /\ assets' = assets
  BY DEF LookupAsset, LookupBase, Executes, At, IInv, TypeOK, db
<1>2. CASE Refuse(c, "NotFound") /\ (\/ Subject(call[c]).asset \notin assets \cup {NULL}
                                     \/ Subject(call[c]).base \notin assets \cup {NULL})
  BY <1>1, <1>2, RefuseCareful DEF Subject
<1>3. CASE call' = [call EXCEPT ![c].next = "base"]
  <2>. DEFINE k == [call[c] EXCEPT !.next = "base"]
  <2>1. call' = [call EXCEPT ![c] = k]
    BY <1>3 DEF IInv, TypeOK
  <2>2. /\ k.op = call[c].op /\ k.id = call[c].id /\ k.request = call[c].request
        /\ k.todo = call[c].todo /\ k.failed = call[c].failed
    BY <1>1 DEF Call
  <2>. HIDE DEF k
  <2>. QED  BY <1>1, <2>1, <2>2, GoesOnCareful
<1>4. CASE call' = [call EXCEPT ![c].next = "write", ![c].todo = Stamped(@)]
  <2>. DEFINE todo == Stamped(call[c].todo)
              k == [call[c] EXCEPT !.next = "write", !.todo = todo]
  <2>1. call' = [call EXCEPT ![c] = k]
    BY <1>4 DEF IInv, TypeOK
  <2>2. todo = Stamped(call[c].todo)
    OBVIOUS
  <2>. HIDE DEF todo
  <2>3. /\ k.op = call[c].op /\ k.id = call[c].id /\ k.request = call[c].request
        /\ k.todo = todo /\ k.failed = call[c].failed
    BY <1>1 DEF Call
  <2>. HIDE DEF k
  <2>. QED  BY <1>1, <2>1, <2>2, <2>3, GoesOnCareful
<1>. QED  BY <1>2, <1>3, <1>4 DEF LookupAsset, LookupBase

(* Readings and deletions create nothing.                                  *)
LEMMA SearchCareful ==
    ASSUME IInv, CallsCareful, [Next]_vars, NEW c \in Calls,
           GetLatestPrice(c) \/ DeletePrices(c) \/ NothingDeleted(c)
    PROVE  CallsCareful'
<1>1. /\ call[c] \in Call /\ call[c] # NULL /\ call[c].next # "done" /\ ~Creating(call[c])
  BY DEF GetLatestPrice, DeletePrices, ErasePrices, NothingDeleted, Executes, At, Creating,
         IInv, TypeOK
<1>2. CASE Refuse(c, "NotFound")
  BY <1>1, <1>2, RefuseCareful
<1>3. ASSUME NEW k, call' = [call EXCEPT ![c] = k], k.op = call[c].op PROVE CallsCareful'
  BY <1>1, <1>3, OneCallCareful DEF Careful, Creating
<1>4. ASSUME NEW i, call' = [call EXCEPT ![c].next = "done", ![c].price = i]
      PROVE  CallsCareful'
  <2>. DEFINE k == [call[c] EXCEPT !.next = "done", !.price = i]
  <2>1. call' = [call EXCEPT ![c] = k] /\ k.op = call[c].op
    BY <1>1, <1>4 DEF IInv, TypeOK, Call
  <2>. HIDE DEF k
  <2>. QED  BY <2>1, <1>3
<1>5. CASE call' = [call EXCEPT ![c].next = "done"]
  <2>. DEFINE k == [call[c] EXCEPT !.next = "done"]
  <2>1. call' = [call EXCEPT ![c] = k] /\ k.op = call[c].op
    BY <1>1, <1>5 DEF IInv, TypeOK, Call
  <2>. HIDE DEF k
  <2>. QED  BY <2>1, <1>3
<1>. QED  BY <1>2, <1>4, <1>5 DEF GetLatestPrice, DeletePrices, NothingDeleted

(* An INSERT, or its refusal, settles the quote.                           *)
LEMMA InsertCareful ==
    ASSUME IInv, CallsCareful, [Next]_vars, NEW c \in Calls,
           CreatePrice(c) \/ InsertRefused(c) \/ ReplyLost(c)
    PROVE  CallsCareful'
<1>. DEFINE q == Head(call[c].todo)
<1>1. /\ call[c] \in Call /\ call[c] # NULL /\ call[c].next # "done"
      /\ WellFormed(call[c])
  BY DEF CreatePrice, PutPrice, InsertRefused, ReplyLost, ErasePrices, Executes, At, IInv,
         TypeOK, CallsWellFormed
<1>2. ASSUME NEW i \in Prices, PutPrice(c, i) PROVE Stored(q, drawn', quote')
  BY <1>2 DEF PutPrice, Stored, IInv, TypeOK
<1>3. CASE InsertRefused(c)
  <2>1. {q.asset, q.base} \subseteq assets => Taken(q)
    BY <1>3 DEF InsertRefused, Insertable
  <2>2. Taken(q) => Stored(q, drawn, quote)
    BY DEF Taken, Stored, IInv, TypeOK
  <2>3. UNCHANGED <<assets, drawn, quote>> /\ Refuse(c, "FailedPrecondition")
    BY <1>3 DEF InsertRefused, db
  <2>. HIDE DEF q
  <2>4. {q.asset, q.base} \subseteq assets' => Stored(q, drawn', quote')
    BY <2>1, <2>2, <2>3
  <2>. QED  BY <1>1, <2>3, <2>4, RefuseCareful DEF q
<1>4. CASE CreatePrice(c)
  <2>1. PICK i \in Prices : PutPrice(c, i) /\ call' = [call EXCEPT ![c] = Inserted(@, i)]
    BY <1>4 DEF CreatePrice
  <2>2. Creating(call[c]) /\ call[c].todo # << >>
    BY <1>1, <2>1 DEF PutPrice, WellFormed
  <2>3. Careful(call[c], assets', drawn', quote')
    BY <1>1, StaysCareful DEF CallsCareful
  <2>4. Careful(Over(call[c]), assets', drawn', quote')
    BY <1>1, <1>2, <2>1, <2>2, <2>3, OverCareful
  <2>. DEFINE h == Over(call[c])
              n == h.count + 1
              k == [h EXCEPT !.count = n, !.price = i]
  <2>5. h \in Call
    BY <2>1, CreatePriceOK, OverOK DEF CallOK
  <2>. HIDE DEF h, n
  <2>6. k.op = h.op /\ k.id = h.id /\ k.request = h.request /\ k.todo = h.todo /\ k.failed = h.failed
    BY <2>5 DEF Call
  <2>7. call' = [call EXCEPT ![c] = k]
    BY <2>1 DEF Inserted, h, n, IInv, TypeOK
  <2>. HIDE DEF k
  <2>8. Careful(k, assets', drawn', quote')
    BY <2>4, <2>6 DEF Careful, Creating, h
  <2>. QED  BY <2>7, <2>8, OneCallCareful
<1>5. CASE ReplyLost(c)
  <2>1. Refuse(c, "Internal") /\ (Creating(call[c]) => \E i \in Prices : PutPrice(c, i))
    BY <1>5 DEF ReplyLost, ErasePrices, Creating
  <2>. QED  BY <1>1, <1>2, <2>1, RefuseCareful
<1>. QED  BY <1>3, <1>4, <1>5

(* Every step keeps the calls careful.                                     *)
LEMMA StepCareful == IInv /\ CallsCareful /\ [Next]_vars => CallsCareful'
<1>. SUFFICES ASSUME IInv, CallsCareful, [Next]_vars PROVE CallsCareful'
  OBVIOUS
<1>1. ASSUME NEW c \in Calls, Reject(c) PROVE CallsCareful'
  <2>1. /\ call[c] # NULL /\ call[c].next # "done" /\ Refuse(c, "InvalidArgument")
        /\ Invalid(call[c]) /\ assets' = assets
    BY <1>1 DEF Reject, Invalid, db
  <2>2. Creating(call[c]) => LET q == Head(call[c].todo)
                             IN  ~(Explicit(q) /\ {q.asset, q.base} \subseteq assets)
    <3>. SUFFICES ASSUME Creating(call[c]), Explicit(Head(call[c].todo)),
                         Head(call[c].todo).asset \in Assets, Head(call[c].todo).base \in Assets
                  PROVE  FALSE
      BY DEF IInv, TypeOK
    <3>1. ~Lacking(call[c])
      BY DEF Lacking, Subject, Explicit, Creating
    <3>2. call[c].next = "write" /\ call[c].id \in Malformed
      BY <2>1, <3>1, IdsAssumption DEF Invalid, Subject
    <3>3. Creating(call[c]) => call[c].id = NULL
      BY <2>1 DEF CallsCareful, Careful
    <3>. QED  BY <3>2, <3>3, IdsAssumption
  <2>. QED  BY <2>1, <2>2, RefuseCareful
<1>2. ASSUME NEW c \in Calls, Return(c) PROVE CallsCareful'
  BY <1>2, OneCallCareful DEF Return
<1>3. CASE (\E a \in Assets : DeleteAsset(a)) \/ Tick \/ UNCHANGED vars
  <2>1. call' = call
    BY <1>3 DEF DeleteAsset, Tick, vars
  <2>. QED  BY <2>1, StaysCareful DEF CallsCareful
<1>4. CASE Crash
  BY <1>4 DEF Crash, CallsCareful
<1>. QED
  BY <1>1, <1>2, <1>3, <1>4, InvokeCareful, LookupCareful, SearchCareful, InsertCareful,
     FailCareful DEF Next, Statement

(* Whatever fails, a bulk creation loses no complete quote whose assets    *)
(* exist but those on which a statement failed.                            *)
THEOREM NoQuoteLost == Spec => []NothingLost
<1>1. Init => CallsCareful
  BY DEF Init, CallsCareful
<1>2. IInv /\ CallsCareful /\ [Next]_vars => CallsCareful'
  BY StepCareful
<1>3. IInv /\ CallsCareful => NothingLost
  <2>. SUFFICES ASSUME IInv, CallsCareful, NEW c \in Calls, Answered(c),
                       call[c].op = "CreatePrices",
                       NEW q \in Elements(call[c].request) \ call[c].failed, Explicit(q), {q.asset, q.base} \subseteq assets
                PROVE  \E i \in drawn : quote[i].asset = q.asset /\ quote[i].time = q.time
    BY DEF NothingLost
  <2>1. call[c].todo = << >> /\ Careful(call[c], assets, drawn, quote)
    BY DEF Answered, At, IInv, CallsWellFormed, WellFormed, Creating, CallsCareful
  <2>2. Elements(<< >>) = {}
    BY DEF Elements
  <2>. QED  BY <2>1, <2>2 DEF Careful, Covered, Stored
<1>. QED  BY <1>1, <1>2, <1>3, Invariance, PTL DEF Spec
-----------------------------------------------------------------------------
(* A bulk creation counts what it has created.                             *)

(* The request k asks for the quote q, or for it without its time.         *)
Asks(k, q) == \E r \in Elements(k.request) : r \in {q, [q EXCEPT !.time = NULL]}

(* The prices ever stored that k asks for.                                 *)
Earned(k, D, Q) == {i \in D : Asks(k, Q[i])}

(* The call k has counted no more than those, and goes on with what it was *)
(* asked for.                                                              *)
Honest(k, D, Q) ==
    k.op = "CreatePrices" =>
        /\ k.count <= Cardinality(Earned(k, D, Q))
        /\ \A q \in Elements(k.todo) : Asks(k, q)

CallsHonest ==
    /\ IsFiniteSet(drawn)
    /\ \A c \in Calls : call[c] # NULL => Honest(call[c], drawn, quote)

(* Prices come one by one.                                                 *)
LEMMA StaysFinite == IInv /\ IsFiniteSet(drawn) /\ [Next]_vars => IsFiniteSet(drawn')
<1>. SUFFICES ASSUME IInv, IsFiniteSet(drawn), [Next]_vars PROVE IsFiniteSet(drawn')
  OBVIOUS
<1>1. \A i : IsFiniteSet(drawn \cup {i})
  BY FS_AddElement
<1>2. drawn' = drawn \/ \E i : drawn' = drawn \cup {i}
  BY DEF Next, Statement, Invoke, Begin, Reject, Return, LookupAsset, LookupBase, CreatePrice,
         PutPrice, InsertRefused, GetLatestPrice, DeletePrices, ErasePrices, NothingDeleted,
         StatementFails, ReplyLost, DeleteAsset, Tick, Crash, db, vars
<1>. QED  BY <1>1, <1>2

(* What a call has earned is not taken from it.                            *)
LEMMA StaysHonest ==
    ASSUME IInv, CallsHonest, [Next]_vars, NEW k, k \in Call, Honest(k, drawn, quote)
    PROVE  Honest(k, drawn', quote')
<1>1. Onward /\ IsFiniteSet(drawn')
  BY AllOnward, StaysFinite DEF CallsHonest
<1>. DEFINE S == Earned(k, drawn, quote)
            T == Earned(k, drawn', quote')
<1>2. S \subseteq T /\ T \subseteq drawn' /\ S \subseteq drawn
  BY <1>1 DEF Onward, Earned
<1>. HIDE DEF S, T
<1>3. IsFiniteSet(T) /\ IsFiniteSet(S) /\ Cardinality(S) <= Cardinality(T)
  BY <1>1, <1>2, FS_Subset
<1>4. Cardinality(S) \in Nat /\ Cardinality(T) \in Nat /\ k.count \in Nat
  BY <1>3, FS_CardinalityType DEF Call
<1>5. k.op = "CreatePrices" => k.count <= Cardinality(T)
  BY <1>3, <1>4 DEF Honest, S
<1>. QED  BY <1>5 DEF Honest, T

(* A step of one call, which is honest after it.                           *)
LEMMA OneCallHonest ==
    ASSUME IInv, CallsHonest, [Next]_vars, NEW c \in Calls, NEW k,
           call' = [call EXCEPT ![c] = k],
           k # NULL => Honest(k, drawn', quote')
    PROVE  CallsHonest'
<1>. SUFFICES ASSUME NEW d \in Calls, call'[d] # NULL
              PROVE  Honest(call'[d], drawn', quote')
  BY StaysFinite DEF CallsHonest
<1>1. CASE d = c
  BY <1>1 DEF IInv, TypeOK
<1>2. CASE d # c
  <2>1. call'[d] = call[d] /\ call[d] \in Call /\ Honest(call[d], drawn, quote)
    BY <1>2 DEF IInv, TypeOK, CallsHonest
  <2>. QED  BY <2>1, StaysHonest
<1>. QED  BY <1>1, <1>2

(* One that counts no more, and has nothing to do that it had not before.  *)
LEMMA SameHonest ==
    ASSUME IInv, CallsHonest, [Next]_vars, NEW c \in Calls, call[c] # NULL,
           NEW k, call' = [call EXCEPT ![c] = k], k.op = call[c].op,
           k.request = call[c].request, k.count = call[c].count,
           \A q \in Elements(k.todo) : Asks(call[c], q) \/ q \in Elements(call[c].todo)
    PROVE  CallsHonest'
<1>1. call[c] \in Call /\ Honest(call[c], drawn, quote)
  BY DEF IInv, TypeOK, CallsHonest
<1>2. Honest(call[c], drawn', quote')
  BY <1>1, StaysHonest
<1>3. Honest(k, drawn', quote')
  BY <1>2 DEF Honest, Earned, Asks
<1>. QED  BY <1>3, OneCallHonest

(* An error counts nothing, and may drop a quote.                          *)
LEMMA DropHonest ==
    ASSUME IInv, CallsHonest, [Next]_vars, NEW c \in Calls, call[c] # NULL,
           NEW k, CallOK(k), k.next # "done", k.op = call[c].op, k.request = call[c].request,
           k.todo = call[c].todo, k.count = call[c].count,
           NEW code, call' = [call EXCEPT ![c] = Refused(k, code)]
    PROVE  CallsHonest'
<1>. DEFINE r == Refused(k, code)
<1>1. k \in Call /\ WellFormed(k) /\ k.todo \in Seq(Quote)
  BY DEF CallOK, Call
<1>2. r.op = k.op /\ r.request = k.request /\ r.count = k.count
  BY <1>1 DEF Refused, Over, Answer, Call
<1>3. \A q \in Elements(r.todo) : q \in Elements(k.todo)
  <2>1. CASE k.op = "CreatePrices"
    <3>1. r.todo = Tail(k.todo) /\ k.todo # << >>
      BY <1>1, <2>1 DEF Refused, Over, Call, Creating, WellFormed
    <3>. QED  BY <1>1, <3>1, HeadAndTail
  <2>2. CASE k.op # "CreatePrices"
    <3>1. r.todo = << >>
      BY <1>1, <2>2 DEF Refused, Answer, Call
    <3>. QED  BY <3>1 DEF Elements
  <2>. QED  BY <2>1, <2>2
<1>. HIDE DEF r
<1>4. call' = [call EXCEPT ![c] = r]
  BY DEF r
<1>5. r.op = call[c].op /\ r.request = call[c].request /\ r.count = call[c].count
  BY <1>2
<1>6. \A q \in Elements(r.todo) : q \in Elements(call[c].todo)
  BY <1>3
<1>. QED  BY <1>4, <1>5, <1>6, SameHonest

(* So does a refusal, and a statement that fails.                          *)
LEMMA RefuseHonest ==
    ASSUME IInv, CallsHonest, [Next]_vars, NEW c \in Calls, call[c] # NULL,
           call[c].next # "done",
           (\E code : Refuse(c, code)) \/ StatementFails(c)
    PROVE  CallsHonest'
<1>1. CallOK(call[c])
  BY DEF IInv, TypeOK, CallsWellFormed, CallOK
<1>2. ASSUME NEW code, Refuse(c, code) PROVE CallsHonest'
  BY <1>1, <1>2, DropHonest DEF Refuse
<1>3. CASE StatementFails(c)
  BY <1>1, <1>3, FailOK, FailingOK, DropHonest
<1>. QED  BY <1>2, <1>3

(* A quote that is stamped is still what was asked for.                    *)
LEMMA StampedAsked ==
    ASSUME NEW k, NEW q \in Quote, q.time = NULL, NEW t, Asks(k, q)
    PROVE  Asks(k, [q EXCEPT !.time = t])
<1>. DEFINE F == {"asset", "base", "source", "time"}
            p == [q EXCEPT !.time = t]
            u == [p EXCEPT !.time = NULL]
            v == [q EXCEPT !.time = NULL]
<1>1. q = [f \in F |-> q[f]]
  BY DEF Quote
<1>2. p = [f \in F |-> IF f = "time" THEN t ELSE q[f]]
  BY <1>1
<1>3. u = [f \in F |-> IF f = "time" THEN NULL ELSE q[f]]
  <2>. HIDE DEF p
  <2>. QED  BY <1>2
<1>4. v = [f \in F |-> IF f = "time" THEN NULL ELSE q[f]]
  BY <1>1
<1>5. u = q /\ v = q
  <2>1. q = [f \in F |-> IF f = "time" THEN NULL ELSE q[f]]
    BY <1>1
  <2>. HIDE DEF u, v
  <2>. QED  BY <1>3, <1>4, <2>1
<1>. HIDE DEF u, v, p
<1>6. \E r \in Elements(k.request) : r \in {q, v}
  BY DEF Asks, v
<1>7. \E r \in Elements(k.request) : r \in {p, u}
  BY <1>5, <1>6
<1>. QED  BY <1>7 DEF Asks, u, p

(* A lookup counts nothing.                                                *)
LEMMA LookupHonest ==
    ASSUME IInv, CallsHonest, [Next]_vars, NEW c \in Calls, LookupAsset(c) \/ LookupBase(c)
    PROVE  CallsHonest'
<1>1. /\ call[c] \in Call /\ call[c] # NULL /\ call[c].next # "done"
      /\ call[c].todo \in Seq(Quote) /\ WellFormed(call[c]) /\ Honest(call[c], drawn, quote)
  BY DEF LookupAsset, LookupBase, Executes, At, IInv, TypeOK, CallsWellFormed, CallsHonest, Call
<1>2. CASE Refuse(c, "NotFound")
  BY <1>1, <1>2, RefuseHonest
<1>3. CASE call' = [call EXCEPT ![c].next = "base"]
  <2>. DEFINE k == [call[c] EXCEPT !.next = "base"]
  <2>1. call' = [call EXCEPT ![c] = k]
    BY <1>3 DEF IInv, TypeOK
  <2>2. /\ k.op = call[c].op /\ k.request = call[c].request /\ k.todo = call[c].todo
        /\ k.count = call[c].count
    BY <1>1 DEF Call
  <2>. HIDE DEF k
  <2>. QED  BY <1>1, <2>1, <2>2, SameHonest
<1>4. CASE call' = [call EXCEPT ![c].next = "write", ![c].todo = Stamped(@)]
  <2>. DEFINE s == call[c].todo
              todo == Stamped(s)
              k == [call[c] EXCEPT !.next = "write", !.todo = todo]
  <2>1. call' = [call EXCEPT ![c] = k]
    BY <1>4 DEF IInv, TypeOK
  <2>2. CASE call[c].op = "CreatePrices"
    <3>1. ASSUME NEW q \in Elements(todo) PROVE Asks(call[c], q)
      <4>1. s # << >> /\ 1 \in DOMAIN s /\ s[1] \in Quote
        BY <1>1, <2>2 DEF WellFormed, Creating
      <4>2. q \in Elements(s) \/ (q = [s[1] EXCEPT !.time = clock] /\ s[1].time = NULL)
        BY <1>1, <4>1 DEF Stamped, Elements
      <4>3. \A e \in Elements(s) : Asks(call[c], e)
        BY <1>1, <2>2 DEF Honest
      <4>4. s[1] \in Elements(s)
        BY <4>1 DEF Elements
      <4>. QED  BY <4>1, <4>2, <4>3, <4>4, StampedAsked
    <3>. HIDE DEF todo
    <3>2. /\ k.op = call[c].op /\ k.request = call[c].request /\ k.todo = todo
          /\ k.count = call[c].count
      BY <1>1 DEF Call
    <3>. HIDE DEF k
    <3>. QED  BY <1>1, <2>1, <3>1, <3>2, SameHonest
  <2>3. CASE call[c].op # "CreatePrices"
    <3>. HIDE DEF todo
    <3>1. k.op = call[c].op
      BY <1>1 DEF Call
    <3>. HIDE DEF k
    <3>. QED  BY <2>1, <2>3, <3>1, OneCallHonest DEF Honest
  <2>. QED  BY <2>2, <2>3
<1>. QED  BY <1>2, <1>3, <1>4 DEF LookupAsset, LookupBase

(* An INSERT is counted, and is a price that was asked for.                *)
LEMMA CreateHonest ==
    ASSUME IInv, CallsHonest, [Next]_vars, NEW c \in Calls, CreatePrice(c)
    PROVE  CallsHonest'
<1>1. PICK i \in Prices : PutPrice(c, i) /\ call' = [call EXCEPT ![c] = Inserted(@, i)]
  BY DEF CreatePrice
<1>. DEFINE g == call[c]
            h == Over(g)
            n == h.count + 1
            k == [h EXCEPT !.count = n, !.price = i]
<1>2. /\ g \in Call /\ g # NULL /\ WellFormed(g) /\ Creating(g) /\ g.next = "write"
      /\ g.todo \in Seq(Quote) /\ g.todo # << >> /\ Honest(g, drawn, quote)
  BY <1>1 DEF PutPrice, Executes, At, IInv, TypeOK, CallsWellFormed, CallsHonest, Call, WellFormed
<1>3. h \in Call /\ h.op = g.op /\ h.request = g.request /\ h.count = g.count
         /\ h.todo = Tail(g.todo)
  BY <1>1, <1>2, CreatePriceOK, OverOK DEF CallOK, Over, Call
<1>4. call' = [call EXCEPT ![c] = k]
  BY <1>1 DEF Inserted
<1>. HIDE DEF h
<1>5. k.op = g.op /\ k.request = g.request /\ k.todo = Tail(g.todo) /\ k.count = g.count + 1
  BY <1>3 DEF Call
<1>. HIDE DEF k
<1>6. CASE g.op = "CreatePrices"
  <2>. DEFINE S == Earned(g, drawn, quote)
              T == Earned(g, drawn', quote')
  <2>1. Elements(g.todo) = {Head(g.todo)} \cup Elements(Tail(g.todo))
    BY <1>2, HeadAndTail
  <2>2. Asks(g, Head(g.todo)) /\ \A q \in Elements(Tail(g.todo)) : Asks(g, q)
    BY <1>2, <1>6, <2>1 DEF Honest
  <2>3. /\ i \notin drawn /\ drawn' = drawn \cup {i} /\ quote'[i] = Head(g.todo)
        /\ \A j \in drawn : quote'[j] = quote[j]
    BY <1>1 DEF PutPrice, IInv, TypeOK
  <2>4. T = S \cup {i} /\ i \notin S /\ S \subseteq drawn
    BY <2>2, <2>3 DEF Earned
  <2>. HIDE DEF S, T
  <2>5. IsFiniteSet(S)
    BY <2>4, FS_Subset DEF CallsHonest
  <2>6. Cardinality(T) = Cardinality(S) + 1 /\ Cardinality(S) \in Nat
    BY <2>4, <2>5, FS_AddElement, FS_CardinalityType
  <2>7. g.count <= Cardinality(S) /\ g.count \in Nat
    BY <1>2, <1>6 DEF Honest, S, Call
  <2>8. k.count <= Cardinality(T)
    BY <1>5, <2>6, <2>7
  <2>9. Honest(k, drawn', quote')
    BY <1>5, <2>2, <2>8 DEF Honest, Earned, Asks, T
  <2>. QED  BY <1>4, <2>9, OneCallHonest
<1>7. CASE g.op # "CreatePrices"
  BY <1>4, <1>5, <1>7, OneCallHonest DEF Honest
<1>. QED  BY <1>6, <1>7

(* Every step keeps the calls honest.                                      *)
LEMMA StepHonest == IInv /\ CallsHonest /\ [Next]_vars => CallsHonest'
<1>. SUFFICES ASSUME IInv, CallsHonest, [Next]_vars PROVE CallsHonest'
  OBVIOUS
<1>1. ASSUME NEW c \in Calls, Invoke(c) PROVE CallsHonest'
  <2>1. ASSUME NEW op, NEW quotes \in Seq(Quote), NEW f, NEW id, NEW first,
               Begin(c, op, quotes, f, id, first)
        PROVE  CallsHonest'
    <3> DEFINE k == [op |-> op, request |-> quotes, filter |-> f, id |-> id,
                     todo |-> quotes, next |-> first, count |-> 0,
                     answer |-> "OK", price |-> NULL,
                     before |-> IF f = NoFilter THEN {} ELSE Matching(f),
                     failed |-> {}]
    <3>1. call' = [call EXCEPT ![c] = k]
      BY <2>1 DEF Begin
    <3>2. k.request = quotes /\ k.todo = quotes /\ k.count = 0
      OBVIOUS
    <3>. HIDE DEF k
    <3>3. \A q \in Elements(k.todo) : Asks(k, q)
      BY <3>2 DEF Asks
    <3>. DEFINE S == Earned(k, drawn', quote')
    <3>4. S \subseteq drawn' /\ IsFiniteSet(drawn')
      BY StaysFinite DEF Earned, CallsHonest
    <3>. HIDE DEF S
    <3>5. Cardinality(S) \in Nat
      BY <3>4, FS_Subset, FS_CardinalityType
    <3>6. Honest(k, drawn', quote')
      BY <3>2, <3>3, <3>5 DEF Honest, S
    <3>. QED  BY <3>1, <3>6, OneCallHonest
  <2>2. Creates \subseteq Quote /\ Bulks \subseteq Seq(Quote) /\ << >> \in Seq(Quote)
    BY RequestsAssumption
  <2>3. \A q \in Creates : << q >> \in Seq(Quote)
    BY <2>2
  <2>. QED  BY <1>1, <2>1, <2>2, <2>3 DEF Invoke
<1>2. ASSUME NEW c \in Calls,
             Reject(c) \/ InsertRefused(c) \/ ReplyLost(c) \/ NothingDeleted(c)
      PROVE  CallsHonest'
  <2>1. call[c] # NULL /\ call[c].next # "done" /\ \E code : Refuse(c, code)
    BY <1>2 DEF Reject, Invalid, InsertRefused, ReplyLost, ErasePrices, PutPrice,
                NothingDeleted, Executes, At
  <2>. QED  BY <2>1, RefuseHonest
<1>7. ASSUME NEW c \in Calls, StatementFails(c) PROVE CallsHonest'
  BY <1>7, FailOK, RefuseHonest
<1>3. ASSUME NEW c \in Calls, Return(c) PROVE CallsHonest'
  BY <1>3, OneCallHonest DEF Return
<1>4. ASSUME NEW c \in Calls, GetLatestPrice(c) \/ DeletePrices(c) PROVE CallsHonest'
  <2>1. call[c] \in Call /\ call[c] # NULL /\ call[c].next # "done" /\ ~Creating(call[c])
    BY <1>4 DEF GetLatestPrice, DeletePrices, ErasePrices, Executes, At, Creating, IInv, TypeOK
  <2>2. ASSUME NEW k, call' = [call EXCEPT ![c] = k], k.op = call[c].op PROVE CallsHonest'
    BY <2>1, <2>2, OneCallHonest DEF Honest, Creating
  <2>3. ASSUME NEW i, call' = [call EXCEPT ![c].next = "done", ![c].price = i]
        PROVE  CallsHonest'
    <3>. DEFINE k == [call[c] EXCEPT !.next = "done", !.price = i]
    <3>1. call' = [call EXCEPT ![c] = k] /\ k.op = call[c].op
      BY <2>1, <2>3 DEF IInv, TypeOK, Call
    <3>. HIDE DEF k
    <3>. QED  BY <3>1, <2>2
  <2>4. CASE call' = [call EXCEPT ![c].next = "done"]
    <3>. DEFINE k == [call[c] EXCEPT !.next = "done"]
    <3>1. call' = [call EXCEPT ![c] = k] /\ k.op = call[c].op
      BY <2>1, <2>4 DEF IInv, TypeOK, Call
    <3>. HIDE DEF k
    <3>. QED  BY <3>1, <2>2
  <2>5. CASE Refuse(c, "NotFound")
    BY <2>1, <2>5, RefuseHonest
  <2>. QED  BY <1>4, <2>3, <2>4, <2>5 DEF GetLatestPrice, DeletePrices
<1>5. CASE (\E a \in Assets : DeleteAsset(a)) \/ Tick \/ UNCHANGED vars
  <2>1. call' = call /\ IsFiniteSet(drawn')
    BY <1>5, StaysFinite DEF DeleteAsset, Tick, vars, CallsHonest
  <2>2. \A c \in Calls : call[c] # NULL => call[c] \in Call
    BY DEF IInv, TypeOK
  <2>. QED  BY <2>1, <2>2, StaysHonest DEF CallsHonest
<1>6. CASE Crash
  BY <1>6, StaysFinite DEF Crash, CallsHonest
<1>. QED
  BY <1>1, <1>2, <1>3, <1>4, <1>5, <1>6, <1>7, LookupHonest, CreateHonest DEF Next, Statement

(* Whatever fails, the count answered to a bulk creation claims no price   *)
(* that was never stored.                                                  *)
THEOREM CountedOnce == Spec => []CountIsEarned
<1>1. Init => CallsHonest
  BY FS_EmptySet DEF Init, CallsHonest
<1>2. CallsHonest => CountIsEarned
  BY DEF CallsHonest, Honest, Earned, Asks, CountIsEarned, Answered, At
<1>. QED  BY <1>1, <1>2, StepHonest, Invariance, PTL DEF Spec
=============================================================================
