------------------------ MODULE HistoryPagingProofs ------------------------
(* Theorems about paging, for any messages and page size.                   *)
EXTENDS HistoryPaging, FiniteSetTheorems, TLAPS

\* What was there at the start is in the list, and is either read or behind
\* the offset; what was counted is still there.
Ahead ==
  /\ total <= count
  /\ pc = "out" => offset = 0
  /\ \A m \in start : pos[m] > 0
  /\ pc \in {"asks", "counted"} => \A m \in start \ got : pos[m] > offset
  /\ pc \in {"asks", "counted"} /\ offset > 0 => offset < count

Inv == TypeOK /\ Ahead /\ Complete

LEMMA InvInit == Init => Inv
<1> SUFFICES ASSUME Init PROVE Inv
  OBVIOUS
<1>1. Committed = {} /\ 1 .. count = {}
  BY DEF Init, Committed
<1>2. {pos[m] : m \in Committed} = 1 .. count
  BY <1>1
<1>3. TypeOK
  <2>1. \A m, n \in Committed : pos[m] = pos[n] => m = n
    BY <1>1
  <2>2. pos \in [Msg -> Nat] /\ start \in SUBSET Msg /\ got \in SUBSET Msg
    BY DEF Init
  <2> QED
    BY <1>2, <2>1, <2>2 DEF Init, TypeOK
<1>4. Ahead /\ Complete
  BY DEF Init, Ahead, Complete
<1> QED
  BY <1>3, <1>4 DEF Inv

\* The places after a message has come in at p.
LEMMA Places ==
  ASSUME Inv, NEW m \in Msg, pos[m] = 0, NEW p \in 1 .. count + 1, count' = count + 1,
         pos' = [x \in Msg |-> IF x = m THEN p ELSE IF pos[x] >= p THEN pos[x] + 1 ELSE pos[x]]
  PROVE  /\ pos' \in [Msg -> Nat]
         /\ {pos'[x] : x \in Committed'} = 1 .. count'
         /\ \A x, y \in Committed' : pos'[x] = pos'[y] => x = y
         /\ \A x \in Committed : pos'[x] >= pos[x]
<1>1. /\ count \in Nat /\ p \in Nat /\ p >= 1 /\ p <= count + 1 /\ pos \in [Msg -> Nat]
      /\ \A x \in Committed : pos[x] \in 1 .. count
      /\ \A i \in 1 .. count : \E x \in Committed : pos[x] = i
      /\ \A x, y \in Committed : pos[x] = pos[y] => x = y
      /\ m \notin Committed
  <2>1. count \in Nat /\ pos \in [Msg -> Nat] /\ {pos[x] : x \in Committed} = 1 .. count
    BY DEF Inv, TypeOK
  <2>2. \A x \in Committed : pos[x] \in {pos[y] : y \in Committed}
    OBVIOUS
  <2>3. \A i \in {pos[y] : y \in Committed} : \E x \in Committed : pos[x] = i
    OBVIOUS
  <2>4. m \notin Committed
    BY <2>1 DEF Committed
  <2>5. \A x, y \in Committed : pos[x] = pos[y] => x = y
    BY DEF Inv, TypeOK
  <2>6. p \in Nat /\ p >= 1 /\ p <= count + 1
    BY <2>1
  <2> QED
    BY <2>1, <2>2, <2>3, <2>4, <2>5, <2>6
<1>2. Committed' = Committed \cup {m}
  BY <1>1 DEF Committed
<1>3. /\ pos'[m] = p
      /\ \A x \in Committed : pos'[x] = IF pos[x] >= p THEN pos[x] + 1 ELSE pos[x]
  BY <1>1 DEF Committed
<1>4. \A x \in Committed' : pos'[x] \in 1 .. count'
  BY <1>1, <1>2, <1>3
<1>5. ASSUME NEW i \in 1 .. count' PROVE \E x \in Committed' : pos'[x] = i
  <2>1. CASE i = p
    BY <2>1, <1>2, <1>3
  <2>2. CASE i < p
    BY <2>2, <1>1, <1>2, <1>3
  <2>3. CASE i > p
    <3>1. PICK x \in Committed : pos[x] = i - 1
      BY <2>3, <1>1
    <3> QED
      BY <2>3, <3>1, <1>1, <1>2, <1>3
  <2> QED
    BY <1>1, <2>1, <2>2, <2>3
<1>6. \A x, y \in Committed' : pos'[x] = pos'[y] => x = y
  BY <1>1, <1>2, <1>3
<1>7. {pos'[x] : x \in Committed'} = 1 .. count'
  BY <1>4, <1>5
<1> QED
  BY <1>1, <1>3, <1>6, <1>7

LEMMA InvStep == Inv /\ [Next]_vars => Inv'
<1> SUFFICES ASSUME Inv, [Next]_vars PROVE Inv'
  OBVIOUS
<1> USE PagingAssumption
<1>1. CASE UNCHANGED vars
  BY <1>1 DEF vars, readVars, Inv, TypeOK, Ahead, Complete, Committed
<1>2. ASSUME NEW m \in Msg, Commit(m) PROVE Inv'
  <2>1. TypeOK' /\ \A x \in Committed : pos'[x] >= pos[x]
    BY <1>2, Places DEF Commit, readVars, Inv, TypeOK
  <2>2. \A x \in start : x \in Committed
    BY DEF Inv, TypeOK, Ahead, Committed
  <2>3. Ahead'
    BY <1>2, <2>1, <2>2 DEF Commit, readVars, Inv, TypeOK, Ahead
  <2> QED
    BY <1>2, <2>1, <2>3 DEF Commit, readVars, Inv, Complete
<1>3. CASE Begin
  BY <1>3 DEF Begin, Inv, TypeOK, Ahead, Complete, Committed
<1>4. CASE Count \/ Refuse \/ Fail
  BY <1>4 DEF Count, Refuse, Fail, Inv, TypeOK, Ahead, Complete, Committed
<1>5. CASE Rows
  <2>1. Cardinality(Page) \in Nat
    BY FS_Subset, FS_CardinalityType DEF Page
  <2>2. TypeOK'
    BY <1>5, <2>1 DEF Rows, HasNext, Page, Inv, TypeOK, Committed
  <2>3. Ahead'
    BY <1>5 DEF Rows, HasNext, Page, Inv, TypeOK, Ahead
  <2>4. \A m \in Msg : pos[m] <= count
    BY DEF Inv, TypeOK, Committed
  <2>5. ASSUME pc' = "ended", calm', NEW m \in start' PROVE m \in got'
    <3>1. count = total
      BY <1>5, <2>5 DEF Rows
    <3>2. m \in start /\ m \in Msg /\ pc = "counted" /\ got' = got \cup Page /\ ~(offset + Size < total)
      BY <1>5, <2>5 DEF Rows, HasNext, Inv, TypeOK
    <3>3. m \in got \/ m \in Page
      BY <2>4, <3>1, <3>2 DEF Page, Inv, TypeOK, Ahead
    <3> QED
      BY <3>2, <3>3
  <2> QED
    BY <2>2, <2>3, <2>5 DEF Inv, Complete
<1> QED
  BY <1>1, <1>2, <1>3, <1>4, <1>5 DEF Next

LEMMA InvAlways == Spec => []Inv
BY InvInit, InvStep, PTL DEF Spec

(* Types, and that the list has every place up to the number of messages    *)
(* exactly once, wherever they come in.                                     *)
THEOREM PagingTyped == Spec => []TypeOK
<1>1. Inv => TypeOK
  BY DEF Inv
<1> QED
  BY <1>1, InvAlways, PTL

(* For every page size and number of messages, a walk to the last page      *)
(* misses none that was there when it began, unless one came between the    *)
(* last count and its rows.                                                 *)
THEOREM WalkComplete == Spec => []Complete
<1>1. Inv => Complete
  BY DEF Inv
<1> QED
  BY <1>1, InvAlways, PTL

(* has_next announces only pages that have messages.                        *)
THEOREM AnnouncedPageHasMessages == Spec => []NextHasMessages
<1>1. ASSUME Inv, pc \in {"asks", "counted"}, offset > 0 PROVE \E m \in Msg : pos[m] > offset
  <2>1. count \in 1 .. count /\ offset < count
    BY <1>1 DEF Inv, TypeOK, Ahead
  <2>2. PICK m \in Committed : pos[m] = count
    BY <1>1, <2>1 DEF Inv, TypeOK
  <2> QED
    BY <2>1, <2>2 DEF Committed
<1>2. Inv => NextHasMessages
  BY <1>1 DEF NextHasMessages
<1> QED
  BY <1>2, InvAlways, PTL

-----------------------------------------------------------------------------
(* Repetitions.  The first k messages of the list are k messages.           *)

Prefix(k) == {m \in Committed : pos[m] <= k}

LEMMA PrefixSize ==
  ASSUME TypeOK, NEW k \in Nat, k <= count
  PROVE  IsFiniteSet(Prefix(k)) /\ Cardinality(Prefix(k)) = k
<1> DEFINE f == [m \in Prefix(k) |-> pos[m]]
<1>1. /\ count \in Nat
      /\ \A m \in Committed : pos[m] \in 1 .. count
      /\ \A i \in 1 .. count : \E m \in Committed : pos[m] = i
      /\ \A m, n \in Committed : pos[m] = pos[n] => m = n
  <2>1. count \in Nat /\ {pos[m] : m \in Committed} = 1 .. count
    BY DEF TypeOK
  <2>2. \A m \in Committed : pos[m] \in {pos[n] : n \in Committed}
    OBVIOUS
  <2>3. \A i \in {pos[n] : n \in Committed} : \E m \in Committed : pos[m] = i
    OBVIOUS
  <2> QED
    BY <2>1, <2>2, <2>3 DEF TypeOK
<1>2. f \in [Prefix(k) -> 1 .. k]
  BY <1>1 DEF Prefix
<1>3. \A m, n \in Prefix(k) : f[m] = f[n] => m = n
  BY <1>1 DEF Prefix
<1>4. \A i \in 1 .. k : \E m \in Prefix(k) : f[m] = i
  BY <1>1 DEF Prefix
<1>5. f \in Injection(Prefix(k), 1 .. k) /\ f \in Surjection(Prefix(k), 1 .. k)
  BY <1>2, <1>3, <1>4 DEF Injection, IsInjective, Surjection
<1>6. IsFiniteSet(1 .. k) /\ Cardinality(1 .. k) = k
  BY FS_Interval
<1> QED
  BY <1>5, <1>6, FS_Injection

\* A page that is not past the end of the list is what a longer prefix has
\* more than a shorter one.
LEMMA PageSize ==
  ASSUME TypeOK, NEW k \in Nat, offset <= k, k <= count,
         NEW P \in SUBSET Committed,
         \A m \in Committed : m \in P <=> offset < pos[m] /\ pos[m] <= k
  PROVE  Cardinality(P) = k - offset
<1>1. /\ IsFiniteSet(Prefix(offset)) /\ Cardinality(Prefix(offset)) = offset
      /\ IsFiniteSet(Prefix(k)) /\ Cardinality(Prefix(k)) = k
      /\ offset \in Nat
  BY PrefixSize DEF TypeOK
<1>2. Prefix(offset) \cup P = Prefix(k) /\ Prefix(offset) \cap P = {}
  BY DEF Prefix, Committed, TypeOK
<1>3. IsFiniteSet(P) /\ Cardinality(P) \in Nat
  BY <1>1, <1>2, FS_Subset, FS_CardinalityType
<1>4. Cardinality(Prefix(offset) \cup P)
        = Cardinality(Prefix(offset)) + Cardinality(P) - Cardinality(Prefix(offset) \cap P)
  BY <1>1, <1>3, FS_Union
<1>5. Cardinality(Prefix(offset) \cap P) = 0
  BY <1>2, FS_EmptySet
<1>6. k = offset + Cardinality(P) - 0
  BY <1>1, <1>2, <1>4, <1>5
<1> QED
  BY <1>1, <1>3, <1>6

\* Of the first k messages the reader has those that were there when it
\* began; the others are arrivals.
LEMMA FewRepeats ==
  ASSUME TypeOK, NEW k \in Nat, k <= count, start \subseteq Committed,
         NEW G \in SUBSET Msg, Prefix(k) \cap start \subseteq G
  PROVE  k - Cardinality(G) <= count - Cardinality(start)
<1>1. /\ IsFiniteSet(Prefix(k)) /\ Cardinality(Prefix(k)) = k
      /\ IsFiniteSet(Prefix(count)) /\ Cardinality(Prefix(count)) = count
      /\ count \in Nat
  BY PrefixSize DEF TypeOK
<1>2. Prefix(count) = Committed
  BY DEF Prefix, Committed, TypeOK
<1>3. /\ IsFiniteSet(start) /\ Cardinality(start) \in Nat
      /\ IsFiniteSet(G) /\ Cardinality(G) \in Nat
  BY PagingAssumption, FS_Subset, FS_CardinalityType DEF TypeOK
<1>4. /\ Cardinality(Prefix(k) \cup start) \in Nat
      /\ Cardinality(Prefix(k) \cup start) <= count
  BY <1>1, <1>2, FS_Subset, FS_CardinalityType DEF Prefix
<1>5. /\ Cardinality(Prefix(k) \cap start) \in Nat
      /\ Cardinality(Prefix(k) \cap start) <= Cardinality(G)
  BY <1>3, FS_Subset, FS_CardinalityType
<1>6. Cardinality(Prefix(k) \cup start) = k + Cardinality(start) - Cardinality(Prefix(k) \cap start)
  BY <1>1, <1>3, FS_Union
<1> QED
  BY <1>1, <1>3, <1>4, <1>5, <1>6

\* Between its pages the reader was sent as many items as it skips.
Sent == pc \in {"out", "asks", "counted"} => reads = offset

LEMMA RowsRepeat ==
  ASSUME Inv, Inv', Sent, Rows
  PROVE  Sent' /\ RepeatsAreArrivals'
<1>1. /\ pc = "counted" /\ reads = offset /\ offset \in Nat /\ count \in Nat /\ total \in Nat
      /\ total <= count /\ (offset > 0 => offset < count) /\ offset <= count
      /\ Size \in Nat \ {0}
  BY PagingAssumption DEF Rows, Inv, TypeOK, Ahead, Sent
<1> DEFINE k == IF offset + Size <= count THEN offset + Size ELSE count
<1>2. k \in Nat /\ offset <= k /\ k <= count
  BY <1>1
<1>3. \A m \in Committed : pos[m] \in Nat /\ pos[m] <= count
  BY <1>1 DEF Inv, TypeOK, Committed
<1>4. Page = {m \in Committed : offset < pos[m] /\ pos[m] <= k}
  BY <1>1, <1>3 DEF Page, Committed, Inv, TypeOK
<1>5. Cardinality(Page) = k - offset
  <2>1. /\ Page \in SUBSET Committed
        /\ \A m \in Committed : m \in Page <=> offset < pos[m] /\ pos[m] <= k
    BY <1>4
  <2> QED
    BY <1>1, <1>2, <2>1, PageSize DEF Inv
<1>6. reads' = k /\ UNCHANGED <<pos, count, start>> /\ got' = got \cup Page
  BY <1>1, <1>2, <1>5 DEF Rows
<1>7. Sent'
  BY <1>1, <1>6 DEF Rows, HasNext, Sent
<1>8. start \subseteq Committed /\ got' \in SUBSET Msg
  BY DEF Inv, TypeOK, Ahead, Committed
<1>9. Prefix(k) \cap start \subseteq got'
  BY <1>1, <1>2, <1>3, <1>4, <1>6 DEF Prefix, Inv, Ahead, TypeOK, Committed
<1>10. k - Cardinality(got') <= count - Cardinality(start)
  BY <1>2, <1>8, <1>9, FewRepeats DEF Inv
<1> QED
  BY <1>6, <1>7, <1>10 DEF RepeatsAreArrivals

LEMMA RepeatStep ==
  Inv /\ Inv' /\ Sent /\ RepeatsAreArrivals /\ [Next]_vars => Sent' /\ RepeatsAreArrivals'
<1> SUFFICES ASSUME Inv, Inv', Sent, RepeatsAreArrivals, [Next]_vars
             PROVE  Sent' /\ RepeatsAreArrivals'
  OBVIOUS
<1>0. /\ count \in Nat /\ reads \in Nat
      /\ IsFiniteSet(start) /\ Cardinality(start) \in Nat
      /\ IsFiniteSet(got) /\ Cardinality(got) \in Nat
  BY PagingAssumption, FS_Subset, FS_CardinalityType DEF Inv, TypeOK
<1>1. CASE UNCHANGED vars
  BY <1>1 DEF vars, readVars, Sent, RepeatsAreArrivals
<1>2. ASSUME NEW m \in Msg, Commit(m) PROVE Sent' /\ RepeatsAreArrivals'
  <2>1. count' = count + 1 /\ UNCHANGED readVars
    BY <1>2 DEF Commit
  <2> QED
    BY <1>0, <2>1 DEF readVars, Sent, RepeatsAreArrivals
<1>3. CASE Begin
  <2>1. /\ pc = "out" /\ reads = 0 /\ offset = 0 /\ start' = Committed
        /\ UNCHANGED <<pos, count, offset, reads, got>>
    BY <1>3 DEF Begin, Sent, Inv, Ahead
  <2>2. Cardinality(start') = count
    <3>1. Prefix(count) = Committed
      BY DEF Prefix, Committed, Inv, TypeOK
    <3> QED
      BY <1>0, <2>1, <3>1, PrefixSize DEF Inv
  <2> QED
    BY <1>0, <2>1, <2>2 DEF Sent, RepeatsAreArrivals
<1>4. CASE Count \/ Refuse \/ Fail
  BY <1>4 DEF Count, Refuse, Fail, Sent, RepeatsAreArrivals
<1> QED
  BY <1>1, <1>2, <1>3, <1>4, RowsRepeat DEF Next

(* For every page size and number of messages, a walk repeats no more       *)
(* messages than came in since it began.                                    *)
THEOREM RepetitionsBounded == Spec => []RepeatsAreArrivals
<1>1. Init => Sent /\ RepeatsAreArrivals
  BY FS_EmptySet DEF Init, Sent, RepeatsAreArrivals
<1> QED
  BY <1>1, RepeatStep, InvAlways, PTL DEF Spec
=============================================================================
