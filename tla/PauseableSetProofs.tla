--------------------------- MODULE PauseableSetProofs ---------------------------
(***************************************************************************)
(* What each mutator of a PauseableSet keeps and changes, for any set of   *)
(* addresses and any timestamps.                                           *)
(***************************************************************************)
EXTENDS PauseableSet, TLAPS

-------------------------------------------------------------------------------
Distinct(seq) ==
    \A i, j \in DOMAIN seq : seq[i] = seq[j] => i = j

Elements(seq) == {seq[i] : i \in DOMAIN seq}

(* Appending an absent element keeps the array free of duplicates and adds *)
(* exactly that element.                                                   *)
LEMMA AppendFacts ==
    ASSUME NEW S, NEW seq \in Seq(S), NEW a \in S, Distinct(seq),
           a \notin Elements(seq)
    PROVE  /\ Append(seq, a) \in Seq(S)
           /\ Distinct(Append(seq, a))
           /\ Elements(Append(seq, a)) = Elements(seq) \cup {a}
<1>1. /\ Append(seq, a) \in Seq(S)
      /\ Len(seq) \in Nat
      /\ DOMAIN seq = 1 .. Len(seq)
      /\ DOMAIN Append(seq, a) = 1 .. Len(seq) + 1
      /\ \A i \in 1 .. Len(seq) : Append(seq, a)[i] = seq[i]
      /\ Append(seq, a)[Len(seq) + 1] = a
  OBVIOUS
<1>2. \A i \in 1 .. Len(seq) : seq[i] # a
  BY <1>1 DEF Elements
<1>3. Distinct(Append(seq, a))
  BY <1>1, <1>2 DEF Distinct
<1>4. Elements(Append(seq, a)) = Elements(seq) \cup {a}
  <2>1. 1 .. Len(seq) + 1 = (1 .. Len(seq)) \cup {Len(seq) + 1}
    BY <1>1
  <2> QED
    BY <1>1, <2>1, Zenon DEF Elements
<1> QED
  BY <1>1, <1>3, <1>4

(* Swap-and-pop keeps the array free of duplicates and removes exactly the *)
(* element it is asked to.                                                 *)
LEMMA SwapPopFacts ==
    ASSUME NEW S, NEW seq \in Seq(S), NEW a \in Elements(seq), Distinct(seq)
    PROVE  /\ SwapPop(seq, a) \in Seq(S)
           /\ Distinct(SwapPop(seq, a))
           /\ Elements(SwapPop(seq, a)) = Elements(seq) \ {a}
<1> DEFINE n == Len(seq)
           popped == SwapPop(seq, a)
<1>1. /\ n \in Nat
      /\ DOMAIN seq = 1 .. n
      /\ \A i \in 1 .. n : seq[i] \in S
  OBVIOUS
<1>2. PICK k \in 1 .. n : seq[k] = a
  BY <1>1 DEF Elements
<1>3. popped = [i \in 1 .. n - 1 |-> IF seq[i] = a THEN seq[n] ELSE seq[i]]
  BY DEF SwapPop
<1> HIDE DEF n, popped
<1>4. n - 1 \in Nat /\ n \in 1 .. n /\ \A i \in 1 .. n - 1 : i \in 1 .. n /\ i # n
  BY <1>1, <1>2
<1>5. popped \in Seq(S)
  <2>1. \A i \in 1 .. n - 1 : (IF seq[i] = a THEN seq[n] ELSE seq[i]) \in S
    BY <1>1, <1>4
  <2> QED
    BY <1>3, <1>4, <2>1
<1>6. \A i \in 1 .. n : seq[i] = a => i = k
  BY <1>1, <1>2 DEF Distinct
<1>7. /\ DOMAIN popped = 1 .. n - 1
      /\ \A i \in 1 .. n - 1 : popped[i] = IF i = k THEN seq[n] ELSE seq[i]
  BY <1>2, <1>3, <1>4, <1>6
<1>8. Distinct(popped)
  <2> SUFFICES ASSUME NEW i \in 1 .. n - 1, NEW j \in 1 .. n - 1,
                      popped[i] = popped[j]
               PROVE  i = j
    BY <1>7 DEF Distinct
  <2>1. \A x, y \in 1 .. n : seq[x] = seq[y] => x = y
    BY <1>1 DEF Distinct
  <2> QED
    BY <1>4, <1>7, <2>1
<1>9. Elements(popped) = Elements(seq) \ {a}
  <2>1. ASSUME NEW x \in Elements(popped) PROVE x \in Elements(seq) \ {a}
    <3>1. PICK i \in 1 .. n - 1 : x = popped[i]
      BY <1>7 DEF Elements
    <3>2. PICK j \in 1 .. n : x = seq[j] /\ j # k
      BY <1>2, <1>4, <1>7, <3>1
    <3> QED
      BY <1>1, <1>6, <3>2 DEF Elements
  <2>2. ASSUME NEW x \in Elements(seq) \ {a} PROVE x \in Elements(popped)
    <3>1. PICK j \in 1 .. n : x = seq[j] /\ j # k
      BY <1>1, <1>2 DEF Elements
    <3>2. PICK i \in 1 .. n - 1 : popped[i] = x
      <4>1. CASE j = n
        BY <1>1, <1>2, <1>7, <3>1, <4>1
      <4>2. CASE j # n
        BY <1>1, <1>7, <3>1, <4>2
      <4> QED
        BY <4>1, <4>2
    <3> QED
      BY <1>7, <3>2 DEF Elements
  <2> QED
    BY <2>1, <2>2
<1> QED
  BY <1>5, <1>8, <1>9 DEF popped

(* Membership in the set, said of the array's elements.                    *)
LEMMA ContainsElements ==
    ASSUME NEW set, NEW a
    PROVE  Contains(set, a) <=> a \in Elements(set.order)
BY Zenon DEF Contains, Elements

-------------------------------------------------------------------------------
(* The state a set is always in: no element twice, nothing kept of an      *)
(* address that is not in it.                                              *)
SetOf(S) == [order : Seq(S), status : [S -> Status]]

WellFormed(S, set) ==
    /\ set \in SetOf(S)
    /\ Distinct(set.order)
    /\ \A a \in S : ~Contains(set, a) => set.status[a] = ZeroStatus

(* The empty set is well formed and contains nothing.                      *)
LEMMA EmptySetFacts ==
    ASSUME NEW S
    PROVE  /\ WellFormed(S, EmptySet(S))
           /\ \A a \in S : ~Contains(EmptySet(S), a)
<1>1. << >> \in Seq(S) /\ DOMAIN << >> = {}
  OBVIOUS
<1> QED
  BY <1>1 DEF WellFormed, SetOf, EmptySet, Distinct, Contains, Status, ZeroStatus

(* register adds one element, enabled at the timestamp given.              *)
LEMMA RegisterFacts ==
    ASSUME NEW S, NEW set, NEW ts \in Nat, NEW a \in S,
           WellFormed(S, set), CanRegister(set, a)
    PROVE  LET new == Register(set, ts, a) IN
           /\ WellFormed(S, new)
           /\ \A b \in S : Contains(new, b) <=> (b = a \/ Contains(set, b))
           /\ new.status[a] = [enabled |-> ts, disabled |-> 0]
           /\ \A b \in S \ {a} : new.status[b] = set.status[b]
<1> DEFINE new == Register(set, ts, a)
<1>1. /\ set.order \in Seq(S) /\ set.status \in [S -> Status]
      /\ Distinct(set.order)
  BY DEF WellFormed, SetOf
<1>2. a \notin Elements(set.order)
  BY ContainsElements DEF CanRegister
<1>3. /\ new.order = Append(set.order, a)
      /\ new.status = [set.status EXCEPT ![a] = [enabled |-> ts, disabled |-> 0]]
      /\ new = [order |-> new.order, status |-> new.status]
  BY DEF Register
<1> HIDE DEF new
<1>4. /\ new.order \in Seq(S)
      /\ Distinct(new.order)
      /\ Elements(new.order) = Elements(set.order) \cup {a}
  BY <1>1, <1>2, <1>3, AppendFacts
<1>5. \A b \in S : Contains(new, b) <=> (b = a \/ Contains(set, b))
  BY <1>4, ContainsElements
<1>6. /\ new.status \in [S -> Status]
      /\ new.status[a] = [enabled |-> ts, disabled |-> 0]
      /\ \A b \in S \ {a} : new.status[b] = set.status[b]
  BY <1>1, <1>3 DEF Status
<1>7. new \in SetOf(S)
  BY <1>3, <1>4, <1>6 DEF SetOf
<1>8. \A b \in S : ~Contains(new, b) => new.status[b] = ZeroStatus
  BY <1>5, <1>6 DEF WellFormed
<1> QED
  BY <1>4, <1>5, <1>6, <1>7, <1>8 DEF WellFormed, new

(* pause sets the disabled time of one element and moves none.             *)
LEMMA PauseFacts ==
    ASSUME NEW S, NEW set, NEW ts \in Nat, NEW a \in S,
           WellFormed(S, set), CanPause(set, a)
    PROVE  LET new == Pause(set, ts, a) IN
           /\ WellFormed(S, new)
           /\ \A b \in S : Contains(new, b) <=> Contains(set, b)
           /\ new.status[a] = [enabled |-> set.status[a].enabled, disabled |-> ts]
           /\ \A b \in S \ {a} : new.status[b] = set.status[b]
<1> DEFINE new == Pause(set, ts, a)
<1>1. set \in SetOf(S) /\ Contains(set, a)
  BY DEF WellFormed, CanPause
<1>2. /\ new \in SetOf(S)
      /\ new.order = set.order
      /\ new.status[a] = [enabled |-> set.status[a].enabled, disabled |-> ts]
      /\ \A b \in S \ {a} : new.status[b] = set.status[b]
  <2>1. set.order \in Seq(S) /\ set.status \in [S -> Status]
    BY <1>1 DEF SetOf
  <2>2. /\ [set.status[a] EXCEPT !.disabled = ts]
              = [enabled |-> set.status[a].enabled, disabled |-> ts]
        /\ [set.status[a] EXCEPT !.disabled = ts] \in Status
    BY <2>1 DEF Status
  <2>3. new = [order  |-> set.order,
               status |-> [set.status EXCEPT ![a] =
                              [set.status[a] EXCEPT !.disabled = ts]]]
    BY <1>1 DEF SetOf, Pause
  <2> QED
    BY <2>1, <2>2, <2>3 DEF SetOf
<1> HIDE DEF new
<1>3. \A b \in S : Contains(new, b) <=> Contains(set, b)
  BY <1>2 DEF Contains
<1>4. \A b \in S : ~Contains(new, b) => new.status[b] = ZeroStatus
  BY <1>1, <1>2, <1>3 DEF WellFormed
<1> QED
  BY <1>2, <1>3, <1>4 DEF WellFormed, new

(* unpause enables one element afresh and moves none.                      *)
LEMMA UnpauseFacts ==
    ASSUME NEW S, NEW set, NEW ts \in Nat, NEW a \in S,
           WellFormed(S, set), Contains(set, a)
    PROVE  LET new == Unpause(set, ts, a) IN
           /\ WellFormed(S, new)
           /\ \A b \in S : Contains(new, b) <=> Contains(set, b)
           /\ new.status[a] = [enabled |-> ts, disabled |-> 0]
           /\ \A b \in S \ {a} : new.status[b] = set.status[b]
<1> DEFINE new == Unpause(set, ts, a)
<1>1. set \in SetOf(S)
  BY DEF WellFormed
<1>2. /\ new \in SetOf(S)
      /\ new.order = set.order
      /\ new.status[a] = [enabled |-> ts, disabled |-> 0]
      /\ \A b \in S \ {a} : new.status[b] = set.status[b]
  BY <1>1 DEF SetOf, Unpause, Status
<1> HIDE DEF new
<1>3. \A b \in S : Contains(new, b) <=> Contains(set, b)
  BY <1>2 DEF Contains
<1>4. \A b \in S : ~Contains(new, b) => new.status[b] = ZeroStatus
  BY <1>1, <1>2, <1>3 DEF WellFormed
<1> QED
  BY <1>2, <1>3, <1>4 DEF WellFormed, new

(* unregister removes one element and forgets its timestamps.              *)
LEMMA UnregisterFacts ==
    ASSUME NEW S, NEW set, NEW a \in S, WellFormed(S, set), Contains(set, a)
    PROVE  LET new == Unregister(set, a) IN
           /\ WellFormed(S, new)
           /\ \A b \in S : Contains(new, b) <=> (b # a /\ Contains(set, b))
           /\ \A b \in S \ {a} : new.status[b] = set.status[b]
<1> DEFINE new == Unregister(set, a)
<1>1. /\ set.order \in Seq(S) /\ set.status \in [S -> Status]
      /\ Distinct(set.order)
  BY DEF WellFormed, SetOf
<1>2. a \in Elements(set.order)
  BY ContainsElements
<1>3. /\ new.order = SwapPop(set.order, a)
      /\ new.status = [set.status EXCEPT ![a] = ZeroStatus]
      /\ new = [order |-> new.order, status |-> new.status]
  BY DEF Unregister
<1> HIDE DEF new
<1>4. /\ new.order \in Seq(S)
      /\ Distinct(new.order)
      /\ Elements(new.order) = Elements(set.order) \ {a}
  BY <1>1, <1>2, <1>3, SwapPopFacts
<1>5. \A b \in S : Contains(new, b) <=> (b # a /\ Contains(set, b))
  BY <1>4, ContainsElements
<1>6. /\ new.status \in [S -> Status]
      /\ new.status[a] = ZeroStatus
      /\ \A b \in S \ {a} : new.status[b] = set.status[b]
  BY <1>1, <1>3 DEF Status, ZeroStatus
<1>7. new \in SetOf(S)
  BY <1>3, <1>4, <1>6 DEF SetOf
<1>8. \A b \in S : ~Contains(new, b) => new.status[b] = ZeroStatus
  BY <1>5, <1>6 DEF WellFormed
<1> QED
  BY <1>4, <1>5, <1>6, <1>7, <1>8 DEF WellFormed, new
===============================================================================
