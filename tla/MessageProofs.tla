---------------------------- MODULE MessageProofs ----------------------------
(***************************************************************************)
(* Proofs about Messages, for any strings, users and commands: what one    *)
(* side writes is what the other reads, and every list arrives.            *)
(*                                                                         *)
(* The invariant MessageInv says which fields lie where in the buffer      *)
(* (Laid) and which the reader still waits for (Awaits).  That every       *)
(* message is one its receiver understands (Meant) is proved of each       *)
(* sender.                                                                 *)
(***************************************************************************)
EXTENDS Messages, DatapacketProofs

\* The recursion of FoldLeft in Sorted.
Put(stacks, u, online) ==
    IF u \in online THEN [stacks EXCEPT !.on = vstack_push(@, u)]
    ELSE [stacks EXCEPT !.off = vstack_push(@, u)]

TwoStacks == [on |-> vstack_create, off |-> vstack_create]

SortStep(g, seq, online, s) ==
    IF s = {} THEN TwoStacks ELSE Put(g[s \ {Max(s)}], seq[Max(s)], online)

IsSortTable(g, seq, online, D) == g = [s \in SUBSET D |-> SortStep(g, seq, online, s)]

LEMMA SortTableExists ==
    ASSUME NEW seq, NEW online
    PROVE  \A n \in Nat : \E g : IsSortTable(g, seq, online, 1 .. n)
<1> DEFINE S == {n \in Nat : \E g : IsSortTable(g, seq, online, 1 .. n)}
<1>1. 0 \in S
  <2>1. 1 .. 0 = {} /\ SUBSET {} = {{}}
    OBVIOUS
  <2> DEFINE g == [s \in {{}} |-> TwoStacks]
  <2>2. g = [s \in {{}} |-> SortStep(g, seq, online, s)]
    BY DEF SortStep
  <2>3. IsSortTable(g, seq, online, 1 .. 0)
    <3> HIDE DEF g
    <3> QED
      BY <2>1, <2>2 DEF IsSortTable
  <2> QED
    BY <2>3
<1>2. ASSUME NEW n \in Nat, n \in S PROVE n + 1 \in S
  <2>1. PICK g : IsSortTable(g, seq, online, 1 .. n)
    BY <1>2
  <2> DEFINE h == [s \in SUBSET (1 .. n + 1) |->
                     IF n + 1 \in s THEN Put(g[s \ {n + 1}], seq[n + 1], online) ELSE g[s]]
  <2>2. \A s \in SUBSET (1 .. n) : g[s] = SortStep(g, seq, online, s)
    BY <2>1 DEF IsSortTable
  <2>3. \A s \in SUBSET (1 .. n) : s \in SUBSET (1 .. n + 1) /\ n + 1 \notin s /\ h[s] = g[s]
    OBVIOUS
  <2>4. ASSUME NEW s \in SUBSET (1 .. n + 1) PROVE h[s] = SortStep(h, seq, online, s)
    <3>1. CASE n + 1 \in s
      <4>1. Max(s) = n + 1
        BY <3>1, MaxOfInterval
      <4>2. s \ {n + 1} \in SUBSET (1 .. n)
        OBVIOUS
      <4>3. h[s] = Put(h[s \ {n + 1}], seq[n + 1], online)
        BY <2>3, <3>1, <4>2
      <4> HIDE DEF h
      <4> QED
        BY <3>1, <4>1, <4>3 DEF SortStep
    <3>2. CASE n + 1 \notin s
      <4> DEFINE m == Max(s)
      <4>1. s \in SUBSET (1 .. n) /\ s \ {m} \in SUBSET (1 .. n)
        <5> HIDE DEF m
        <5>1. s \in SUBSET (1 .. n)
          BY <3>2
        <5> QED
          BY <5>1
      <4>2. h[s] = g[s] /\ h[s \ {Max(s)}] = g[s \ {Max(s)}]
        BY <2>3, <4>1
      <4> HIDE DEF h
      <4> QED
        BY <2>2, <4>1, <4>2 DEF SortStep
    <3> QED
      BY <3>1, <3>2
  <2>5. h = [s \in SUBSET (1 .. n + 1) |-> h[s]]
    OBVIOUS
  <2> HIDE DEF h
  <2>6. IsSortTable(h, seq, online, 1 .. n + 1)
    BY <2>4, <2>5 DEF IsSortTable
  <2> QED
    BY <2>6
<1> HIDE DEF S
<1>3. Nat \subseteq S
  BY <1>1, <1>2, SetInduction
<1> QED
  BY <1>3 DEF S

\* Sorted is where the loop that takes one friend after the other gets to.
LEMMA SortRun ==
    ASSUME NEW S, NEW friends, NEW online, NEW seq \in Seq(S), seq = Popped(Pushed(friends))
    PROVE  \E t : /\ t[0] = TwoStacks
                  /\ \A k \in 1 .. Len(seq) : t[k] = Put(t[k - 1], seq[k], online)
                  /\ Sorted(friends, online) = t[Len(seq)]
<1> DEFINE n == Len(seq)
           g == CHOOSE g : IsSortTable(g, seq, online, 1 .. n)
           t == [k \in 0 .. n |-> g[1 .. k]]
<1>1. n \in Nat /\ DOMAIN seq = 1 .. n
  OBVIOUS
<1>2. Sorted(friends, online) = g[1 .. n]
  BY <1>1 DEF Sorted, FoldLeft, MapThenFoldSet, IsSortTable, SortStep, Put, TwoStacks
<1>3. IsSortTable(g, seq, online, 1 .. n)
  BY <1>1, SortTableExists
<1> HIDE DEF g, n
<1>4. \A s \in SUBSET (1 .. n) : g[s] = SortStep(g, seq, online, s)
  BY <1>3 DEF IsSortTable
<1>5. t[0] = TwoStacks
  <2>1. 1 .. 0 = {} /\ t[0] = g[1 .. 0]
    BY <1>1
  <2> QED
    BY <1>4, <2>1 DEF SortStep
<1>6. ASSUME NEW k \in 1 .. n PROVE t[k] = Put(t[k - 1], seq[k], online)
  <2>1. k - 1 \in Nat /\ (k - 1) + 1 = k /\ k \in 1 .. k /\ 1 .. k \in SUBSET (1 .. n)
    BY <1>1
  <2>2. Max(1 .. k) = k
    BY <2>1, MaxOfInterval
  <2>3. (1 .. k) \ {k} = 1 .. k - 1 /\ 1 .. k # {}
    BY <2>1, IntervalLast
  <2>4. t[k] = g[1 .. k] /\ t[k - 1] = g[1 .. k - 1]
    BY <1>1
  <2> QED
    BY <1>4, <2>1, <2>2, <2>3, <2>4 DEF SortStep
<1>7. Sorted(friends, online) = t[n]
  BY <1>1, <1>2
<1> QED
  BY <1>5, <1>6, <1>7 DEF n

\* A stack with every element of S, once.
HoldsAll(s, S) == \E seq : StackOf(s, seq) /\ ListsAll(seq, S)

LEMMA NoneYet == HoldsAll(vstack_create, {})
BY EmptyStack, EmptyList DEF HoldsAll

LEMMA PushNew ==
    ASSUME NEW s, NEW S, HoldsAll(s, S), NEW x, x \notin S
    PROVE  HoldsAll(vstack_push(s, x), S \union {x})
<1>1. PICK seq : StackOf(s, seq) /\ ListsAll(seq, S)
  BY DEF HoldsAll
<1>2. seq \in Seq(S \union {x})
  BY <1>1 DEF ListsAll
<1>3. StackOf(vstack_push(s, x), Append(seq, x))
  BY <1>1, <1>2, PushOne
<1>4. ListsAll(Append(seq, x), S \union {x})
  BY <1>1, ListOneMore
<1> QED
  BY <1>3, <1>4 DEF HoldsAll

LEMMA PopAll ==
    ASSUME NEW s, NEW S, HoldsAll(s, S)
    PROVE  ListsAll(Popped(s), S)
<1>1. PICK seq : StackOf(s, seq) /\ ListsAll(seq, S)
  BY DEF HoldsAll
<1>2. Popped(s) = Reverse(seq)
  BY <1>1 DEF StackOf, Popped
<1> QED
  BY <1>1, <1>2, ListReversed

LEMMA PushedThenPopped ==
    ASSUME NEW S, NEW seq, ListsAll(seq, S)
    PROVE  ListsAll(Popped(Pushed(seq)), S)
<1>1. StackOf(Pushed(seq), seq)
  BY PushedAll DEF ListsAll
<1>2. HoldsAll(Pushed(seq), S)
  BY <1>1 DEF HoldsAll
<1> QED
  BY <1>2, PopAll

\* The friends that were taken so far are on the stack they belong on.
TwoLists(stacks, A, online) ==
    /\ stacks = [on |-> stacks.on, off |-> stacks.off]
    /\ HoldsAll(stacks.on, A \intersect online)
    /\ HoldsAll(stacks.off, A \ online)

LEMMA PutNew ==
    ASSUME NEW stacks, NEW A, NEW online, TwoLists(stacks, A, online), NEW u, u \notin A
    PROVE  TwoLists(Put(stacks, u, online), A \union {u}, online)
<1> DEFINE on == stacks.on
           off == stacks.off
           new == Put(stacks, u, online)
<1>1. stacks = [on |-> on, off |-> off]
  BY DEF TwoLists
<1>2. HoldsAll(on, A \intersect online) /\ HoldsAll(off, A \ online)
  BY DEF TwoLists
<1> HIDE DEF on, off
<1>3. CASE u \in online
  <2> DEFINE more == vstack_push(on, u)
  <2>1. new = [on |-> more, off |-> off]
    BY <1>1, <1>3 DEF Put
  <2>2. (A \union {u}) \intersect online = (A \intersect online) \union {u}
    BY <1>3
  <2>3. (A \union {u}) \ online = A \ online
    BY <1>3
  <2>4. HoldsAll(more, (A \intersect online) \union {u})
    BY <1>2, PushNew
  <2> HIDE DEF more, new
  <2>5. HoldsAll(more, (A \union {u}) \intersect online)
    BY <2>2, <2>4
  <2>6. HoldsAll(off, (A \union {u}) \ online)
    BY <1>2, <2>3
  <2> QED
    BY <2>1, <2>5, <2>6 DEF TwoLists, new
<1>4. CASE u \notin online
  <2> DEFINE more == vstack_push(off, u)
  <2>1. new = [on |-> on, off |-> more]
    BY <1>1, <1>4 DEF Put
  <2>2. (A \union {u}) \ online = (A \ online) \union {u}
    BY <1>4
  <2>3. (A \union {u}) \intersect online = A \intersect online
    BY <1>4
  <2>4. HoldsAll(more, (A \ online) \union {u})
    BY <1>2, PushNew
  <2> HIDE DEF more, new
  <2>5. HoldsAll(more, (A \union {u}) \ online)
    BY <2>2, <2>4
  <2>6. HoldsAll(on, (A \union {u}) \intersect online)
    BY <1>2, <2>3
  <2> QED
    BY <2>1, <2>5, <2>6 DEF TwoLists, new
<1> QED
  BY <1>3, <1>4

\* set_friends_online loses no friend and takes none twice.
THEOREM SortedAll ==
    ASSUME NEW A, NEW friends, ListsAll(friends, A), NEW online
    PROVE  TwoLists(Sorted(friends, online), A, online)
<1> DEFINE seq == Popped(Pushed(friends))
           n == Len(seq)
<1>1. ListsAll(seq, A)
  BY PushedThenPopped
<1>2. n \in Nat /\ seq \in Seq(A) /\ DOMAIN seq = 1 .. n
  BY <1>1 DEF ListsAll
<1>3. PICK t : /\ t[0] = TwoStacks
               /\ \A k \in 1 .. n : t[k] = Put(t[k - 1], seq[k], online)
               /\ Sorted(friends, online) = t[n]
  BY <1>2, SortRun
<1> HIDE DEF seq, n
<1> DEFINE Taken_(k) == {seq[i] : i \in 1 .. k}
           T == {k \in 0 .. n : TwoLists(t[k], Taken_(k), online)}
<1>4. 0 \in T
  <2>1. 0 \in 0 .. n /\ 1 .. 0 = {}
    BY <1>2
  <2>2. Taken_(0) = {}
    BY <2>1
  <2>3. {} \intersect online = {} /\ {} \ online = {}
    OBVIOUS
  <2>4. TwoLists(TwoStacks, {}, online)
    BY <2>3, NoneYet DEF TwoLists, TwoStacks
  <2> HIDE DEF Taken_
  <2> QED
    BY <1>3, <2>1, <2>2, <2>4
<1>5. ASSUME NEW k \in 1 .. n, k - 1 \in T PROVE k \in T
  <2>1. k \in 0 .. n /\ k - 1 \in 0 .. n /\ 1 .. k = 1 .. (k - 1) \union {k}
    BY <1>2
  <2>2. Taken_(k) = Taken_(k - 1) \union {seq[k]}
    BY <2>1
  <2>3. seq[k] \notin Taken_(k - 1)
    <3> SUFFICES ASSUME NEW i \in 1 .. k - 1, seq[i] = seq[k] PROVE FALSE
      OBVIOUS
    <3>1. i \in 1 .. n /\ i # k
      BY <1>2
    <3> QED
      BY <1>1, <1>2, <3>1 DEF ListsAll, IsInjective
  <2>4. TwoLists(t[k - 1], Taken_(k - 1), online)
    BY <1>5
  <2> HIDE DEF Taken_
  <2>5. TwoLists(Put(t[k - 1], seq[k], online), Taken_(k - 1) \union {seq[k]}, online)
    BY <2>3, <2>4, PutNew
  <2>6. t[k] = Put(t[k - 1], seq[k], online)
    BY <1>3
  <2>7. TwoLists(t[k], Taken_(k), online)
    BY <2>2, <2>5, <2>6
  <2> QED
    BY <2>1, <2>7
<1>6. n \in T
  <2> HIDE DEF T
  <2>1. 0 .. n \subseteq T
    BY <1>2, <1>4, <1>5, PrefixInduction
  <2> QED
    BY <1>2, <2>1
<1>7. Taken_(n) = A
  BY <1>1, <1>2 DEF ListsAll
<1> QED
  BY <1>3, <1>6, <1>7

------------------------------------------------------------------------------
(* The users online, in the order of their ids *)

Increasing(s) == \A i, j \in DOMAIN s : i < j => s[i] < s[j]

LEMMA InOrderExists ==
    \A m \in Nat : \A S \in SUBSET (1 .. m) : \E s : ListsAll(s, S) /\ Increasing(s)
<1> DEFINE P == {m \in Nat : \A S \in SUBSET (1 .. m) : \E s : ListsAll(s, S) /\ Increasing(s)}
<1>1. 0 \in P
  <2>1. ASSUME NEW S \in SUBSET (1 .. 0) PROVE \E s : ListsAll(s, S) /\ Increasing(s)
    <3>1. S = {}
      OBVIOUS
    <3>2. Increasing(<<>>)
      BY DEF Increasing
    <3> QED
      BY <3>1, <3>2, EmptyList
  <2> QED
    BY <2>1
<1>2. ASSUME NEW m \in Nat, m \in P PROVE m + 1 \in P
  <2>1. ASSUME NEW S \in SUBSET (1 .. m + 1) PROVE \E s : ListsAll(s, S) /\ Increasing(s)
    <3>1. CASE m + 1 \notin S
      <4>1. S \in SUBSET (1 .. m)
        BY <3>1
      <4> QED
        BY <1>2, <4>1
    <3>2. CASE m + 1 \in S
      <4> DEFINE R == S \ {m + 1}
      <4>1. R \in SUBSET (1 .. m) /\ S = R \union {m + 1} /\ m + 1 \notin R
        BY <3>2
      <4>2. PICK s : ListsAll(s, R) /\ Increasing(s)
        BY <1>2, <4>1
      <4> HIDE DEF R
      <4> DEFINE t == Append(s, m + 1)
      <4>3. ListsAll(t, S)
        BY <4>1, <4>2, ListOneMore
      <4>4. /\ s \in Seq(R) /\ Len(s) \in Nat /\ DOMAIN t = 1 .. Len(s) + 1
            /\ t[Len(s) + 1] = m + 1 /\ DOMAIN s = 1 .. Len(s)
            /\ \A i \in 1 .. Len(s) : t[i] = s[i] /\ s[i] \in R
        BY <4>2 DEF ListsAll
      <4> HIDE DEF t
      <4>5. Increasing(t)
        <5> SUFFICES ASSUME NEW i \in DOMAIN t, NEW j \in DOMAIN t, i < j PROVE t[i] < t[j]
          BY DEF Increasing
        <5>1. CASE j = Len(s) + 1
          <6>1. i \in 1 .. Len(s)
            BY <4>4, <5>1
          <6>2. t[i] \in R
            BY <4>4, <6>1
          <6>3. t[i] \in 1 .. m
            BY <4>1, <6>2
          <6> QED
            BY <4>4, <5>1, <6>3
        <5>2. CASE j # Len(s) + 1
          <6>1. i \in 1 .. Len(s) /\ j \in 1 .. Len(s)
            BY <4>4, <5>2
          <6> QED
            BY <4>2, <4>4, <6>1 DEF Increasing
        <5> QED
          BY <5>1, <5>2
      <4> QED
        BY <4>3, <4>5
    <3> QED
      BY <3>1, <3>2
  <2> QED
    BY <2>1
<1>3. Nat \subseteq P
  <2> HIDE DEF P
  <2> QED
    BY <1>1, <1>2, SetInduction
<1> QED
  BY <1>3

LEMMA UidsFinite == ASSUME NEW S \in SUBSET Uids PROVE IsFiniteSet(S)
<1>1. IsFiniteSet(1 .. INT_MAX)
  BY IntMax, FS_Interval
<1> QED
  BY <1>1, UidsAssumption, FS_Subset

\* write_usernames_to_dp meets every user of the tree, once.
THEOREM InOrderLists ==
    ASSUME NEW S \in SUBSET Uids
    PROVE  ListsAll(InOrder(S), S)
<1> DEFINE n == Cardinality(S)
           s == InOrder(S)
           Good(q) == \A i, j \in DOMAIN q : i < j => q[i] < q[j]
<1>1. IsFiniteSet(S) /\ n \in Nat
  BY UidsFinite, FS_CardinalityType
<1>2. S \in SUBSET (1 .. INT_MAX) /\ INT_MAX \in Nat
  BY UidsAssumption, IntMax
<1>3. PICK q : ListsAll(q, S) /\ Increasing(q)
  BY <1>2, InOrderExists
<1>4. Len(q) = n
  BY <1>3, ListLength
<1> HIDE DEF n
<1>5. q \in [1 .. n -> S] /\ Good(q)
  BY <1>1, <1>3, <1>4 DEF ListsAll, Increasing
<1>6. s \in [1 .. n -> S] /\ Good(s)
  <2>1. s = CHOOSE r \in [1 .. n -> S] : Good(r)
    BY DEF InOrder, n
  <2> HIDE DEF s, Good
  <2> QED
    BY <1>5, <2>1
<1> HIDE DEF s
<1>7. ASSUME NEW i \in 1 .. n PROVE s[i] \in Int
  <2>1. s[i] \in S
    BY <1>6
  <2>2. s[i] \in 1 .. INT_MAX
    BY <1>2, <2>1
  <2> QED
    BY <1>2, <2>2
<1>8. IsInjective(s)
  <2> SUFFICES ASSUME NEW i \in 1 .. n, NEW j \in 1 .. n, s[i] = s[j] PROVE i = j
    BY <1>6 DEF IsInjective
  <2>1. CASE i < j
    BY <1>6, <1>7, <2>1
  <2>2. CASE j < i
    BY <1>6, <1>7, <2>2
  <2> QED
    BY <1>1, <2>1, <2>2
<1>9. ASSUME NEW x \in S PROVE \E i \in DOMAIN s : s[i] = x
  BY <1>1, <1>6, <1>8, InjectionReaches DEF n
<1>10. s \in Seq(S)
  BY <1>1, <1>6
<1> QED
  BY <1>8, <1>9, <1>10 DEF ListsAll, s

\* The fields a packet can have.
Field == {Int32(n) : n \in Ints} \union {String(s) : s \in Strings}

LEMMA FieldKinds ==
    /\ \A n : Int32(n).is = "int" /\ Int32(n).value = n
    /\ \A s : String(s).is = "string" /\ String(s).value = s
BY DEF Int32, String

LEMMA IntField == ASSUME NEW n \in Ints PROVE Int32(n) \in Field
BY DEF Field

LEMMA StringField == ASSUME NEW s \in Strings PROVE String(s) \in Field
BY DEF Field

LEMMA FieldIs ==
    ASSUME NEW f \in Field
    PROVE  \/ \E n \in Ints : f = Int32(n) /\ f.is = "int"
           \/ \E s \in Strings : f = String(s) /\ f.is = "string"
BY FieldKinds DEF Field

\* How many fields the list of a set takes.
Size(S) == 1 + 2 * Cardinality(S)

\* The fields behind the first c are the list of S.
Section(fields, c, S) ==
    \E uids :
        /\ ListsAll(uids, S) /\ Len(uids) \in Ints
        /\ c + Size(S) <= Len(fields)
        /\ fields[c + 1] = Int32(Len(uids))
        /\ \A i \in 1 .. Len(uids) :
              /\ fields[c + 2 * i] = Int32(uids[i])
              /\ fields[c + 2 * i + 1] = String(username[uids[i]])

LEMMA UidsAreInts ==
    ASSUME NEW S \in SUBSET Uids
    PROVE  /\ \A u \in S : u \in Ints
           /\ Cardinality(S) \in Nat /\ Cardinality(S) \in Ints
<1>1. IsFiniteSet(1 .. INT_MAX) /\ Cardinality(1 .. INT_MAX) = INT_MAX
  BY IntMax, FS_Interval
<1>2. S \subseteq 1 .. INT_MAX
  BY UidsAssumption
<1>3. Cardinality(S) \in Nat /\ Cardinality(S) <= INT_MAX
  BY <1>1, <1>2, FS_Subset, FS_CardinalityType
<1>4. \A n \in Nat : n <= INT_MAX => n \in Ints
  BY IntMax
<1>5. \A u \in S : u \in Nat /\ u <= INT_MAX
  BY <1>2, IntMax
<1> QED
  BY <1>3, <1>4, <1>5

LEMMA ListFieldsAre ==
    ASSUME NEW S \in SUBSET Uids, NEW uids, ListsAll(uids, S)
    PROVE  /\ ListFields(uids) \in Seq(Field)
           /\ Len(ListFields(uids)) = Size(S)
           /\ Section(ListFields(uids), 0, S)
<1> DEFINE n == Len(uids)
           a == [i \in 1 .. n |-> Int32(uids[i])]
           b == [i \in 1 .. n |-> String(username[uids[i]])]
           first == <<Int32(n)>>
           rest == Alternate(a, b, n)
           fields == ListFields(uids)
<1>1. uids \in Seq(S) /\ n \in Nat /\ DOMAIN uids = 1 .. n
  BY DEF ListsAll
<1>2. n = Cardinality(S) /\ n \in Ints
  BY ListLength, UidsAreInts
<1>3. \A i \in 1 .. n : uids[i] \in S
  BY <1>1
<1>4. Columns(a, b, n, Field)
  <2>1. ASSUME NEW i \in 1 .. n
        PROVE  Int32(uids[i]) \in Field /\ String(username[uids[i]]) \in Field
    <3>1. uids[i] \in Ints
      BY <1>3, UidsAreInts
    <3>2. username[uids[i]] \in Strings
      BY <1>3, NamesAssumption
    <3> QED
      BY <3>1, <3>2, IntField, StringField
  <2> QED
    BY <2>1 DEF Columns
<1>5. fields = first \o rest
  <2>1. fields = first \o FlattenSeq([i \in 1 .. n |-> <<Int32(uids[i]), String(username[uids[i]])>>])
    BY <1>1 DEF ListFields
  <2>2. [i \in 1 .. n |-> <<Int32(uids[i]), String(username[uids[i]])>>]
           = [i \in 1 .. n |-> <<a[i], b[i]>>]
    OBVIOUS
  <2>3. FlattenSeq([i \in 1 .. n |-> <<a[i], b[i]>>]) = rest
    <3> HIDE DEF a, b, n
    <3> QED
      BY <1>1, <1>4, FlattenPairs
  <2> QED
    BY <2>1, <2>2, <2>3, Zenon
<1>6. \A i \in 1 .. n : a[i] = Int32(uids[i]) /\ b[i] = String(username[uids[i]])
  OBVIOUS
<1>7. first \in Seq(Field) /\ Len(first) = 1 /\ first[1] = Int32(n)
  BY <1>2, IntField
<1> HIDE DEF a, b, n, first
<1>8. Alternates(rest, a, b, n, Field)
  BY <1>1, <1>4, AlternateAt
<1> HIDE DEF rest, fields
<1>9. /\ rest \in Seq(Field) /\ Len(rest) = 2 * n
      /\ \A i \in 1 .. n : rest[2 * i - 1] = a[i] /\ rest[2 * i] = b[i]
  BY <1>8 DEF Alternates
<1>10. /\ fields \in Seq(Field) /\ Len(fields) = 1 + 2 * n
       /\ fields[1] = Int32(n)
       /\ \A j \in 1 .. 2 * n : fields[1 + j] = rest[j]
  <2>1. first \in Seq(Field) /\ rest \in Seq(Field) /\ Len(rest) = 2 * n
    BY <1>7, <1>9
  <2>2. Joins(fields, first, rest, Field)
    BY <1>5, <2>1, Concat
  <2> QED
    BY <1>7, <2>1, <2>2 DEF Joins
<1>11. ASSUME NEW i \in 1 .. n
       PROVE  fields[2 * i] = Int32(uids[i]) /\ fields[2 * i + 1] = String(username[uids[i]])
  <2>1. 2 * i - 1 \in 1 .. 2 * n /\ 2 * i \in 1 .. 2 * n
    BY <1>1
  <2>2. \A j \in 1 .. 2 * n : fields[1 + j] = rest[j]
    BY <1>10
  <2>3. 1 + (2 * i - 1) = 2 * i /\ 1 + 2 * i = 2 * i + 1
    OBVIOUS
  <2>4. fields[2 * i] = rest[2 * i - 1] /\ fields[2 * i + 1] = rest[2 * i]
    BY <2>1, <2>2, <2>3
  <2> QED
    BY <1>6, <1>9, <2>4
<1>12. Section(fields, 0, S)
  <2>1. 0 + Size(S) <= Len(fields)
    BY <1>1, <1>2, <1>10 DEF Size
  <2>2. fields[0 + 1] = Int32(n)
    BY <1>10
  <2>3. \A i \in 1 .. n : /\ fields[0 + 2 * i] = Int32(uids[i])
                          /\ fields[0 + 2 * i + 1] = String(username[uids[i]])
    BY <1>11
  <2> QED
    BY <1>2, <2>1, <2>2, <2>3 DEF Section, n
<1> QED
  BY <1>1, <1>2, <1>10, <1>12 DEF fields, Size

LEMMA SectionBefore ==
    ASSUME NEW f \in Seq(Field), NEW g \in Seq(Field),
           NEW c \in Nat, NEW S \in SUBSET Uids, Section(f, c, S)
    PROVE  Section(f \o g, c, S)
<1> DEFINE h == f \o g
<1>1. /\ Len(h) = Len(f) + Len(g) /\ Len(f) \in Nat /\ Len(g) \in Nat
      /\ \A k \in 1 .. Len(f) : h[k] = f[k]
  OBVIOUS
<1>2. PICK uids : /\ ListsAll(uids, S) /\ Len(uids) \in Ints
                  /\ c + Size(S) <= Len(f)
                  /\ f[c + 1] = Int32(Len(uids))
                  /\ \A i \in 1 .. Len(uids) :
                        /\ f[c + 2 * i] = Int32(uids[i])
                        /\ f[c + 2 * i + 1] = String(username[uids[i]])
  BY DEF Section
<1> HIDE DEF h
<1>3. Len(uids) = Cardinality(S) /\ Len(uids) \in Nat
  BY <1>2, ListLength, UidsAreInts
<1>4. c + Size(S) <= Len(h)
  BY <1>1, <1>2, <1>3 DEF Size
<1>5. h[c + 1] = Int32(Len(uids))
  <2>1. c + 1 \in 1 .. Len(f)
    BY <1>1, <1>2, <1>3 DEF Size
  <2>2. f[c + 1] = Int32(Len(uids))
    BY <1>2
  <2> QED
    BY <1>1, <2>1, <2>2, Zenon
<1>6. ASSUME NEW i \in 1 .. Len(uids)
      PROVE  /\ h[c + 2 * i] = Int32(uids[i])
             /\ h[c + 2 * i + 1] = String(username[uids[i]])
  <2>1. c + 2 * i \in 1 .. Len(f) /\ c + 2 * i + 1 \in 1 .. Len(f)
    BY <1>1, <1>2, <1>3 DEF Size
  <2> QED
    BY <1>1, <1>2, <2>1
<1> QED
  BY <1>2, <1>4, <1>5, <1>6 DEF Section, h

LEMMA SectionBehind ==
    ASSUME NEW f \in Seq(Field), NEW g \in Seq(Field),
           NEW S \in SUBSET Uids, Section(g, 0, S)
    PROVE  Section(f \o g, Len(f), S)
<1> DEFINE h == f \o g
           c == Len(f)
<1>1. /\ Len(h) = c + Len(g) /\ c \in Nat /\ Len(g) \in Nat
      /\ \A k \in 1 .. Len(g) : h[c + k] = g[k]
  OBVIOUS
<1>2. PICK uids : /\ ListsAll(uids, S) /\ Len(uids) \in Ints
                  /\ 0 + Size(S) <= Len(g)
                  /\ g[0 + 1] = Int32(Len(uids))
                  /\ \A i \in 1 .. Len(uids) :
                        /\ g[0 + 2 * i] = Int32(uids[i])
                        /\ g[0 + 2 * i + 1] = String(username[uids[i]])
  BY DEF Section
<1> HIDE DEF h, c
<1>3. Len(uids) = Cardinality(S) /\ Len(uids) \in Nat
  BY <1>2, ListLength, UidsAreInts
<1>4. c + Size(S) <= Len(h)
  BY <1>1, <1>2, <1>3 DEF Size
<1>5. h[c + 1] = Int32(Len(uids))
  BY <1>1, <1>2, <1>3 DEF Size
<1>6. ASSUME NEW i \in 1 .. Len(uids)
      PROVE  /\ h[c + 2 * i] = Int32(uids[i])
             /\ h[c + 2 * i + 1] = String(username[uids[i]])
  <2>1. 2 * i \in 1 .. Len(g) /\ 2 * i + 1 \in 1 .. Len(g)
    BY <1>1, <1>2, <1>3 DEF Size
  <2>2. g[2 * i] = Int32(uids[i]) /\ g[2 * i + 1] = String(username[uids[i]])
    BY <1>2
  <2>3. h[c + 2 * i] = g[2 * i] /\ h[c + (2 * i + 1)] = g[2 * i + 1]
    BY <1>1, <2>1
  <2>4. c + (2 * i + 1) = c + 2 * i + 1
    BY <1>1
  <2> QED
    BY <2>2, <2>3, <2>4
<1> QED
  BY <1>2, <1>4, <1>5, <1>6 DEF Section, h, c

Kinds == {"int", "string", "list"}

ServerTypes ==
    {"MSG_REQ_REGISTER", "MSG_REQ_LOGIN", "MSG_BROADCAST", "MSG_WHISPER",
     "MSG_CMD_KICK_ID", "MSG_GRANT_PRIVILEGES", "MSG_ADD_FRIEND", "MSG_REMOVE_FRIEND",
     "MSG_GROUP_CREATE", "MSG_LOGOUT", "MSG_WHO", "MSG_FRIENDS", "MSG_DISCONNECT"}

\* The words a command reads as numbers are those its handler reads as ints.
NumericKind(type, i) == IF i \in Numeric(type) THEN "int" ELSE "string"

\* How many fields the client sends with a type.
Sends(type) == IF type = "MSG_BROADCAST" THEN 1 ELSE Needed(type)

Fits(r, type) ==
    /\ r \in Seq(Kinds) /\ Len(r) <= Sends(type)
    /\ \A i \in 1 .. Len(r) : r[i] = NumericKind(type, i)

LEMMA TupleOne ==
    ASSUME NEW S, NEW x \in S
    PROVE  <<x>> \in Seq(S) /\ Len(<<x>>) = 1 /\ <<x>>[1] = x
OBVIOUS

LEMMA TupleTwo ==
    ASSUME NEW S, NEW x \in S, NEW y \in S
    PROVE  <<x, y>> \in Seq(S) /\ Len(<<x, y>>) = 2 /\ <<x, y>>[1] = x /\ <<x, y>>[2] = y
OBVIOUS

LEMMA FitsNone == ASSUME NEW type PROVE Fits(<<>>, type)
<1>1. Sends(type) \in {0, 1, 2}
  BY DEF Sends, Needed
<1> QED
  BY <1>1 DEF Fits

LEMMA FitsOne ==
    ASSUME NEW type, Sends(type) \in {1, 2}, NEW k \in Kinds, k = NumericKind(type, 1)
    PROVE  Fits(<<k>>, type)
<1> DEFINE r == <<k>>
<1>1. r \in Seq(Kinds) /\ Len(r) = 1 /\ r[1] = k
  BY TupleOne
<1> HIDE DEF r
<1> QED
  BY <1>1 DEF Fits, r

LEMMA FitsTwo ==
    ASSUME NEW type, Sends(type) = 2, NEW k \in Kinds, k = NumericKind(type, 1),
           NEW l \in Kinds, l = NumericKind(type, 2)
    PROVE  Fits(<<k, l>>, type)
<1> DEFINE r == <<k, l>>
<1>1. r \in Seq(Kinds) /\ Len(r) = 2 /\ r[1] = k /\ r[2] = l
  BY TupleTwo
<1> HIDE DEF r
<1>2. \A i \in 1 .. 2 : i = 1 \/ i = 2
  OBVIOUS
<1> QED
  BY <1>1, <1>2 DEF Fits, r

LEMMA ServerReadsFit ==
    /\ DOMAIN ServerReads = ServerTypes
    /\ \A type \in ServerTypes : \A r \in ServerReads[type] : Fits(r, type)
<1>1. DOMAIN ServerReads = ServerTypes
  BY DEF ServerReads, ServerTypes
<1>2. ASSUME NEW type \in ServerTypes, NEW r \in ServerReads[type] PROVE Fits(r, type)
  <2>1. CASE type \in {"MSG_REQ_REGISTER", "MSG_REQ_LOGIN"}
    <3>1. r = <<"string", "string">> \/ r = <<>>
      BY <1>2, <2>1 DEF ServerReads
    <3>2. Sends(type) = 2 /\ NumericKind(type, 1) = "string" /\ NumericKind(type, 2) = "string"
      BY <2>1 DEF Sends, Needed, Numeric, NumericKind
    <3> QED
      BY <3>1, <3>2, FitsNone, FitsTwo DEF Kinds
  <2>2. CASE type = "MSG_BROADCAST"
    <3>1. r = <<"string">> \/ r = <<>>
      BY <1>2, <2>2 DEF ServerReads
    <3>2. Sends(type) = 1 /\ NumericKind(type, 1) = "string"
      BY <2>2 DEF Sends, Numeric, NumericKind
    <3> QED
      BY <3>1, <3>2, FitsNone, FitsOne DEF Kinds
  <2>3. CASE type = "MSG_WHISPER"
    <3>1. r = <<"int", "string">> \/ r = <<"int">> \/ r = <<>>
      BY <1>2, <2>3 DEF ServerReads
    <3>2. Sends(type) = 2 /\ NumericKind(type, 1) = "int" /\ NumericKind(type, 2) = "string"
      BY <2>3 DEF Sends, Needed, Numeric, NumericKind
    <3> QED
      BY <3>1, <3>2, FitsNone, FitsOne, FitsTwo DEF Kinds
  <2>4. CASE type \in {"MSG_CMD_KICK_ID", "MSG_ADD_FRIEND", "MSG_REMOVE_FRIEND"}
    <3>1. r = <<"int">> \/ r = <<>>
      BY <1>2, <2>4 DEF ServerReads
    <3>2. Sends(type) = 1 /\ NumericKind(type, 1) = "int"
      BY <2>4 DEF Sends, Needed, Numeric, NumericKind
    <3> QED
      BY <3>1, <3>2, FitsNone, FitsOne DEF Kinds
  <2>5. CASE type = "MSG_GRANT_PRIVILEGES"
    <3>1. r = <<"int", "int">> \/ r = <<>>
      BY <1>2, <2>5 DEF ServerReads
    <3>2. Sends(type) = 2 /\ NumericKind(type, 1) = "int" /\ NumericKind(type, 2) = "int"
      BY <2>5 DEF Sends, Needed, Numeric, NumericKind
    <3> QED
      BY <3>1, <3>2, FitsNone, FitsTwo DEF Kinds
  <2>6. CASE type = "MSG_GROUP_CREATE"
    <3>1. r = <<"string">> \/ r = <<>>
      BY <1>2, <2>6 DEF ServerReads
    <3>2. Sends(type) = 1 /\ NumericKind(type, 1) = "string"
      BY <2>6 DEF Sends, Needed, Numeric, NumericKind
    <3> QED
      BY <3>1, <3>2, FitsNone, FitsOne DEF Kinds
  <2>7. CASE type \in {"MSG_LOGOUT", "MSG_WHO", "MSG_FRIENDS", "MSG_DISCONNECT"}
    <3>1. r = <<>>
      BY <1>2, <2>7 DEF ServerReads
    <3> QED
      BY <3>1, FitsNone
  <2> QED
    BY <2>1, <2>2, <2>3, <2>4, <2>5, <2>6, <2>7 DEF ServerTypes
<1> QED
  BY <1>1, <1>2

------------------------------------------------------------------------------
(* What a typed line sends *)

LEMMA CommandTypesAre ==
    \A word \in DOMAIN CommandTypes :
        CommandTypes[word] \in ServerTypes \union
            {"CMD_HELP", "CMD_CONNECT", "CMD_DISCONNECT", "MSG_GROUP_DELETE"}
BY DEF CommandTypes, ServerTypes

LEMMA SentCommand ==
    ASSUME NEW line \in Lines, Executes(line).does = "send"
    PROVE  LET type   == Executes(line).type
               fields == Executes(line).fields
           IN  /\ type \in ServerTypes
               /\ fields \in Seq(Field) /\ Len(fields) = Sends(type)
               /\ \A i \in 1 .. Len(fields) : fields[i].is = NumericKind(type, i)
<1> DEFINE call == process_command(line)
           argv == call.argv
           type == CommandTypes[Head(line)]
           args == Tail(line)
           n == IF Len(args) < Taken(type) THEN Len(args) ELSE Taken(type)
           checked == Numeric(call.type) \cap DOMAIN argv
           fields == [i \in DOMAIN argv |->
                        IF i \in checked THEN Int32(atoi[argv[i]]) ELSE String(argv[i])]
<1>1. line \in Seq(Strings)
  BY LinesAssumption
<1>2. /\ ~ \E i \in checked : ~is_decimal_number(argv[i])
      /\ call.type \notin {"CMD_CONNECT", "CMD_DISCONNECT", "none", "CMD_INVALID",
                           "CMD_HELP", "MSG_GROUP_DELETE"}
      /\ Executes(line) = Send(call.type, fields)
  <2> HIDE DEF call, type, n
  <2>1. Executes(line) =
          IF \E i \in checked : ~is_decimal_number(argv[i]) THEN Nothing
          ELSE CASE call.type = "CMD_CONNECT" -> Connect(argv)
                 [] call.type = "CMD_DISCONNECT" -> Disconnect
                 [] call.type \in {"none", "CMD_INVALID", "CMD_HELP",
                                   "MSG_GROUP_DELETE"} -> Nothing
                 [] OTHER -> Send(call.type, fields)
    BY DEF Executes, execute_command, call
  <2> HIDE DEF argv, checked, fields
  <2>2. Nothing.does # "send" /\ Disconnect.does # "send" /\ Connect(argv).does # "send"
    BY DEF Nothing, Disconnect, Connect
  <2> QED
    BY <2>1, <2>2
<1>3. line # <<>> /\ Head(line) \in DOMAIN CommandTypes /\ Len(args) >= Needed(type)
      /\ call = Call(type, SubSeq(args, 1, n))
  <2>1. call = IF line = <<>> THEN Call("none", <<>>)
               ELSE IF Head(line) \notin DOMAIN CommandTypes \/ Len(args) < Needed(type)
               THEN Call("CMD_INVALID", <<>>)
               ELSE Call(type, SubSeq(args, 1, n))
    BY DEF process_command
  <2>2. Call("none", <<>>).type = "none" /\ Call("CMD_INVALID", <<>>).type = "CMD_INVALID"
    BY DEF Call
  <2>3. Needed(type) \in {0, 1, 2}
    BY DEF Needed
  <2>4. line # <<>>
    BY <1>2, <2>1, <2>2
  <2>5. Len(args) \in Nat
    BY <1>1, <2>4
  <2> HIDE DEF call, n, args, type
  <2> QED
    BY <1>2, <2>1, <2>2, <2>3, <2>4, <2>5
<1>4. call.type = type /\ argv = SubSeq(args, 1, n)
  <2>1. \A a, b : Call(a, b).type = a /\ Call(a, b).argv = b
    BY DEF Call
  <2> HIDE DEF call
  <2> QED
    BY <1>3, <2>1
<1>5. type \in ServerTypes /\ type # "CMD_CONNECT" /\ type # "MSG_BROADCAST"
  <2>1. type \in ServerTypes
    BY <1>2, <1>3, <1>4, CommandTypesAre
  <2>2. \A word \in DOMAIN CommandTypes : CommandTypes[word] # "MSG_BROADCAST"
    BY DEF CommandTypes
  <2> QED
    BY <1>2, <1>3, <1>4, <2>1, <2>2
<1>6. n = Sends(type) /\ n \in {0, 1, 2} /\ n <= Len(args)
  <2>1. Needed(type) \in {0, 1, 2} /\ Taken(type) = Needed(type) /\ Sends(type) = Needed(type)
    BY <1>5 DEF Needed, Taken, Sends
  <2>2. Len(args) \in Nat
    BY <1>1, <1>3
  <2> HIDE DEF args, type
  <2> QED
    BY <1>3, <2>1, <2>2
<1>7. argv \in Seq(Strings) /\ Len(argv) = n
  <2>1. args \in Seq(Strings)
    BY <1>1, <1>3
  <2> HIDE DEF args, n, argv
  <2> QED
    BY <1>4, <1>6, <2>1
<1> HIDE DEF call, argv, type, args, n
<1>8. ASSUME NEW i \in 1 .. n
      PROVE  fields[i] \in Field /\ fields[i].is = NumericKind(type, i)
  <2>1. i \in DOMAIN argv /\ argv[i] \in Strings
    BY <1>7
  <2>2. CASE i \in Numeric(type)
    <3>1. i \in checked
      BY <1>4, <2>1, <2>2
    <3>2. fields[i] = Int32(atoi[argv[i]])
      BY <2>1, <3>1
    <3>3. atoi[argv[i]] \in Ints
      BY <1>2, <3>1, AtoiAssumption DEF is_decimal_number
    <3> HIDE DEF fields
    <3> QED
      BY <2>2, <3>2, <3>3, IntField, FieldKinds DEF NumericKind
  <2>3. CASE i \notin Numeric(type)
    <3>1. fields[i] = String(argv[i])
      BY <1>4, <2>1, <2>3
    <3> HIDE DEF fields
    <3> QED
      BY <2>1, <2>3, <3>1, StringField, FieldKinds DEF NumericKind
  <2> QED
    BY <2>2, <2>3
<1>9. DOMAIN fields = 1 .. n
  BY <1>7
<1>10. fields \in [1 .. n -> Field]
  <2>1. fields = [i \in DOMAIN fields |-> fields[i]]
    OBVIOUS
  <2> HIDE DEF fields
  <2> QED
    BY <1>8, <1>9, <2>1
<1>11. Executes(line).type = type /\ Executes(line).fields = fields
  <2> HIDE DEF fields
  <2> QED
    BY <1>2, <1>4 DEF Send
<1> HIDE DEF fields
<1>12. fields \in Seq(Field) /\ Len(fields) = n
  BY <1>6, <1>10
<1> QED
  BY <1>5, <1>6, <1>8, <1>11, <1>12

------------------------------------------------------------------------------
(* A message its receiver understands *)

Reads(m) == IF m.to = "server" THEN ServerReads[m.type] ELSE ClientReads[m.type]

\* One string more is read than MSG_REGISTR_SUCCESSFUL has.
Over(type) == IF type = "MSG_REGISTR_SUCCESSFUL" THEN 1 ELSE 0

\* The fields up to the end of the k-th list; of a message without lists, all.
EndOf(fields, sets, k) ==
    IF sets = <<>> THEN Len(fields)
    ELSE (IF k >= 1 THEN Size(sets[1]) ELSE 0) + (IF k >= 2 THEN Size(sets[2]) ELSE 0)
         + (IF k >= 3 THEN Size(sets[3]) ELSE 0)

\* Where n fields were read, the first p kinds in wants are those of the fields up
\* to the next list or the end, and the others are lists.
Awaits(m, sets, wants_, n, p) ==
    /\ wants_ \in Seq(Kinds)
    /\ p \in 0 .. Len(wants_)
    /\ \A i \in 1 .. p :
          wants_[i] = IF n + i <= Len(m.fields) THEN m.fields[n + i].is ELSE "string"
    /\ \A i \in p + 1 .. Len(wants_) : wants_[i] = "list"
    /\ IF m.to = "server" THEN p = Len(wants_) /\ n + p <= Len(m.fields)
       ELSE /\ Len(wants_) - p <= Len(sets)
            /\ n + p = EndOf(m.fields, sets, Len(sets) - (Len(wants_) - p)) + Over(m.type)

ListsOf(m) ==
    IF m.to = "client" /\ m.type = "MSG_WHO" THEN 1
    ELSE IF m.to = "client" /\ m.type = "MSG_FRIENDS" THEN 3 ELSE 0

Meant(m, sets) ==
    /\ m.to \in {"server", "client"}
    /\ m.type \in DOMAIN Code
    /\ m.fields \in Seq(Field)
    /\ sets \in Seq(SUBSET Uids) /\ Len(sets) = ListsOf(m)
    /\ sets # <<>> =>
          /\ EndOf(m.fields, sets, Len(sets)) = Len(m.fields)
          /\ \A k \in 1 .. Len(sets) : Section(m.fields, EndOf(m.fields, sets, k - 1), sets[k])
    /\ \A r \in Reads(m) : \E p : Awaits(m, sets, r, 0, p)

LEMMA MessageFields ==
    ASSUME NEW type, NEW fields
    PROVE  /\ ToServer(type, fields).to = "server" /\ ToServer(type, fields).type = type
           /\ ToServer(type, fields).fields = fields
           /\ ToClient(type, fields).to = "client" /\ ToClient(type, fields).type = type
           /\ ToClient(type, fields).fields = fields
BY DEF ToServer, ToClient

LEMMA ServerTypesHaveCodes == ServerTypes \subseteq DOMAIN Code
BY DEF ServerTypes, Code

LEMMA MeantForServer ==
    ASSUME NEW type \in ServerTypes, NEW fields \in Seq(Field), Len(fields) = Sends(type),
           \A i \in 1 .. Len(fields) : fields[i].is = NumericKind(type, i)
    PROVE  Meant(ToServer(type, fields), <<>>)
<1> DEFINE m == ToServer(type, fields)
<1>1. m.to = "server" /\ m.type = type /\ m.fields = fields
  BY MessageFields
<1> HIDE DEF m
<1>2. ASSUME NEW r \in Reads(m) PROVE Awaits(m, <<>>, r, 0, Len(r))
  <2>1. Fits(r, type)
    BY <1>1, <1>2, ServerReadsFit DEF Reads
  <2>2. /\ r \in Seq(Kinds) /\ Len(r) <= Len(fields) /\ Len(r) \in Nat
        /\ \A i \in 1 .. Len(r) : r[i] = NumericKind(type, i)
    BY <2>1 DEF Fits
  <2>3. \A i \in 1 .. Len(r) : 0 + i = i /\ i \in 1 .. Len(fields) /\ 0 + i <= Len(fields)
    BY <2>2
  <2>4. \A i \in 1 .. Len(r) : r[i] = IF 0 + i <= Len(fields) THEN fields[0 + i].is ELSE "string"
    BY <2>2, <2>3
  <2>5. Len(r) \in 0 .. Len(r) /\ Len(r) + 1 .. Len(r) = {} /\ 0 + Len(r) <= Len(fields)
    BY <2>2
  <2> QED
    BY <1>1, <2>2, <2>4, <2>5 DEF Awaits
<1>3. /\ m.type \in DOMAIN Code /\ ListsOf(m) = 0
  BY <1>1, ServerTypesHaveCodes DEF ListsOf
<1>4. <<>> \in Seq(SUBSET Uids) /\ Len(<<>>) = 0
  OBVIOUS
<1> QED
  BY <1>1, <1>2, <1>3, <1>4 DEF Meant, m

LEMMA TypedMeant ==
    ASSUME NEW line \in Lines, Executes(line).does = "send"
    PROVE  Meant(Typed(line), <<>>)
<1> DEFINE type == Executes(line).type
           fields == Executes(line).fields
<1>1. /\ type \in ServerTypes /\ fields \in Seq(Field) /\ Len(fields) = Sends(type)
      /\ \A i \in 1 .. Len(fields) : fields[i].is = NumericKind(type, i)
  BY SentCommand
<1>2. Typed(line) = ToServer(type, fields)
  BY DEF Typed
<1> HIDE DEF type, fields
<1> QED
  BY <1>1, <1>2, MeantForServer

LEMMA SaidMeant ==
    ASSUME NEW text \in Texts
    PROVE  Meant(Said(text), <<>>)
<1> DEFINE fields == <<String(text)>>
<1>1. String(text) \in Field
  BY NamesAssumption, StringField
<1>2. fields \in Seq(Field) /\ Len(fields) = 1 /\ fields[1] = String(text)
  BY <1>1, TupleOne
<1> HIDE DEF fields
<1>3. Sends("MSG_BROADCAST") = 1 /\ NumericKind("MSG_BROADCAST", 1) = "string"
  BY DEF Sends, NumericKind, Numeric
<1>4. \A i \in 1 .. Len(fields) : fields[i].is = NumericKind("MSG_BROADCAST", i)
  <2>1. \A i \in 1 .. 1 : i = 1
    OBVIOUS
  <2> QED
    BY <1>2, <1>3, <2>1, FieldKinds
<1>5. "MSG_BROADCAST" \in ServerTypes
  BY DEF ServerTypes
<1>6. Meant(ToServer("MSG_BROADCAST", fields), <<>>)
  BY <1>2, <1>3, <1>4, <1>5, MeantForServer
<1> QED
  BY <1>6 DEF Said, fields

LEMMA LeavingMeant == Meant(Leaving, <<>>)
<1>1. Sends("MSG_DISCONNECT") = 0
  BY DEF Sends, Needed
<1>2. "MSG_DISCONNECT" \in ServerTypes
  BY DEF ServerTypes
<1>3. <<>> \in Seq(Field) /\ Len(<<>>) = 0 /\ 1 .. 0 = {}
  OBVIOUS
<1>4. \A i \in 1 .. Len(<<>>) : <<>>[i].is = NumericKind("MSG_DISCONNECT", i)
  BY <1>3
<1>5. Meant(ToServer("MSG_DISCONNECT", <<>>), <<>>)
  BY <1>1, <1>2, <1>3, <1>4, MeantForServer
<1> QED
  BY <1>5 DEF Leaving

\* A packet of the server without lists.
LEMMA MeantForClient ==
    ASSUME NEW type \in DOMAIN Code, type \notin {"MSG_WHO", "MSG_FRIENDS"},
           NEW fields \in Seq(Field),
           \A r \in ClientReads[type] :
               /\ r \in Seq(Kinds) /\ Len(r) = Len(fields) + Over(type)
               /\ \A i \in 1 .. Len(r) :
                     r[i] = IF i <= Len(fields) THEN fields[i].is ELSE "string"
    PROVE  Meant(ToClient(type, fields), <<>>)
<1> DEFINE m == ToClient(type, fields)
<1>1. m.to = "client" /\ m.type = type /\ m.fields = fields
  BY MessageFields
<1> HIDE DEF m
<1>2. ASSUME NEW r \in Reads(m) PROVE Awaits(m, <<>>, r, 0, Len(r))
  <2>1. /\ r \in Seq(Kinds) /\ Len(r) = Len(fields) + Over(type) /\ Len(r) \in Nat
        /\ \A i \in 1 .. Len(r) : r[i] = IF i <= Len(fields) THEN fields[i].is ELSE "string"
    BY <1>1, <1>2 DEF Reads
  <2>2. \A i \in 1 .. Len(r) : r[i] = IF 0 + i <= Len(fields) THEN fields[0 + i].is ELSE "string"
    <3>1. \A i \in 1 .. Len(r) : 0 + i = i
      OBVIOUS
    <3> QED
      BY <2>1, <3>1
  <2>3. Len(r) \in 0 .. Len(r) /\ Len(r) + 1 .. Len(r) = {} /\ Len(r) - Len(r) <= Len(<<>>)
    BY <2>1
  <2>4. 0 + Len(r) = EndOf(fields, <<>>, Len(<<>>) - (Len(r) - Len(r))) + Over(type)
    BY <2>1 DEF EndOf
  <2> QED
    BY <1>1, <2>1, <2>2, <2>3, <2>4 DEF Awaits
<1>3. /\ m.type \in DOMAIN Code /\ ListsOf(m) = 0
  BY <1>1 DEF ListsOf
<1>4. <<>> \in Seq(SUBSET Uids) /\ Len(<<>>) = 0
  OBVIOUS
<1> QED
  BY <1>1, <1>2, <1>3, <1>4 DEF Meant, m

LEMMA OneField ==
    ASSUME NEW type \in DOMAIN Code, type \notin {"MSG_WHO", "MSG_FRIENDS"},
           Over(type) = 0, NEW f \in Field, NEW k \in Kinds, f.is = k,
           ClientReads[type] = {<<k>>}
    PROVE  Meant(ToClient(type, <<f>>), <<>>)
<1> DEFINE fields == <<f>>
           r == <<k>>
<1>1. fields \in Seq(Field) /\ Len(fields) = 1 /\ fields[1] = f
  BY TupleOne
<1>2. r \in Seq(Kinds) /\ Len(r) = 1 /\ r[1] = k
  BY TupleOne
<1> HIDE DEF fields, r
<1>3. \A i \in 1 .. Len(r) : r[i] = IF i <= Len(fields) THEN fields[i].is ELSE "string"
  <2>1. \A i \in 1 .. 1 : i = 1
    OBVIOUS
  <2> QED
    BY <1>1, <1>2, <2>1
<1>4. Len(r) = Len(fields) + Over(type)
  BY <1>1, <1>2
<1>5. ClientReads[type] = {r}
  BY DEF r
<1>6. Meant(ToClient(type, fields), <<>>)
  BY <1>1, <1>2, <1>3, <1>4, <1>5, MeantForClient
<1> QED
  BY <1>6 DEF fields

LEMMA TwoFields ==
    ASSUME NEW type \in DOMAIN Code, type \notin {"MSG_WHO", "MSG_FRIENDS"},
           Over(type) = 0, NEW f \in Field, NEW k \in Kinds, f.is = k,
           NEW g \in Field, NEW l \in Kinds, g.is = l,
           ClientReads[type] = {<<k, l>>}
    PROVE  Meant(ToClient(type, <<f, g>>), <<>>)
<1> DEFINE fields == <<f, g>>
           r == <<k, l>>
<1>1. fields \in Seq(Field) /\ Len(fields) = 2 /\ fields[1] = f /\ fields[2] = g
  BY TupleTwo
<1>2. r \in Seq(Kinds) /\ Len(r) = 2 /\ r[1] = k /\ r[2] = l
  BY TupleTwo
<1> HIDE DEF fields, r
<1>3. \A i \in 1 .. Len(r) : r[i] = IF i <= Len(fields) THEN fields[i].is ELSE "string"
  <2>1. \A i \in 1 .. 2 : i = 1 \/ i = 2
    OBVIOUS
  <2> QED
    BY <1>1, <1>2, <2>1
<1>4. Len(r) = Len(fields) + Over(type)
  BY <1>1, <1>2
<1>5. ClientReads[type] = {r}
  BY DEF r
<1>6. Meant(ToClient(type, fields), <<>>)
  BY <1>1, <1>2, <1>3, <1>4, <1>5, MeantForClient
<1> QED
  BY <1>6 DEF fields

LEMMA NoticeMeant ==
    ASSUME NEW m \in Notices
    PROVE  Meant(m, <<>>)
<1>1. /\ \A text \in Texts : String(text) \in Field /\ String(text).is = "string"
      /\ \A u \in Uids : /\ Int32(u) \in Field /\ Int32(u).is = "int"
                         /\ String(username[u]) \in Field /\ String(username[u]).is = "string"
      /\ \A res \in Results : Int32(res) \in Field /\ Int32(res).is = "int"
      /\ "int" \in Kinds /\ "string" \in Kinds
  <2>1. \A text \in Texts : String(text) \in Field /\ String(text).is = "string"
    BY NamesAssumption, StringField, FieldKinds
  <2>2. ASSUME NEW u \in Uids
        PROVE  /\ Int32(u) \in Field /\ Int32(u).is = "int"
               /\ String(username[u]) \in Field /\ String(username[u]).is = "string"
    <3>1. u \in Ints
      BY UidsAreInts
    <3>2. username[u] \in Strings
      BY NamesAssumption
    <3> QED
      BY <3>1, <3>2, IntField, StringField, FieldKinds
  <2>3. \A res \in Results : Int32(res) \in Field /\ Int32(res).is = "int"
    <3>1. ASSUME NEW res \in Results PROVE res \in Ints
      <4>1. res \in Nat /\ res <= 255
        BY DEF Results
      <4> QED
        BY <4>1, IntMax
    <3> QED
      BY <3>1, IntField, FieldKinds
  <2> QED
    BY <2>1, <2>2, <2>3 DEF Kinds
<1>2. ASSUME NEW text \in Texts,
             NEW type \in {"MSG_WELCOME", "MSG_SYSTEM_MSG", "MSG_REGISTR_FAILED"},
             m = ToClient(type, <<String(text)>>)
      PROVE  Meant(m, <<>>)
  <2>1. type \in DOMAIN Code /\ Over(type) = 0 /\ ClientReads[type] = {<<"string">>}
        /\ type \notin {"MSG_WHO", "MSG_FRIENDS"}
    BY DEF Code, Over, ClientReads
  <2> QED
    BY <1>1, <1>2, <2>1, OneField
<1>3. ASSUME NEW text \in Texts, m = ToClient("MSG_REGISTR_SUCCESSFUL", <<String(text)>>)
      PROVE  Meant(m, <<>>)
  <2> DEFINE type == "MSG_REGISTR_SUCCESSFUL"
             fields == <<String(text)>>
             r == <<"string", "string">>
  <2>1. type \in DOMAIN Code /\ Over(type) = 1 /\ ClientReads[type] = {r}
        /\ type \notin {"MSG_WHO", "MSG_FRIENDS"}
    BY DEF Code, Over, ClientReads
  <2>2. fields \in Seq(Field) /\ Len(fields) = 1 /\ fields[1] = String(text)
    BY <1>1, TupleOne
  <2>3. r \in Seq(Kinds) /\ Len(r) = 2 /\ r[1] = "string" /\ r[2] = "string"
    BY <1>1, TupleTwo
  <2> HIDE DEF fields, r, type
  <2>4. \A i \in 1 .. Len(r) : r[i] = IF i <= Len(fields) THEN fields[i].is ELSE "string"
    <3>1. \A i \in 1 .. 2 : i = 1 \/ i = 2
      OBVIOUS
    <3> QED
      BY <1>1, <2>2, <2>3, <3>1
  <2>5. Len(r) = Len(fields) + Over(type)
    BY <2>1, <2>2, <2>3
  <2>6. Meant(ToClient(type, fields), <<>>)
    BY <2>1, <2>2, <2>3, <2>4, <2>5, MeantForClient
  <2> QED
    BY <1>3, <2>6 DEF type, fields
<1>4. ASSUME NEW text \in Texts, NEW res \in Results,
             m = ToClient("MSG_AUTH_FAILED", <<String(text), Int32(res)>>)
      PROVE  Meant(m, <<>>)
  <2> DEFINE type == "MSG_AUTH_FAILED"
  <2>1. type \in DOMAIN Code /\ Over(type) = 0 /\ ClientReads[type] = {<<"string", "int">>}
        /\ type \notin {"MSG_WHO", "MSG_FRIENDS"}
    BY DEF Code, Over, ClientReads
  <2> HIDE DEF type
  <2>2. Meant(ToClient(type, <<String(text), Int32(res)>>), <<>>)
    BY <1>1, <2>1, TwoFields
  <2> QED
    BY <1>4, <2>2 DEF type
<1>5. ASSUME NEW u \in Uids, NEW text \in Texts,
             m = ToClient("MSG_BROADCAST", <<String(username[u]), String(text)>>)
      PROVE  Meant(m, <<>>)
  <2> DEFINE type == "MSG_BROADCAST"
  <2>1. type \in DOMAIN Code /\ Over(type) = 0 /\ ClientReads[type] = {<<"string", "string">>}
        /\ type \notin {"MSG_WHO", "MSG_FRIENDS"}
    BY DEF Code, Over, ClientReads
  <2> HIDE DEF type
  <2>2. Meant(ToClient(type, <<String(username[u]), String(text)>>), <<>>)
    BY <1>1, <2>1, TwoFields
  <2> QED
    BY <1>5, <2>2 DEF type
<1>6. ASSUME NEW u \in Uids,
             m = ToClient("MSG_FRIEND_ONLINE", <<Int32(u), String(username[u])>>)
      PROVE  Meant(m, <<>>)
  <2> DEFINE type == "MSG_FRIEND_ONLINE"
  <2>1. type \in DOMAIN Code /\ Over(type) = 0 /\ ClientReads[type] = {<<"int", "string">>}
        /\ type \notin {"MSG_WHO", "MSG_FRIENDS"}
    BY DEF Code, Over, ClientReads
  <2> HIDE DEF type
  <2>2. Meant(ToClient(type, <<Int32(u), String(username[u])>>), <<>>)
    BY <1>1, <2>1, TwoFields
  <2> QED
    BY <1>6, <2>2 DEF type
<1>7. ASSUME NEW u \in Uids, m = ToClient("MSG_FRIEND_OFFLINE", <<Int32(u)>>)
      PROVE  Meant(m, <<>>)
  <2> DEFINE type == "MSG_FRIEND_OFFLINE"
  <2>1. type \in DOMAIN Code /\ Over(type) = 0 /\ ClientReads[type] = {<<"int">>}
        /\ type \notin {"MSG_WHO", "MSG_FRIENDS"}
    BY DEF Code, Over, ClientReads
  <2> HIDE DEF type
  <2>2. Meant(ToClient(type, <<Int32(u)>>), <<>>)
    BY <1>1, <2>1, OneField
  <2> QED
    BY <1>7, <2>2 DEF type
<1>8. \/ \E text \in Texts :
              \/ \E type \in {"MSG_WELCOME", "MSG_SYSTEM_MSG", "MSG_REGISTR_FAILED"} :
                    m = ToClient(type, <<String(text)>>)
              \/ m = ToClient("MSG_REGISTR_SUCCESSFUL", <<String(text)>>)
      \/ \E text \in Texts, res \in Results :
              m = ToClient("MSG_AUTH_FAILED", <<String(text), Int32(res)>>)
      \/ \E u \in Uids, text \in Texts :
              m = ToClient("MSG_BROADCAST", <<String(username[u]), String(text)>>)
      \/ \E u \in Uids : m = ToClient("MSG_FRIEND_ONLINE", <<Int32(u), String(username[u])>>)
      \/ \E u \in Uids : m = ToClient("MSG_FRIEND_OFFLINE", <<Int32(u)>>)
  <2> DEFINE plain(text) == {ToClient("MSG_WELCOME", <<String(text)>>),
                             ToClient("MSG_SYSTEM_MSG", <<String(text)>>),
                             ToClient("MSG_REGISTR_SUCCESSFUL", <<String(text)>>),
                             ToClient("MSG_REGISTR_FAILED", <<String(text)>>)}
             failed(text, res) == ToClient("MSG_AUTH_FAILED", <<String(text), Int32(res)>>)
             said(u, text) == ToClient("MSG_BROADCAST", <<String(username[u]), String(text)>>)
             here(u) == ToClient("MSG_FRIEND_ONLINE", <<Int32(u), String(username[u])>>)
             gone(u) == ToClient("MSG_FRIEND_OFFLINE", <<Int32(u)>>)
  <2>1. \/ m \in UNION {plain(text) : text \in Texts}
        \/ m \in {failed(text, res) : text \in Texts, res \in Results}
        \/ m \in {said(u, text) : u \in Uids, text \in Texts}
        \/ m \in {here(u) : u \in Uids} \/ m \in {gone(u) : u \in Uids}
    BY DEF Notices
  <2>2. ASSUME NEW text \in Texts, m \in plain(text)
        PROVE  \/ \E type \in {"MSG_WELCOME", "MSG_SYSTEM_MSG", "MSG_REGISTR_FAILED"} :
                    m = ToClient(type, <<String(text)>>)
               \/ m = ToClient("MSG_REGISTR_SUCCESSFUL", <<String(text)>>)
    BY <2>2
  <2> HIDE DEF plain
  <2>3. \/ \E text \in Texts : m \in plain(text)
        \/ \E text \in Texts, res \in Results : m = failed(text, res)
        \/ \E u \in Uids, text \in Texts : m = said(u, text)
        \/ \E u \in Uids : m = here(u)
        \/ \E u \in Uids : m = gone(u)
    <3> HIDE DEF failed, said, here, gone
    <3> QED
      BY <2>1
  <2> QED
    BY <2>2, <2>3, Zenon
<1> QED
  BY <1>2, <1>3, <1>4, <1>5, <1>6, <1>7, <1>8, Zenon

------------------------------------------------------------------------------
(* Messages with lists *)

\* The plan of a list message before anything was read: all kinds are lists.
LEMMA AwaitsLists ==
    ASSUME NEW m, m.to = "client", m.type # "MSG_REGISTR_SUCCESSFUL",
           NEW sets, Len(sets) \in Nat, sets # <<>>,
           NEW r \in Seq(Kinds), Len(r) = Len(sets), \A i \in 1 .. Len(r) : r[i] = "list"
    PROVE  Awaits(m, sets, r, 0, 0)
<1>1. Len(r) \in Nat /\ 0 \in 0 .. Len(r) /\ 1 .. 0 = {} /\ 0 + 1 = 1
  OBVIOUS
<1>2. Len(sets) - (Len(r) - 0) = 0 /\ Len(r) - 0 <= Len(sets)
  BY <1>1
<1>3. EndOf(m.fields, sets, 0) = 0
  BY DEF EndOf
<1>4. Over(m.type) = 0
  BY DEF Over
<1> QED
  BY <1>1, <1>2, <1>3, <1>4 DEF Awaits

LEMMA SizeIs ==
    ASSUME NEW S \in SUBSET Uids
    PROVE  Size(S) \in Nat /\ Size(S) = 1 + 2 * Cardinality(S) /\ Cardinality(S) \in Nat
BY UidsAreInts DEF Size

LEMMA WhoMeant ==
    ASSUME NEW online \in SUBSET Uids
    PROVE  Meant(Who(online), <<online>>)
<1> DEFINE fields == ListFields(InOrder(online))
           m == ToClient("MSG_WHO", fields)
           sets == <<online>>
           r == <<"list">>
<1>1. /\ fields \in Seq(Field) /\ Len(fields) = Size(online)
      /\ Section(fields, 0, online)
  BY InOrderLists, ListFieldsAre
<1>2. m.to = "client" /\ m.type = "MSG_WHO" /\ m.fields = fields
  BY MessageFields
<1>3. sets \in Seq(SUBSET Uids) /\ Len(sets) = 1 /\ sets[1] = online /\ sets # <<>>
  BY TupleOne
<1>4. r \in Seq(Kinds) /\ Len(r) = 1 /\ r[1] = "list"
  BY TupleOne DEF Kinds
<1>5. Reads(m) = {r}
  BY <1>2 DEF Reads, ClientReads
<1>6. Who(online) = m
  BY DEF Who
<1> HIDE DEF fields, m, sets, r
<1>7. \A i \in 1 .. 1 : i = 1
  OBVIOUS
<1>8. Awaits(m, sets, r, 0, 0)
  BY <1>2, <1>3, <1>4, <1>7, AwaitsLists
<1>9. EndOf(fields, sets, 1) = Len(fields) /\ EndOf(fields, sets, 1 - 1) = 0
  BY <1>1, <1>3, SizeIs DEF EndOf
<1>10. m.type \in DOMAIN Code /\ ListsOf(m) = 1
  BY <1>2 DEF Code, ListsOf
<1>11. Meant(m, sets)
  BY <1>1, <1>2, <1>3, <1>5, <1>7, <1>8, <1>9, <1>10 DEF Meant
<1> QED
  BY <1>6, <1>11 DEF sets

LEMMA TupleThree ==
    ASSUME NEW S, NEW x \in S, NEW y \in S, NEW z \in S
    PROVE  /\ <<x, y, z>> \in Seq(S) /\ Len(<<x, y, z>>) = 3
           /\ <<x, y, z>>[1] = x /\ <<x, y, z>>[2] = y /\ <<x, y, z>>[3] = z
OBVIOUS

LEMMA FriendsMeant ==
    ASSUME NEW friends \in SUBSET Uids, NEW online \in SUBSET Uids,
           NEW requests \in SUBSET Uids
    PROVE  Meant(set_friends_online(SetToSeq(friends), online, SetToSeq(requests)),
                 <<friends \intersect online, friends \ online, requests>>)
<1> DEFINE A == friends \intersect online
           B == friends \ online
           C == requests
           stacks == Sorted(SetToSeq(friends), online)
           f == ListFields(Popped(stacks.on))
           g == ListFields(Popped(stacks.off))
           h == ListFields(Popped(Pushed(SetToSeq(requests))))
           fg == f \o g
           fields == fg \o h
           m == ToClient("MSG_FRIENDS", fields)
           sets == <<A, B, C>>
           r == <<"list", "list", "list">>
<1>1. A \in SUBSET Uids /\ B \in SUBSET Uids /\ C \in SUBSET Uids
  OBVIOUS
<1>2. TwoLists(stacks, friends, online)
  BY UidsFinite, SetToSeqLists, SortedAll
<1>3. ListsAll(Popped(stacks.on), A) /\ ListsAll(Popped(stacks.off), B)
  <2> HIDE DEF stacks
  <2> QED
    BY <1>2, PopAll DEF TwoLists
<1>4. ListsAll(Popped(Pushed(SetToSeq(requests))), C)
  BY UidsFinite, SetToSeqLists, PushedThenPopped
<1> HIDE DEF stacks
<1>5. f \in Seq(Field) /\ Len(f) = Size(A) /\ Section(f, 0, A)
  <2> HIDE DEF A
  <2> QED
    BY <1>1, <1>3, ListFieldsAre
<1>6. g \in Seq(Field) /\ Len(g) = Size(B) /\ Section(g, 0, B)
  <2> HIDE DEF B
  <2> QED
    BY <1>1, <1>3, ListFieldsAre
<1>7. h \in Seq(Field) /\ Len(h) = Size(C) /\ Section(h, 0, C)
  <2> HIDE DEF C
  <2> QED
    BY <1>1, <1>4, ListFieldsAre
<1>8. set_friends_online(SetToSeq(friends), online, SetToSeq(requests)) = m
  BY Zenon DEF set_friends_online, stacks
<1> HIDE DEF A, B, C, f, g, h
<1>9. /\ Size(A) \in Nat /\ Size(B) \in Nat /\ Size(C) \in Nat
  BY <1>1, SizeIs
<1>10. /\ fg \in Seq(Field) /\ Len(fg) = Size(A) + Size(B)
       /\ Section(fg, 0, A) /\ Section(fg, Size(A), B)
  <2>1. Joins(fg, f, g, Field)
    BY <1>5, <1>6, Concat
  <2>2. Section(fg, 0, A)
    BY <1>1, <1>5, <1>6, SectionBefore
  <2>3. Section(fg, Len(f), B)
    BY <1>1, <1>5, <1>6, SectionBehind
  <2> HIDE DEF fg
  <2> QED
    BY <1>5, <1>6, <2>1, <2>2, <2>3 DEF Joins
<1> HIDE DEF fg
<1>11. /\ fields \in Seq(Field) /\ Len(fields) = Size(A) + Size(B) + Size(C)
       /\ Section(fields, 0, A) /\ Section(fields, Size(A), B)
       /\ Section(fields, Size(A) + Size(B), C)
  <2>1. Joins(fields, fg, h, Field)
    BY <1>7, <1>10, Concat
  <2>2. Section(fields, 0, A) /\ Section(fields, Size(A), B)
    BY <1>1, <1>7, <1>9, <1>10, SectionBefore
  <2>3. Section(fields, Len(fg), C)
    BY <1>1, <1>7, <1>10, SectionBehind
  <2> HIDE DEF fields
  <2>4. fields \in Seq(Field) /\ Len(fields) = Size(A) + Size(B) + Size(C)
    BY <1>7, <1>9, <1>10, <2>1 DEF Joins
  <2> QED
    BY <1>10, <2>2, <2>3, <2>4
<1>12. m.to = "client" /\ m.type = "MSG_FRIENDS" /\ m.fields = fields
  <2> HIDE DEF fields
  <2> QED
    BY MessageFields
<1>13. sets \in Seq(SUBSET Uids) /\ Len(sets) = 3
       /\ sets[1] = A /\ sets[2] = B /\ sets[3] = C /\ sets # <<>>
  BY <1>1, TupleThree
<1>14. r \in Seq(Kinds) /\ Len(r) = 3 /\ r[1] = "list" /\ r[2] = "list" /\ r[3] = "list"
  BY TupleThree DEF Kinds
<1>15. Reads(m) = {r}
  BY <1>12 DEF Reads, ClientReads
<1> HIDE DEF fields, m, sets, r
<1>16. \A i \in 1 .. 3 : i = 1 \/ i = 2 \/ i = 3
  OBVIOUS
<1>17. Awaits(m, sets, r, 0, 0)
  BY <1>12, <1>13, <1>14, <1>16, AwaitsLists
<1>18. /\ EndOf(fields, sets, 3) = Len(fields)
       /\ EndOf(fields, sets, 1 - 1) = 0 /\ EndOf(fields, sets, 2 - 1) = Size(A)
       /\ EndOf(fields, sets, 3 - 1) = Size(A) + Size(B)
  BY <1>9, <1>11, <1>13 DEF EndOf
<1>19. \A k \in 1 .. 3 : Section(fields, EndOf(fields, sets, k - 1), sets[k])
  BY <1>11, <1>13, <1>16, <1>18
<1>20. m.type \in DOMAIN Code /\ ListsOf(m) = 3
  BY <1>12 DEF Code, ListsOf
<1>21. Meant(m, sets)
  BY <1>11, <1>12, <1>13, <1>15, <1>17, <1>18, <1>19, <1>20 DEF Meant
<1> QED
  BY <1>8, <1>21 DEF sets, A, B, C

------------------------------------------------------------------------------
(* What the reader waits for *)

LEMMA EndOfIs ==
    ASSUME NEW m, NEW sets, Meant(m, sets), NEW k \in 0 .. Len(sets)
    PROVE  /\ EndOf(m.fields, sets, k) \in Nat
           /\ EndOf(m.fields, sets, k) <= Len(m.fields)
           /\ k > 0 => EndOf(m.fields, sets, k) = EndOf(m.fields, sets, k - 1) + Size(sets[k])
           /\ sets # <<>> => m.to = "client" /\ Over(m.type) = 0
<1>1. sets \in Seq(SUBSET Uids) /\ Len(sets) \in {0, 1, 3}
  BY DEF Meant, ListsOf
<1>2. \A i \in 1 .. Len(sets) : Size(sets[i]) \in Nat
  BY <1>1, SizeIs
<1>3. Len(m.fields) \in Nat
  BY DEF Meant
<1>4. sets # <<>> => EndOf(m.fields, sets, Len(sets)) = Len(m.fields)
  BY DEF Meant
<1>5. sets # <<>> => m.to = "client" /\ Over(m.type) = 0
  BY <1>1 DEF Meant, ListsOf, Over
<1>6. CASE sets = <<>>
  <2>1. k = 0
    BY <1>6
  <2> QED
    BY <1>3, <1>6, <2>1 DEF EndOf
<1>7. CASE sets # <<>> /\ Len(sets) = 1
  <2>1. k = 0 \/ k = 1
    BY <1>7
  <2>2. EndOf(m.fields, sets, 0) = 0 /\ EndOf(m.fields, sets, 1) = Size(sets[1])
    BY <1>2, <1>7 DEF EndOf
  <2>3. 1 - 1 = 0
    OBVIOUS
  <2> QED
    BY <1>2, <1>3, <1>4, <1>5, <1>7, <2>1, <2>2, <2>3
<1>8. CASE sets # <<>> /\ Len(sets) = 3
  <2>1. k = 0 \/ k = 1 \/ k = 2 \/ k = 3
    BY <1>8
  <2>2. /\ EndOf(m.fields, sets, 0) = 0 /\ EndOf(m.fields, sets, 1) = Size(sets[1])
        /\ EndOf(m.fields, sets, 2) = Size(sets[1]) + Size(sets[2])
        /\ EndOf(m.fields, sets, 3) = Size(sets[1]) + Size(sets[2]) + Size(sets[3])
    BY <1>2, <1>8 DEF EndOf
  <2>3. 1 - 1 = 0 /\ 2 - 1 = 1 /\ 3 - 1 = 2
    OBVIOUS
  <2>4. /\ Size(sets[1]) \in Nat /\ Size(sets[2]) \in Nat /\ Size(sets[3]) \in Nat
    BY <1>2, <1>8
  <2> QED
    BY <1>3, <1>4, <1>5, <1>8, <2>1, <2>2, <2>3, <2>4
<1>9. Len(sets) # 0 => sets # <<>>
  OBVIOUS
<1>10. Len(sets) = 0 => sets = <<>>
  BY <1>1
<1> QED
  BY <1>1, <1>6, <1>7, <1>8, <1>9, <1>10

AtField(m, w, n, p) ==
    p > 0 /\ n + 1 <= Len(m.fields) /\ Head(w) = m.fields[n + 1].is

AtEnd(m, w, n) ==
    /\ n = Len(m.fields) /\ Head(w) = "string"
    /\ m.to = "client" /\ m.type = "MSG_REGISTR_SUCCESSFUL"

AtList(m, sets, w, n, p) ==
    /\ p = 0 /\ Head(w) = "list" /\ m.to = "client" /\ Over(m.type) = 0
    /\ Len(sets) - Len(w) \in 0 .. Len(sets) - 1
    /\ n = EndOf(m.fields, sets, Len(sets) - Len(w))
    /\ Section(m.fields, n, sets[Len(sets) - Len(w) + 1])

LEMMA EndOfNext ==
    ASSUME NEW m, NEW sets, Meant(m, sets), NEW k \in 0 .. Len(sets), k > 0
    PROVE  EndOf(m.fields, sets, k) = EndOf(m.fields, sets, k - 1) + Size(sets[k])
BY EndOfIs

\* The next kind is that of the next field; or the message is read to its end and
\* is the one of which too much is read; or the next list begins here.
LEMMA NextWanted ==
    ASSUME NEW m, NEW sets, Meant(m, sets), NEW w, w # <<>>,
           NEW n \in 0 .. Len(m.fields), NEW p, Awaits(m, sets, w, n, p)
    PROVE  AtField(m, w, n, p) \/ AtEnd(m, w, n) \/ AtList(m, sets, w, n, p)
<1> DEFINE N == Len(m.fields)
           k == Len(sets) - (Len(w) - p)
<1>1. /\ w \in Seq(Kinds) /\ Len(w) \in Nat /\ Len(w) > 0 /\ Head(w) = w[1]
      /\ p \in 0 .. Len(w) /\ N \in Nat /\ Len(sets) \in Nat
      /\ m.to \in {"client", "server"}
  BY DEF Awaits, Meant
<1>2. /\ \A i \in 1 .. p : w[i] = IF n + i <= N THEN m.fields[n + i].is ELSE "string"
      /\ \A i \in p + 1 .. Len(w) : w[i] = "list"
  BY DEF Awaits
<1>3. m.to = "server" => p = Len(w) /\ n + p <= N
  BY DEF Awaits
<1>4. m.to # "server" => Len(w) - p <= Len(sets) /\ n + p = EndOf(m.fields, sets, k) + Over(m.type)
  BY DEF Awaits
<1>5. m.to # "server" => k \in 0 .. Len(sets)
  BY <1>1, <1>4
<1>6. m.to # "server" => EndOf(m.fields, sets, k) \in Nat /\ EndOf(m.fields, sets, k) <= N
  <2> HIDE DEF k
  <2> QED
    BY <1>5, EndOfIs
<1>7. Over(m.type) \in {0, 1} /\ (Over(m.type) = 1 => m.type = "MSG_REGISTR_SUCCESSFUL")
  BY DEF Over
<1>8. CASE p > 0
  <2>1. w[1] = IF n + 1 <= N THEN m.fields[n + 1].is ELSE "string"
    BY <1>1, <1>2, <1>8
  <2>2. ASSUME ~(n + 1 <= N)
        PROVE  n = N /\ m.to = "client" /\ m.type = "MSG_REGISTR_SUCCESSFUL"
    <3>1. n = N
      BY <1>1, <2>2
    <3>2. m.to = "client"
      BY <1>1, <1>3, <1>8, <2>2
    <3>3. n + p = EndOf(m.fields, sets, k) + Over(m.type) /\ EndOf(m.fields, sets, k) <= N
          /\ EndOf(m.fields, sets, k) \in Nat
      BY <1>4, <1>6, <3>2
    <3> HIDE DEF N, k
    <3>4. Over(m.type) = 1
      BY <1>1, <1>7, <1>8, <3>1, <3>3
    <3> QED
      BY <1>7, <3>1, <3>2, <3>4
  <2> QED
    BY <1>1, <1>8, <2>1, <2>2 DEF AtField, AtEnd
<1>9. CASE p = 0
  <2>1. w[1] = "list"
    BY <1>1, <1>2, <1>9
  <2>2. m.to = "client"
    BY <1>1, <1>3, <1>9
  <2>3. k = Len(sets) - Len(w) /\ k \in 0 .. Len(sets) - 1
    BY <1>1, <1>4, <1>9, <2>2
  <2>4. Len(sets) > 0 /\ sets # <<>>
    BY <1>1, <2>3
  <2> HIDE DEF k
  <2>5. Over(m.type) = 0
    BY <1>5, <2>2, <2>4, EndOfIs
  <2>6. n = EndOf(m.fields, sets, k)
    BY <1>4, <1>6, <1>9, <2>2, <2>5
  <2>7. k + 1 \in 1 .. Len(sets) /\ (k + 1) - 1 = k
    BY <1>1, <2>3
  <2>8. Section(m.fields, EndOf(m.fields, sets, k), sets[k + 1])
    <3>1. \A j \in 1 .. Len(sets) : Section(m.fields, EndOf(m.fields, sets, j - 1), sets[j])
      BY <2>4 DEF Meant
    <3>2. Section(m.fields, EndOf(m.fields, sets, (k + 1) - 1), sets[k + 1])
      BY <2>7, <3>1
    <3> QED
      BY <2>7, <3>2
  <2> QED
    BY <1>1, <1>9, <2>1, <2>2, <2>3, <2>5, <2>6, <2>8 DEF AtList, k
<1> QED
  BY <1>1, <1>8, <1>9

LEMMA AfterOne ==
    ASSUME NEW m, NEW sets, Meant(m, sets), NEW w, NEW n \in Nat,
           NEW p, Awaits(m, sets, w, n, p), p > 0
    PROVE  Awaits(m, sets, Tail(w), n + 1, p - 1)
<1> DEFINE N == Len(m.fields)
           t == Tail(w)
<1>1. /\ w \in Seq(Kinds) /\ Len(w) \in Nat /\ Len(w) > 0
      /\ p \in 0 .. Len(w) /\ N \in Nat /\ Len(sets) \in Nat
  BY DEF Awaits, Meant
<1>2. t \in Seq(Kinds) /\ Len(t) = Len(w) - 1 /\ \A i \in 1 .. Len(t) : t[i] = w[i + 1]
  BY <1>1
<1> HIDE DEF t
<1>3. \A i \in 1 .. p - 1 : t[i] = IF (n + 1) + i <= N THEN m.fields[(n + 1) + i].is ELSE "string"
  <2> TAKE i \in 1 .. p - 1
  <2>1. i + 1 \in 1 .. p /\ i \in 1 .. Len(t) /\ n + (i + 1) = (n + 1) + i
    BY <1>1, <1>2
  <2>2. w[i + 1] = IF n + (i + 1) <= N THEN m.fields[n + (i + 1)].is ELSE "string"
    BY <2>1 DEF Awaits
  <2> QED
    BY <1>2, <2>1, <2>2
<1>4. \A i \in (p - 1) + 1 .. Len(t) : t[i] = "list"
  <2> TAKE i \in (p - 1) + 1 .. Len(t)
  <2>1. i + 1 \in p + 1 .. Len(w) /\ i \in 1 .. Len(t)
    BY <1>1, <1>2
  <2> QED
    BY <1>2, <2>1 DEF Awaits
<1>5. Len(t) - (p - 1) = Len(w) - p /\ (n + 1) + (p - 1) = n + p /\ p - 1 \in 0 .. Len(t)
  BY <1>1, <1>2
<1>6. p - 1 = Len(t) <=> p = Len(w)
  BY <1>1, <1>2
<1> QED
  BY <1>2, <1>3, <1>4, <1>5, <1>6 DEF Awaits, t

CountFits(c, ls, lw, lt, lv) ==
    /\ 2 * c \in 0 .. lv
    /\ lv - 2 * c <= ls
    /\ ls - (lv - 2 * c) = (ls - lw) + 1
    /\ \A i \in 2 * c + 1 .. lv :
          /\ i - 2 * c \in 1 .. lt /\ i = 2 * c + (i - 2 * c)
          /\ (i - 2 * c) + 1 \in 0 + 1 .. lw

LEMMA CountArithmetic ==
    ASSUME NEW c \in Nat, NEW ls \in Nat, NEW lw \in Nat, lw > 0, lw <= ls,
           NEW lt, lt = lw - 1, NEW lv, lv = 2 * c + lt
    PROVE  CountFits(c, ls, lw, lt, lv)
BY DEF CountFits

LEMMA PairArithmetic ==
    ASSUME NEW n \in Nat, NEW c \in Nat, NEW N \in Nat, n + 1 + 2 * c <= N,
           NEW i \in 1 .. 2 * c
    PROVE  (n + 1) + i <= N
OBVIOUS

\* The pairs a count announces are those of its list.
LEMMA AfterCount ==
    ASSUME NEW m, NEW sets, Meant(m, sets), NEW w, w # <<>>,
           NEW n \in Nat, Awaits(m, sets, w, n, 0), m.to = "client", Over(m.type) = 0,
           NEW k \in 0 .. Len(sets) - 1, k = Len(sets) - Len(w),
           n = EndOf(m.fields, sets, k), Section(m.fields, n, sets[k + 1]),
           NEW count, count = Cardinality(sets[k + 1])
    PROVE  Awaits(m, sets, FlattenSeq([i \in 1 .. count |-> <<"int", "string">>]) \o Tail(w),
                  n + 1, 2 * count)
<1> DEFINE N == Len(m.fields)
           t == Tail(w)
           a == [i \in 1 .. count |-> "int"]
           b == [i \in 1 .. count |-> "string"]
           pairs == Alternate(a, b, count)
           v == pairs \o t
           S == sets[k + 1]
<1>1. /\ w \in Seq(Kinds) /\ Len(w) \in Nat /\ Len(w) > 0
      /\ N \in Nat /\ Len(sets) \in Nat
      /\ sets \in Seq(SUBSET Uids)
  BY DEF Awaits, Meant
<1>2. t \in Seq(Kinds) /\ Len(t) = Len(w) - 1 /\ \A i \in 1 .. Len(t) : t[i] = w[i + 1]
  BY <1>1
<1>3. S \in SUBSET Uids /\ k + 1 \in 1 .. Len(sets) /\ (k + 1) - 1 = k
  BY <1>1
<1>4. count \in Nat /\ Size(S) = 1 + 2 * count
  BY <1>3, SizeIs
<1>5. PICK uids : /\ ListsAll(uids, S)
                  /\ n + Size(S) <= N
                  /\ \A i \in 1 .. Len(uids) :
                        /\ m.fields[n + 2 * i] = Int32(uids[i])
                        /\ m.fields[n + 2 * i + 1] = String(username[uids[i]])
  <2> HIDE DEF S
  <2> QED
    BY DEF Section, S
<1>6. Len(uids) = count
  BY <1>5, ListLength
<1>7. EndOf(m.fields, sets, k + 1) = n + Size(S) /\ n + 1 + 2 * count <= N
  <2>1. k + 1 \in 0 .. Len(sets) /\ k + 1 > 0
    BY <1>1
  <2>2. EndOf(m.fields, sets, k + 1) = EndOf(m.fields, sets, (k + 1) - 1) + Size(S)
    BY <2>1, EndOfNext
  <2>3. EndOf(m.fields, sets, k + 1) = n + Size(S)
    BY <1>3, <2>2
  <2>4. n + Size(S) <= N
    BY <1>5
  <2> HIDE DEF N, S
  <2>5. n + 1 + 2 * count <= N
    BY <1>1, <1>4, <2>4
  <2> QED
    BY <2>3, <2>5
<1> HIDE DEF S, t
<1>8. Columns(a, b, count, Kinds)
  BY DEF Columns, Kinds
<1>9. FlattenSeq([i \in 1 .. count |-> <<"int", "string">>]) = pairs
  <2>1. [i \in 1 .. count |-> <<"int", "string">>] = [i \in 1 .. count |-> <<a[i], b[i]>>]
    OBVIOUS
  <2>2. count \in Nat
    BY <1>4
  <2>3. FlattenSeq([i \in 1 .. count |-> <<a[i], b[i]>>]) = pairs
    <3> HIDE DEF a, b
    <3> QED
      BY <2>2, <1>8, FlattenPairs
  <2> QED
    BY <2>1, <2>3, Zenon
<1>10. \A i \in 1 .. count : a[i] = "int" /\ b[i] = "string"
  OBVIOUS
<1> HIDE DEF a, b
<1>11. count \in 0 .. count
  BY <1>4
<1>12. Alternates(pairs, a, b, count, Kinds)
  BY <1>4, <1>8, <1>11, AlternateAt
<1> HIDE DEF pairs
<1>13. /\ pairs \in Seq(Kinds) /\ Len(pairs) = 2 * count
       /\ \A i \in 1 .. count : pairs[2 * i - 1] = "int" /\ pairs[2 * i] = "string"
  BY <1>10, <1>12 DEF Alternates
<1>14. Joins(v, pairs, t, Kinds)
  BY <1>2, <1>13, Concat
<1> HIDE DEF v
<1>15. /\ v \in Seq(Kinds) /\ Len(v) = 2 * count + Len(t)
       /\ \A i \in 1 .. 2 * count : v[i] = pairs[i]
       /\ \A i \in 1 .. Len(t) : v[2 * count + i] = t[i]
  <2>1. Len(pairs) \in Nat /\ Len(pairs) = 2 * count
    BY <1>4, <1>13
  <2> QED
    BY <1>14, <2>1, Zenon DEF Joins
<1>16. /\ Len(w) \in Nat /\ Len(w) > 0 /\ Len(t) = Len(w) - 1 /\ Len(v) = 2 * count + Len(t)
       /\ Len(sets) \in Nat /\ Len(w) <= Len(sets)
  BY <1>1, <1>2, <1>15
<1>17. CountFits(count, Len(sets), Len(w), Len(t), Len(v))
  BY <1>4, <1>16, CountArithmetic
<1>18. ASSUME NEW i \in 1 .. 2 * count
       PROVE  v[i] = IF (n + 1) + i <= N THEN m.fields[(n + 1) + i].is ELSE "string"
  <2>1. (n + 1) + i <= N
    BY <1>1, <1>4, <1>7, PairArithmetic
  <2>2. PICK j \in 1 .. count : i = 2 * j - 1 \/ i = 2 * j
    <3> DEFINE j == (i + 1) \div 2
    <3>1. j \in 1 .. count /\ (i = 2 * j - 1 \/ i = 2 * j)
      BY <1>4, SMT
    <3> QED
      BY <3>1
  <2>3. v[i] = pairs[i]
    BY <1>15
  <2>4. CASE i = 2 * j - 1
    <3>1. (n + 1) + i = n + 2 * j
      BY <2>4
    <3>2. m.fields[(n + 1) + i] = Int32(uids[j])
      BY <1>5, <1>6, <3>1
    <3>3. v[i] = "int"
      BY <1>13, <2>3, <2>4, Zenon
    <3> QED
      BY <2>1, <3>2, <3>3, FieldKinds
  <2>5. CASE i = 2 * j
    <3>1. (n + 1) + i = n + 2 * j + 1
      BY <2>5
    <3>2. m.fields[(n + 1) + i] = String(username[uids[j]])
      BY <1>5, <1>6, <3>1
    <3>3. v[i] = "string"
      BY <1>13, <2>3, <2>5, Zenon
    <3> QED
      BY <2>1, <3>2, <3>3, FieldKinds
  <2> QED
    BY <2>2, <2>4, <2>5
<1>19. ASSUME NEW i \in 2 * count + 1 .. Len(v) PROVE v[i] = "list"
  <2> DEFINE j == i - 2 * count
  <2>1. j \in 1 .. Len(t) /\ i = 2 * count + j /\ j + 1 \in 0 + 1 .. Len(w)
    BY <1>17 DEF CountFits
  <2> HIDE DEF j
  <2>2. v[i] = w[j + 1]
    BY <1>2, <1>15, <2>1
  <2> QED
    BY <2>1, <2>2 DEF Awaits
<1>20. /\ 2 * count \in 0 .. Len(v)
       /\ Len(v) - 2 * count <= Len(sets)
       /\ Len(sets) - (Len(v) - 2 * count) = k + 1
  BY <1>17 DEF CountFits
<1>21. (n + 1) + 2 * count = EndOf(m.fields, sets, k + 1) + Over(m.type)
  <2>1. EndOf(m.fields, sets, k + 1) = n + (1 + 2 * count)
    BY <1>4, <1>7, Zenon
  <2>2. Over(m.type) = 0
    OBVIOUS
  <2>3. count \in Nat
    BY <1>4
  <2> DEFINE end  == EndOf(m.fields, sets, k + 1)
             over == Over(m.type)
  <2> HIDE DEF end, over
  <2>4. end = n + (1 + 2 * count) /\ over = 0
    BY <2>1, <2>2, Zenon DEF end, over
  <2>5. (n + 1) + 2 * count = end + over
    BY <2>3, <2>4
  <2> QED
    BY <2>5, Zenon DEF end, over
<1>22. Awaits(m, sets, v, n + 1, 2 * count)
  BY <1>15, <1>18, <1>19, <1>20, <1>21 DEF Awaits
<1> QED
  BY <1>9, <1>22 DEF v, t

------------------------------------------------------------------------------
(* Where the fields of a message lie *)

FieldSize(f) ==
    IF f.is = "int" THEN SizeofInt ELSE SizeofInt + strlen[f.value] + 1

HoldsField(data, at, f) ==
    IF f.is = "int" THEN Holds(data, at, bc_from_int(f.value))
    ELSE /\ Holds(data, at, bc_from_int(strlen[f.value]))
         /\ Holds(data, at + SizeofInt, Chars(f.value))

\* The first n fields are in data, the k-th up to off[k].
Laid(data, fields, n, off) ==
    /\ off \in [Nat -> Nat]
    /\ off[0] = SizeofInt + SizeofInt
    /\ \A k \in 1 .. n :
          /\ off[k] = off[k - 1] + FieldSize(fields[k])
          /\ HoldsField(data, off[k - 1], fields[k])

LEMMA KeepsField ==
    ASSUME NEW p, NEW q, Keeps(p, q), NEW at, NEW f, HoldsField(p.data, at, f)
    PROVE  HoldsField(q.data, at, f)
BY KeepsHolds DEF HoldsField

LEMMA KeepsLaid ==
    ASSUME NEW p, NEW q, Keeps(p, q), NEW fields, NEW n, NEW off,
           Laid(p.data, fields, n, off)
    PROVE  Laid(q.data, fields, n, off)
BY KeepsField DEF Laid

LEMMA NothingLaid ==
    ASSUME NEW data, NEW fields
    PROVE  \E off : Laid(data, fields, 0, off) /\ off[0] = SizeofInt + SizeofInt
<1> DEFINE off == [k \in Nat |-> SizeofInt + SizeofInt]
<1>1. off \in [Nat -> Nat] /\ off[0] = SizeofInt + SizeofInt /\ 1 .. 0 = {}
  BY DEF SizeofInt
<1> HIDE DEF off
<1>2. Laid(data, fields, 0, off)
  BY <1>1 DEF Laid
<1> QED
  BY <1>1, <1>2

LEMMA LaidMore ==
    ASSUME NEW p, NEW q, Keeps(p, q), NEW fields, NEW n \in Nat, NEW off,
           Laid(p.data, fields, n, off), p.index = off[n],
           q.index = p.index + FieldSize(fields[n + 1]), q.index \in Nat,
           HoldsField(q.data, p.index, fields[n + 1])
    PROVE  \E new : Laid(q.data, fields, n + 1, new) /\ q.index = new[n + 1]
<1> DEFINE new == [off EXCEPT ![n + 1] = q.index]
<1>1. Laid(q.data, fields, n, off)
  BY KeepsLaid
<1>2. /\ off \in [Nat -> Nat] /\ off[0] = SizeofInt + SizeofInt
      /\ \A k \in 1 .. n : /\ off[k] = off[k - 1] + FieldSize(fields[k])
                           /\ HoldsField(q.data, off[k - 1], fields[k])
  BY <1>1 DEF Laid
<1>3. /\ new \in [Nat -> Nat] /\ new[n + 1] = q.index
      /\ \A k \in 0 .. n : new[k] = off[k]
  BY <1>2
<1> HIDE DEF new
<1>4. ASSUME NEW k \in 1 .. n + 1
      PROVE  /\ new[k] = new[k - 1] + FieldSize(fields[k])
             /\ HoldsField(q.data, new[k - 1], fields[k])
  <2>1. k - 1 \in 0 .. n /\ new[k - 1] = off[k - 1]
    BY <1>3
  <2>2. CASE k \in 1 .. n
    <3>1. new[k] = off[k]
      BY <1>3, <2>2
    <3> QED
      BY <1>2, <2>1, <2>2, <3>1
  <2>3. CASE k = n + 1
    <3>1. k - 1 = n
      BY <2>3
    <3> QED
      BY <1>3, <2>1, <2>3, <3>1
  <2> QED
    BY <2>2, <2>3
<1>5. new[0] = SizeofInt + SizeofInt
  BY <1>2, <1>3
<1>6. Laid(q.data, fields, n + 1, new)
  BY <1>3, <1>4, <1>5 DEF Laid
<1> QED
  BY <1>3, <1>6

\* Whatever the next field is, SetInt or SetString puts it behind the others.
LEMMA IntFieldWritten ==
    ASSUME NEW p, Packed(p), NEW f \in Field, f.is = "int"
    PROVE  LET q == datapacket_set_int(p, f.value)
           IN  /\ Packed(q) /\ Keeps(p, q)
               /\ q.index = p.index + FieldSize(f) /\ q.index \in Nat
               /\ HoldsField(q.data, p.index, f)
<1> DEFINE q == datapacket_set_int(p, f.value)
<1>1. /\ Packed(q) /\ Keeps(p, q) /\ q.index = p.index + SizeofInt
      /\ Holds(q.data, p.index, bc_from_int(f.value))
  BY IntWritten
<1> HIDE DEF q
<1> QED
  BY <1>1 DEF HoldsField, FieldSize, Packed, Sound, q

LEMMA StringFieldWritten ==
    ASSUME NEW p, Packed(p), NEW s \in Strings
    PROVE  LET q == datapacket_set_string(p, s)
           IN  /\ Packed(q) /\ Keeps(p, q)
               /\ q.index = p.index + FieldSize(String(s)) /\ q.index \in Nat
               /\ HoldsField(q.data, p.index, String(s))
<1> DEFINE q == datapacket_set_string(p, s)
           f == String(s)
<1>1. /\ Packed(q) /\ Keeps(p, q) /\ q.index = p.index + SizeofInt + strlen[s] + 1
      /\ Holds(q.data, p.index, bc_from_int(strlen[s]))
      /\ Holds(q.data, p.index + SizeofInt, Chars(s))
  BY StringWritten
<1>2. f.is # "int" /\ f.value = s
  BY FieldKinds
<1> HIDE DEF q, f
<1>3. q.index \in Nat
  BY <1>1 DEF Packed, Sound
<1>4. p.index \in Nat /\ strlen[s] \in Nat
  BY StringLength DEF Packed, Sound
<1>5. q.index = p.index + FieldSize(f)
  BY <1>1, <1>2, <1>4 DEF FieldSize, SizeofInt
<1>6. HoldsField(q.data, p.index, f)
  BY <1>1, <1>2 DEF HoldsField
<1> QED
  BY <1>1, <1>3, <1>5, <1>6 DEF q, f

------------------------------------------------------------------------------
(* The invariant *)

Writing ==
    /\ Meant(message, lists)
    /\ got = <<>>
    /\ Packed(dp)
    /\ Holds(dp.data, SizeofInt, bc_from_int(Code[message.type]))
    /\ todo \in Seq(Field)
    /\ \E n, off :
          /\ n \in 0 .. Len(message.fields)
          /\ Len(todo) = Len(message.fields) - n
          /\ \A i \in 1 .. Len(todo) : todo[i] = message.fields[n + i]
          /\ Laid(dp.data, message.fields, n, off) /\ dp.index = off[n]

Reading ==
    /\ Meant(message, lists)
    /\ dp = [data |-> dp.data, index |-> dp.index, buf_size |-> dp.buf_size]
    /\ got \in Seq(Field) /\ Len(got) <= Len(message.fields)
    /\ \A i \in 1 .. Len(got) : got[i] = message.fields[i]
    /\ \E off : /\ Laid(dp.data, message.fields, Len(message.fields), off)
                /\ DOMAIN dp.data = 0 .. off[Len(message.fields)] - 1
                /\ dp.index = off[Len(got)]
    /\ \E p : Awaits(message, lists, wants, Len(got), p)

MessageInv ==
    /\ stage \in {"idle", "write", "read", "handled", "undefined"}
    /\ stage = "write" => Writing
    /\ stage \in {"read", "handled"} => Reading
    /\ stage = "handled" => wants = <<>>
    /\ stage = "undefined" => message.type = "MSG_REGISTR_SUCCESSFUL"

LEMMA CodesAreInts ==
    \A type \in DOMAIN Code : Code[type] \in Ints
<1>1. \A type \in DOMAIN Code : Code[type] \in Nat /\ Code[type] <= 255
  BY DEF Code
<1>2. \A n \in Nat : n <= 255 => n \in Ints
  BY IntMax
<1> QED
  BY <1>1, <1>2

LEMMA CodesDiffer ==
    \A s, t \in DOMAIN Code : Code[s] = Code[t] => s = t
BY DEF Code

LEMMA CreatePacked ==
    ASSUME NEW n
    PROVE  LET q == datapacket_create(n)
           IN  /\ Packed(q) /\ q.index = SizeofInt + SizeofInt
               /\ Holds(q.data, SizeofInt, bc_from_int(n))
<1> DEFINE fresh == [data |-> [k \in {} |-> Byte(0)], index |-> SizeofInt,
                     buf_size |-> PACKET_SIZE]
<1>1. Packed(fresh) /\ fresh.index = SizeofInt
  BY PacketSizeAssumption DEF Packed, Sound, SizeofInt
<1>2. datapacket_create(n) = datapacket_set_int(fresh, n)
  BY DEF datapacket_create
<1> HIDE DEF fresh
<1> QED
  BY <1>1, <1>2, IntWritten

LEMMA BeginStep ==
    ASSUME NEW m, NEW sets, Meant(m, sets), Begin(m, sets)
    PROVE  MessageInv'
<1> DEFINE q == datapacket_create(Code[m.type])
<1>1. /\ stage' = "write" /\ message' = m /\ lists' = sets /\ dp' = q
      /\ todo' = m.fields /\ got' = <<>>
  BY DEF Begin
<1>2. Packed(q) /\ q.index = SizeofInt + SizeofInt /\ Holds(q.data, SizeofInt, bc_from_int(Code[m.type]))
  BY CreatePacked
<1> HIDE DEF q
<1>3. m.fields \in Seq(Field) /\ Len(m.fields) \in Nat
  BY DEF Meant
<1>4. PICK off : Laid(q.data, m.fields, 0, off) /\ off[0] = SizeofInt + SizeofInt
  BY NothingLaid
<1>5. /\ 0 \in 0 .. Len(m.fields) /\ Len(m.fields) = Len(m.fields) - 0
      /\ \A i \in 1 .. Len(m.fields) : m.fields[i] = m.fields[0 + i]
  BY <1>3
<1>6. Writing'
  BY <1>1, <1>2, <1>3, <1>4, <1>5 DEF Writing
<1> QED
  BY <1>1, <1>6 DEF MessageInv

\* A field that was put behind the others is no longer to do.
LEMMA OneWritten ==
    ASSUME Writing, todo # <<>>, NEW q, Packed(q), Keeps(dp, q),
           q.index = dp.index + FieldSize(Head(todo)), q.index \in Nat,
           HoldsField(q.data, dp.index, Head(todo)),
           stage' = "write", dp' = q, todo' = Tail(todo),
           UNCHANGED <<message, lists, got>>
    PROVE  MessageInv'
<1> DEFINE N == Len(message.fields)
           t == Tail(todo)
<1>1. PICK n, off :
         /\ n \in 0 .. N
         /\ Len(todo) = N - n
         /\ \A i \in 1 .. Len(todo) : todo[i] = message.fields[n + i]
         /\ Laid(dp.data, message.fields, n, off) /\ dp.index = off[n]
  BY DEF Writing
<1>2. todo \in Seq(Field) /\ message.fields \in Seq(Field) /\ N \in Nat
  BY DEF Writing, Meant
<1>3. /\ Len(todo) > 0 /\ Head(todo) = todo[1] /\ t \in Seq(Field) /\ Len(t) = Len(todo) - 1
      /\ \A i \in 1 .. Len(t) : t[i] = todo[i + 1]
  BY <1>2
<1>4. Head(todo) = message.fields[n + 1]
  BY <1>1, <1>3
<1>5. PICK new : Laid(q.data, message.fields, n + 1, new) /\ q.index = new[n + 1]
  BY <1>1, <1>2, <1>4, LaidMore
<1> HIDE DEF t
<1>6. n + 1 \in 0 .. N /\ Len(t) = N - (n + 1)
  BY <1>1, <1>2, <1>3
<1>7. ASSUME NEW i \in 1 .. Len(t) PROVE t[i] = message.fields[(n + 1) + i]
  <2>1. i + 1 \in 1 .. Len(todo) /\ n + (i + 1) = (n + 1) + i
    BY <1>1, <1>2, <1>3
  <2> QED
    BY <1>1, <1>3, <2>1
<1>8. Holds(q.data, SizeofInt, bc_from_int(Code[message.type]))
  BY KeepsHolds DEF Writing
<1>9. Writing'
  <2>1. Meant(message', lists') /\ got' = <<>> /\ Packed(dp')
    BY DEF Writing
  <2>2. Holds(dp'.data, SizeofInt, bc_from_int(Code[message'.type])) /\ todo' \in Seq(Field)
    BY <1>3, <1>8 DEF t
  <2>3. /\ Len(todo') = Len(message'.fields) - (n + 1)
        /\ \A i \in 1 .. Len(todo') : todo'[i] = message'.fields[(n + 1) + i]
        /\ Laid(dp'.data, message'.fields, n + 1, new) /\ dp'.index = new[n + 1]
    BY <1>5, <1>6, <1>7 DEF t
  <2> QED
    BY <1>6, <2>1, <2>2, <2>3 DEF Writing
<1> QED
  BY <1>9 DEF MessageInv

LEMMA SetIntStep ==
    ASSUME MessageInv, SetInt
    PROVE  MessageInv'
<1> DEFINE f == Head(todo)
           q == datapacket_set_int(dp, f.value)
<1>1. /\ Writing /\ todo # <<>> /\ f.is = "int" /\ dp' = q /\ stage' = "write"
      /\ todo' = Tail(todo) /\ UNCHANGED <<message, lists, got>>
  BY DEF SetInt, MessageInv
<1>2. f \in Field /\ Packed(dp)
  BY <1>1 DEF Writing
<1> HIDE DEF f
<1>3. /\ Packed(q) /\ Keeps(dp, q) /\ q.index = dp.index + FieldSize(f) /\ q.index \in Nat
      /\ HoldsField(q.data, dp.index, f)
  BY <1>1, <1>2, IntFieldWritten
<1> HIDE DEF q
<1> QED
  BY <1>1, <1>3, OneWritten DEF f

LEMMA SetStringStep ==
    ASSUME MessageInv, NEW s \in Strings, SetString(s)
    PROVE  MessageInv'
<1> DEFINE q == datapacket_set_string(dp, s)
<1>1. /\ Writing /\ todo # <<>> /\ Head(todo) = String(s) /\ dp' = q /\ stage' = "write"
      /\ todo' = Tail(todo) /\ UNCHANGED <<message, lists, got>>
  BY DEF SetString, MessageInv
<1>2. Packed(dp)
  BY <1>1 DEF Writing
<1>3. /\ Packed(q) /\ Keeps(dp, q) /\ q.index = dp.index + FieldSize(String(s)) /\ q.index \in Nat
      /\ HoldsField(q.data, dp.index, String(s))
  BY <1>2, StringFieldWritten
<1> HIDE DEF q
<1> QED
  BY <1>1, <1>3, OneWritten

------------------------------------------------------------------------------
(* Arriving and reading *)

\* The receiver has every byte the sender wrote, and its index is at the type.
LEMMA Arrives ==
    ASSUME NEW p, Packed(p)
    PROVE  LET in == datapacket_create_from_data(datapacket_finish(p).data, p.index)
           IN  /\ in = [data |-> in.data, index |-> SizeofInt, buf_size |-> in.buf_size]
               /\ DOMAIN in.data = 0 .. p.index - 1
               /\ Keeps(p, in)
<1> DEFINE bytes == bc_from_int(p.index)
           whole == [k \in DOMAIN p.data \union 0 .. 0 + Len(bytes) - 1 |->
                       IF k \in 0 .. 0 + Len(bytes) - 1 THEN bytes[k - 0 + 1] ELSE p.data[k]]
           data == [k \in 0 .. p.index - 1 |-> whole[k]]
           in == datapacket_create_from_data(datapacket_finish(p).data, p.index)
<1>1. /\ p = [data |-> p.data, index |-> p.index, buf_size |-> p.buf_size]
      /\ p.index \in Nat /\ SizeofInt <= p.index /\ DOMAIN p.data = SizeofInt .. p.index - 1
  BY DEF Packed, Sound
<1>2. Len(bytes) = 4
  BY IntBytes
<1>3. datapacket_finish(p).data = whole
  <2>1. datapacket_finish(p) = [p EXCEPT !.data = whole]
    BY DEF datapacket_finish, memcpy
  <2> HIDE DEF whole
  <2> QED
    BY <1>1, <2>1
<1>4. in = [data |-> data, index |-> SizeofInt, buf_size |-> SizeofPointer]
  BY <1>3, Zenon DEF datapacket_create_from_data
<1> HIDE DEF bytes, in
<1>5. \A k \in SizeofInt .. p.index - 1 : k \in 0 .. p.index - 1 /\ whole[k] = p.data[k]
  BY <1>1, <1>2 DEF SizeofInt
<1> HIDE DEF whole
<1>6. \A k \in DOMAIN p.data : k \in DOMAIN data /\ data[k] = p.data[k]
  BY <1>1, <1>5
<1>7. DOMAIN data = 0 .. p.index - 1
  OBVIOUS
<1> HIDE DEF data
<1>8. Keeps(p, in)
  BY <1>4, <1>6 DEF Keeps
<1> QED
  BY <1>4, <1>7, <1>8 DEF in

LEMMA ReceiveStep ==
    ASSUME MessageInv, Receive
    PROVE  MessageInv'
<1> DEFINE in == datapacket_create_from_data(datapacket_finish(dp).data, dp.index)
           N == Len(message.fields)
           type == CHOOSE t \in DOMAIN Code : Code[t] = datapacket_get_int(in)
<1>1. Writing /\ todo = <<>>
  BY DEF Receive, MessageInv
<1>2. Meant(message, lists) /\ Packed(dp) /\ got = <<>>
      /\ Holds(dp.data, SizeofInt, bc_from_int(Code[message.type]))
  BY <1>1 DEF Writing
<1>3. PICK n, off :
         /\ n \in 0 .. N
         /\ Len(todo) = N - n
         /\ Laid(dp.data, message.fields, n, off) /\ dp.index = off[n]
  BY <1>1 DEF Writing
<1>4. message.type \in DOMAIN Code /\ message.fields \in Seq(Field) /\ N \in Nat
  BY <1>2 DEF Meant
<1>5. n = N
  BY <1>1, <1>3, <1>4
<1>6. /\ in = [data |-> in.data, index |-> SizeofInt, buf_size |-> in.buf_size]
      /\ DOMAIN in.data = 0 .. dp.index - 1
      /\ Keeps(dp, in)
  BY <1>2, Arrives
<1>7. /\ dp' = Skip(in, SizeofInt)
      /\ wants' \in IF message.to = "server" THEN ServerReads[type] ELSE ClientReads[type]
      /\ stage' = "read" /\ UNCHANGED <<message, lists, got>>
  BY DEF Receive
<1> HIDE DEF in, N
<1>8. type = message.type
  <2>1. Holds(in.data, SizeofInt, bc_from_int(Code[message.type]))
    BY <1>2, <1>6, KeepsHolds
  <2>2. in.index = SizeofInt /\ SizeofInt \in Nat
    BY <1>6 DEF SizeofInt
  <2>3. Code[message.type] \in Ints
    BY <1>4, CodesAreInts
  <2>4. datapacket_get_int(in) = Code[message.type]
    BY <2>1, <2>2, <2>3, IntRead
  <2> QED
    BY <1>4, <2>4, CodesDiffer
<1> HIDE DEF type
<1>9. \E p : Awaits(message, lists, wants', 0, p)
  BY <1>2, <1>7, <1>8 DEF Meant, Reads
<1>10. dp' = [data |-> in.data, index |-> SizeofInt + SizeofInt, buf_size |-> in.buf_size]
  BY <1>6, <1>7 DEF Skip
<1>11. Laid(in.data, message.fields, N, off)
  BY <1>3, <1>5, <1>6, KeepsLaid
<1>12. off[0] = SizeofInt + SizeofInt
  BY <1>11 DEF Laid
<1>13. /\ Len(<<>>) = 0 /\ <<>> \in Seq(Field) /\ 1 .. 0 = {}
  OBVIOUS
<1>14. Reading'
  <2>1. /\ Meant(message', lists')
        /\ dp' = [data |-> dp'.data, index |-> dp'.index, buf_size |-> dp'.buf_size]
        /\ got' \in Seq(Field) /\ Len(got') <= Len(message'.fields)
    BY <1>2, <1>4, <1>7, <1>10, <1>13 DEF N
  <2>2. \A i \in 1 .. Len(got') : got'[i] = message'.fields[i]
    BY <1>2, <1>7, <1>13
  <2>3. /\ Laid(dp'.data, message'.fields, Len(message'.fields), off)
        /\ DOMAIN dp'.data = 0 .. off[Len(message'.fields)] - 1
        /\ dp'.index = off[Len(got')]
    BY <1>2, <1>3, <1>5, <1>6, <1>7, <1>10, <1>11, <1>12, <1>13 DEF N
  <2>4. \E p : Awaits(message', lists', wants', Len(got'), p)
    BY <1>2, <1>7, <1>9, <1>13
  <2> QED
    BY <2>1, <2>2, <2>3, <2>4 DEF Reading
<1> QED
  BY <1>7, <1>14 DEF MessageInv

\* Where the next field lies, the reader finds it.
LEMMA FieldHere ==
    ASSUME NEW p, p.index \in Nat,
           p = [data |-> p.data, index |-> p.index, buf_size |-> p.buf_size],
           NEW f \in Field, HoldsField(p.data, p.index, f)
    PROVE  /\ f.is = "int" =>
                 /\ HasInt(p) /\ f = Int32(datapacket_get_int(p))
                 /\ FieldSize(f) = SizeofInt
           /\ f.is = "string" =>
                 /\ HasString(p) /\ f = String(datapacket_get_string(p))
                 /\ FieldSize(f) = SizeofInt + datapacket_get_int(p) + 1
<1>1. CASE \E n \in Ints : f = Int32(n) /\ f.is = "int"
  <2>1. PICK n \in Ints : f = Int32(n) /\ f.is = "int"
    BY <1>1
  <2>2. Holds(p.data, p.index, bc_from_int(n))
    BY <2>1, FieldKinds DEF HoldsField
  <2>3. HasInt(p) /\ datapacket_get_int(p) = n
    BY <2>2, IntRead
  <2> QED
    BY <2>1, <2>3 DEF FieldSize
<1>2. CASE \E s \in Strings : f = String(s) /\ f.is = "string"
  <2>1. PICK s \in Strings : f = String(s) /\ f.is = "string"
    BY <1>2
  <2>2. f.value = s
    BY <2>1, FieldKinds
  <2>3. /\ Holds(p.data, p.index, bc_from_int(strlen[s]))
        /\ Holds(p.data, p.index + SizeofInt, Chars(s))
    BY <2>1, <2>2 DEF HoldsField
  <2>4. /\ HasString(p) /\ datapacket_get_string(p) = s
        /\ datapacket_get_int(p) = strlen[s]
    BY <2>3, StringRead
  <2> QED
    BY <2>1, <2>2, <2>4 DEF FieldSize
<1> QED
  BY <1>1, <1>2, FieldIs

\* What the reader is at, in the three cases of NextWanted.
LEMMA ReaderAt ==
    ASSUME Reading, wants # <<>>
    PROVE  \E off, p :
             /\ Laid(dp.data, message.fields, Len(message.fields), off)
             /\ DOMAIN dp.data = 0 .. off[Len(message.fields)] - 1
             /\ dp.index = off[Len(got)] /\ dp.index \in Nat
             /\ Awaits(message, lists, wants, Len(got), p)
             /\ Len(got) \in 0 .. Len(message.fields) /\ Len(message.fields) \in Nat
             /\ Len(got) + 1 <= Len(message.fields) =>
                   /\ message.fields[Len(got) + 1] \in Field
                   /\ HoldsField(dp.data, dp.index, message.fields[Len(got) + 1])
                   /\ off[Len(got) + 1] = dp.index + FieldSize(message.fields[Len(got) + 1])
<1> DEFINE N == Len(message.fields)
           n == Len(got)
<1>1. PICK off : /\ Laid(dp.data, message.fields, N, off)
                 /\ DOMAIN dp.data = 0 .. off[N] - 1
                 /\ dp.index = off[n]
  BY DEF Reading
<1>2. PICK p : Awaits(message, lists, wants, n, p)
  BY DEF Reading
<1>3. message.fields \in Seq(Field) /\ N \in Nat /\ n \in Nat /\ n <= N
  BY DEF Reading, Meant
<1>4. dp.index \in Nat
  BY <1>1, <1>3 DEF Laid
<1>5. ASSUME n + 1 <= N
      PROVE  /\ message.fields[n + 1] \in Field
             /\ HoldsField(dp.data, dp.index, message.fields[n + 1])
             /\ off[n + 1] = dp.index + FieldSize(message.fields[n + 1])
  <2>1. n + 1 \in 1 .. N /\ (n + 1) - 1 = n
    BY <1>3, <1>5
  <2>2. message.fields[n + 1] \in Field
    BY <1>3, <2>1
  <2>3. /\ off[n + 1] = off[(n + 1) - 1] + FieldSize(message.fields[n + 1])
        /\ HoldsField(dp.data, off[(n + 1) - 1], message.fields[n + 1])
    BY <1>1, <2>1 DEF Laid
  <2> QED
    BY <1>1, <2>1, <2>2, <2>3
<1>6. n \in 0 .. N
  BY <1>3
<1> HIDE DEF n, N
<1> QED
  BY <1>1, <1>2, <1>3, <1>4, <1>5, <1>6 DEF n, N

\* The next field was read, and the rest of the plan is left.
LEMMA OneRead ==
    ASSUME Reading, stage = "read",
           NEW off, Laid(dp.data, message.fields, Len(message.fields), off),
           DOMAIN dp.data = 0 .. off[Len(message.fields)] - 1,
           Len(got) + 1 <= Len(message.fields),
           dp' = Skip(dp, off[Len(got) + 1] - dp.index), dp.index \in Nat,
           got' = Append(got, message.fields[Len(got) + 1]),
           NEW p, Awaits(message, lists, wants', Len(got) + 1, p),
           UNCHANGED <<stage, message, lists>>
    PROVE  MessageInv'
<1> DEFINE n == Len(got)
           N == Len(message.fields)
           f == message.fields[n + 1]
<1>1. /\ got \in Seq(Field) /\ n \in Nat /\ message.fields \in Seq(Field) /\ N \in Nat
      /\ n + 1 <= N /\ Meant(message, lists)
      /\ dp = [data |-> dp.data, index |-> dp.index, buf_size |-> dp.buf_size]
  BY DEF Reading, Meant
<1>2. f \in Field
  BY <1>1
<1>3. off[n + 1] \in Nat
  BY <1>1 DEF Laid
<1>4. dp' = [data |-> dp.data, index |-> off[n + 1], buf_size |-> dp.buf_size]
  <2>1. dp' = [dp EXCEPT !.index = @ + (off[n + 1] - dp.index)]
    BY DEF Skip
  <2>2. dp.index + (off[n + 1] - dp.index) = off[n + 1]
    BY <1>3
  <2> QED
    BY <1>1, <2>1, <2>2
<1>5. got' = Append(got, f)
  OBVIOUS
<1>6. \A i \in 1 .. n : got[i] = message.fields[i]
  BY DEF Reading
<1> HIDE DEF f
<1>7. /\ got' \in Seq(Field) /\ Len(got') = n + 1
      /\ \A i \in 1 .. n : got'[i] = got[i]
      /\ got'[n + 1] = f
  BY <1>1, <1>2, <1>5
<1>8. \A i \in 1 .. n + 1 : got'[i] = message.fields[i]
  <2> TAKE i \in 1 .. n + 1
  <2>1. CASE i \in 1 .. n
    BY <1>6, <1>7, <2>1
  <2>2. CASE i = n + 1
    BY <1>7, <2>2 DEF f
  <2> QED
    BY <1>1, <2>1, <2>2
<1>9. Reading'
  <2>1. /\ Meant(message', lists')
        /\ dp' = [data |-> dp'.data, index |-> dp'.index, buf_size |-> dp'.buf_size]
        /\ got' \in Seq(Field) /\ Len(got') <= Len(message'.fields)
    BY <1>1, <1>4, <1>7
  <2>2. \A i \in 1 .. Len(got') : got'[i] = message'.fields[i]
    BY <1>7, <1>8
  <2>3. /\ Laid(dp'.data, message'.fields, Len(message'.fields), off)
        /\ DOMAIN dp'.data = 0 .. off[Len(message'.fields)] - 1
        /\ dp'.index = off[Len(got')]
    BY <1>4, <1>7
  <2>4. Awaits(message', lists', wants', Len(got'), p)
    BY <1>7
  <2> QED
    BY <2>1, <2>2, <2>3, <2>4 DEF Reading
<1> QED
  BY <1>9 DEF MessageInv

\* Behind the last field there is nothing to read.
LEMMA PastTheEnd ==
    ASSUME NEW p, p.index \in Nat, DOMAIN p.data = 0 .. p.index - 1
    PROVE  ~HasInt(p) /\ ~HasString(p)
<1>1. p.index \in p.index .. p.index + SizeofInt - 1 /\ p.index \notin 0 .. p.index - 1
  BY DEF SizeofInt
<1>2. ~Within(p, SizeofInt)
  BY <1>1 DEF Within
<1> QED
  BY <1>2 DEF HasInt, HasString

LEMMA GetIntStep ==
    ASSUME MessageInv, GetInt
    PROVE  MessageInv'
<1> DEFINE n == Len(got)
           N == Len(message.fields)
           f == message.fields[n + 1]
<1>1. /\ stage = "read" /\ wants # <<>> /\ Head(wants) = "int" /\ HasInt(dp)
      /\ got' = Append(got, Int32(datapacket_get_int(dp)))
      /\ wants' = Tail(wants) /\ dp' = Skip(dp, SizeofInt)
      /\ UNCHANGED <<stage, message, lists>>
  BY DEF GetInt
<1>2. Reading
  BY <1>1 DEF MessageInv
<1>3. PICK off, p :
         /\ Laid(dp.data, message.fields, N, off)
         /\ DOMAIN dp.data = 0 .. off[N] - 1
         /\ dp.index = off[n] /\ dp.index \in Nat
         /\ Awaits(message, lists, wants, n, p)
         /\ n \in 0 .. N /\ N \in Nat
         /\ n + 1 <= N => /\ f \in Field /\ HoldsField(dp.data, dp.index, f)
                          /\ off[n + 1] = dp.index + FieldSize(f)
  BY <1>1, <1>2, ReaderAt
<1>4. Meant(message, lists)
      /\ dp = [data |-> dp.data, index |-> dp.index, buf_size |-> dp.buf_size]
  BY <1>2 DEF Reading
<1>5. p > 0 /\ n + 1 <= N /\ f.is = "int"
  <2> HIDE DEF n, N, f
  <2>1. \/ AtField(message, wants, Len(got), p) \/ AtEnd(message, wants, Len(got))
        \/ AtList(message, lists, wants, Len(got), p)
    BY <1>1, <1>3, <1>4, NextWanted DEF n, N
  <2> QED
    BY <1>1, <2>1 DEF AtField, AtEnd, AtList, n, N, f
<1>6. f = Int32(datapacket_get_int(dp)) /\ FieldSize(f) = SizeofInt
  <2> HIDE DEF f, n, N
  <2> QED
    BY <1>3, <1>4, <1>5, FieldHere
<1>7. Awaits(message, lists, wants', n + 1, p - 1)
  <2>1. n \in Nat
    BY <1>3
  <2> QED
    BY <1>1, <1>3, <1>4, <1>5, <2>1, AfterOne
<1>8. SizeofInt = off[n + 1] - dp.index
  BY <1>3, <1>5, <1>6 DEF SizeofInt
<1> QED
  BY <1>1, <1>2, <1>3, <1>5, <1>6, <1>7, <1>8, OneRead

LEMMA GetStringStep ==
    ASSUME MessageInv, GetString
    PROVE  MessageInv'
<1> DEFINE n == Len(got)
           N == Len(message.fields)
           f == message.fields[n + 1]
           size == SizeofInt + datapacket_get_int(dp) + 1
<1>1. /\ stage = "read" /\ wants # <<>> /\ Head(wants) = "string" /\ HasString(dp)
      /\ got' = Append(got, String(datapacket_get_string(dp)))
      /\ wants' = Tail(wants) /\ dp' = Skip(dp, size)
      /\ UNCHANGED <<stage, message, lists>>
  BY DEF GetString
<1>2. Reading
  BY <1>1 DEF MessageInv
<1>3. PICK off, p :
         /\ Laid(dp.data, message.fields, N, off)
         /\ DOMAIN dp.data = 0 .. off[N] - 1
         /\ dp.index = off[n] /\ dp.index \in Nat
         /\ Awaits(message, lists, wants, n, p)
         /\ n \in 0 .. N /\ N \in Nat
         /\ n + 1 <= N => /\ f \in Field /\ HoldsField(dp.data, dp.index, f)
                          /\ off[n + 1] = dp.index + FieldSize(f)
  BY <1>1, <1>2, ReaderAt
<1>4. Meant(message, lists)
      /\ dp = [data |-> dp.data, index |-> dp.index, buf_size |-> dp.buf_size]
  BY <1>2 DEF Reading
<1> HIDE DEF n, N, f, size
<1>5. p > 0 /\ n + 1 <= N /\ f.is = "string"
  <2>1. \/ AtField(message, wants, Len(got), p) \/ AtEnd(message, wants, Len(got))
        \/ AtList(message, lists, wants, Len(got), p)
    BY <1>1, <1>3, <1>4, NextWanted DEF n, N
  <2>2. n # N
    BY <1>1, <1>3, PastTheEnd
  <2> QED
    BY <1>1, <2>1, <2>2 DEF AtField, AtEnd, AtList, n, N, f
<1>6. f = String(datapacket_get_string(dp)) /\ FieldSize(f) = size
  BY <1>3, <1>4, <1>5, FieldHere DEF size
<1>7. Awaits(message, lists, wants', n + 1, p - 1)
  <2>1. n \in Nat
    BY <1>3
  <2> QED
    BY <1>1, <1>3, <1>4, <1>5, <2>1, AfterOne
<1>8. size = off[n + 1] - dp.index
  <2>1. f \in Field
    BY <1>3, <1>5
  <2>2. FieldSize(f) \in Nat
    <3>1. PICK s \in Strings : f = String(s)
      BY <1>5, <2>1, FieldIs
    <3>2. f.value = s /\ strlen[s] \in Nat
      BY <3>1, FieldKinds, StringLength
    <3> QED
      BY <1>5, <3>2 DEF FieldSize, SizeofInt
  <2>3. off[n + 1] = dp.index + size /\ size \in Nat
    BY <1>3, <1>5, <1>6, <2>2
  <2> QED
    BY <1>3, <2>3
<1> QED
  BY <1>1, <1>2, <1>3, <1>5, <1>6, <1>7, <1>8, OneRead DEF n, N, f

LEMMA GetCountStep ==
    ASSUME MessageInv, GetCount
    PROVE  MessageInv'
<1> DEFINE n == Len(got)
           N == Len(message.fields)
           f == message.fields[n + 1]
           count == datapacket_get_int(dp)
           k == Len(lists) - Len(wants)
           S == lists[k + 1]
<1>1. /\ stage = "read" /\ wants # <<>> /\ Head(wants) = "list" /\ HasInt(dp)
      /\ got' = Append(got, Int32(count))
      /\ wants' = FlattenSeq([i \in 1 .. count |-> <<"int", "string">>]) \o Tail(wants)
      /\ dp' = Skip(dp, SizeofInt)
      /\ UNCHANGED <<stage, message, lists>>
  BY DEF GetCount
<1>2. Reading
  BY <1>1 DEF MessageInv
<1>3. PICK off, p :
         /\ Laid(dp.data, message.fields, N, off)
         /\ DOMAIN dp.data = 0 .. off[N] - 1
         /\ dp.index = off[n] /\ dp.index \in Nat
         /\ Awaits(message, lists, wants, n, p)
         /\ n \in 0 .. N /\ N \in Nat
         /\ n + 1 <= N => /\ f \in Field /\ HoldsField(dp.data, dp.index, f)
                          /\ off[n + 1] = dp.index + FieldSize(f)
  BY <1>1, <1>2, ReaderAt
<1>4. /\ Meant(message, lists)
      /\ dp = [data |-> dp.data, index |-> dp.index, buf_size |-> dp.buf_size]
  BY <1>2 DEF Reading
<1> HIDE DEF n, N, f, count, k, S
<1>5. /\ p = 0 /\ message.to = "client" /\ Over(message.type) = 0
      /\ k \in 0 .. Len(lists) - 1 /\ n = EndOf(message.fields, lists, k)
      /\ Section(message.fields, n, S)
  <2>1. \/ AtField(message, wants, Len(got), p) \/ AtEnd(message, wants, Len(got))
        \/ AtList(message, lists, wants, Len(got), p)
    BY <1>1, <1>3, <1>4, NextWanted DEF n, N
  <2>2. n + 1 <= N => f.is # "list"
    BY <1>3, FieldIs
  <2> QED
    BY <1>1, <2>1, <2>2 DEF AtField, AtEnd, AtList, n, N, f, k, S
<1>6. S \in SUBSET Uids
  <2>1. lists \in Seq(SUBSET Uids) /\ Len(lists) \in Nat
    BY <1>4 DEF Meant
  <2>2. k + 1 \in 1 .. Len(lists)
    BY <1>5, <2>1
  <2> QED
    BY <2>1, <2>2 DEF S
<1>7. PICK uids : /\ ListsAll(uids, S) /\ n + Size(S) <= N
                  /\ message.fields[n + 1] = Int32(Len(uids))
  BY <1>5 DEF Section, N
<1>8. Len(uids) = Cardinality(S) /\ Len(uids) \in Nat
  BY <1>6, <1>7, ListLength, UidsAreInts
<1>9. n + 1 <= N
  BY <1>3, <1>7, <1>6, SizeIs
<1>10. f = Int32(Len(uids)) /\ f.is = "int"
  BY <1>7, FieldKinds DEF f
<1>11. f = Int32(count) /\ FieldSize(f) = SizeofInt
  BY <1>3, <1>4, <1>9, <1>10, FieldHere DEF count
<1>12. count = Cardinality(S)
  <2>1. f.value = Len(uids)
    BY <1>10, FieldKinds, Zenon
  <2>2. f.value = count
    BY <1>11, FieldKinds, Zenon
  <2> QED
    BY <1>8, <2>1, <2>2
<1>13. Awaits(message, lists, wants', n + 1, 2 * count)
  <2>1. n \in Nat
    BY <1>3
  <2>2. Awaits(message, lists, wants, n, 0)
    BY <1>3, <1>5
  <2> QED
    BY <1>1, <1>4, <1>5, <1>12, <2>1, <2>2, AfterCount DEF k, S
<1>14. SizeofInt = off[n + 1] - dp.index
  BY <1>3, <1>9, <1>11 DEF SizeofInt
<1> QED
  BY <1>1, <1>2, <1>3, <1>9, <1>11, <1>13, <1>14, OneRead DEF n, N, f

LEMMA GetGarbageStep ==
    ASSUME MessageInv, GetGarbage
    PROVE  MessageInv'
<1> DEFINE n == Len(got)
           N == Len(message.fields)
           f == message.fields[n + 1]
           k == Len(lists) - Len(wants)
           S == lists[k + 1]
<1>1. /\ stage = "read" /\ wants # <<>>
      /\ IF Head(wants) = "string" THEN ~HasString(dp) ELSE ~HasInt(dp)
      /\ stage' = "undefined" /\ UNCHANGED message
  BY DEF GetGarbage
<1>2. Reading
  BY <1>1 DEF MessageInv
<1>3. PICK off, p :
         /\ dp.index \in Nat
         /\ Awaits(message, lists, wants, n, p)
         /\ n \in 0 .. N /\ N \in Nat
         /\ n + 1 <= N => f \in Field /\ HoldsField(dp.data, dp.index, f)
  BY <1>1, <1>2, ReaderAt
<1>4. /\ Meant(message, lists)
      /\ dp = [data |-> dp.data, index |-> dp.index, buf_size |-> dp.buf_size]
  BY <1>2 DEF Reading
<1> HIDE DEF n, N, f, k, S
<1>5. \/ n + 1 <= N /\ Head(wants) = f.is
      \/ message.type = "MSG_REGISTR_SUCCESSFUL"
      \/ /\ Head(wants) = "list" /\ k \in 0 .. Len(lists) - 1
         /\ Section(message.fields, n, S)
  <2>1. \/ AtField(message, wants, Len(got), p) \/ AtEnd(message, wants, Len(got))
        \/ AtList(message, lists, wants, Len(got), p)
    BY <1>1, <1>3, <1>4, NextWanted DEF n, N
  <2> QED
    BY <2>1 DEF AtField, AtEnd, AtList, n, N, f, k, S
<1>6. ASSUME n + 1 <= N, Head(wants) = f.is PROVE FALSE
  <2>1. /\ f.is = "int" => HasInt(dp)
        /\ f.is = "string" => HasString(dp)
    BY <1>3, <1>4, <1>6, FieldHere
  <2>2. f.is = "int" \/ f.is = "string"
    BY <1>3, <1>6, FieldIs
  <2> QED
    BY <1>1, <1>6, <2>1, <2>2
<1>7. ASSUME Head(wants) = "list", k \in 0 .. Len(lists) - 1, Section(message.fields, n, S)
      PROVE  FALSE
  <2>1. S \in SUBSET Uids
    <3>1. lists \in Seq(SUBSET Uids) /\ Len(lists) \in Nat
      BY <1>4 DEF Meant
    <3>2. k + 1 \in 1 .. Len(lists)
      BY <1>7, <3>1
    <3> QED
      BY <3>1, <3>2 DEF S
  <2>2. PICK uids : n + Size(S) <= N /\ message.fields[n + 1] = Int32(Len(uids))
    BY <1>7 DEF Section, N
  <2>3. n + 1 <= N
    BY <1>3, <2>1, <2>2, SizeIs
  <2>4. f.is = "int"
    BY <2>2, FieldKinds DEF f
  <2>5. HasInt(dp)
    BY <1>3, <1>4, <2>3, <2>4, FieldHere
  <2> QED
    BY <1>1, <1>7, <2>5
<1>8. message.type = "MSG_REGISTR_SUCCESSFUL"
  BY <1>5, <1>6, <1>7
<1> QED
  BY <1>1, <1>8 DEF MessageInv

LEMMA HandledStep ==
    ASSUME MessageInv, Handled
    PROVE  MessageInv'
BY DEF Handled, MessageInv, Reading

LEMMA DestroyStep ==
    ASSUME MessageInv, Destroy
    PROVE  MessageInv'
BY DEF Destroy, MessageInv

LEMMA StutterStep ==
    ASSUME MessageInv, UNCHANGED vars
    PROVE  MessageInv'
BY DEF vars, MessageInv, Reading, Writing

LEMMA MessageStep ==
    ASSUME MessageInv, [Next]_vars
    PROVE  MessageInv'
<1>1. ASSUME NEW line \in Lines, Command(line) PROVE MessageInv'
  BY <1>1, TypedMeant, BeginStep DEF Command
<1>2. ASSUME NEW line \in Lines, Disconnecting(line) PROVE MessageInv'
  BY <1>2, LeavingMeant, BeginStep DEF Disconnecting
<1>3. ASSUME NEW text \in Texts, Saying(text) PROVE MessageInv'
  BY <1>3, SaidMeant, BeginStep DEF Saying
<1>4. ASSUME NEW m \in Notices, Notice(m) PROVE MessageInv'
  BY <1>4, NoticeMeant, BeginStep DEF Notice
<1>5. ASSUME NEW online \in SUBSET Uids, AnswerWho(online) PROVE MessageInv'
  BY <1>5, WhoMeant, BeginStep DEF AnswerWho
<1>6. ASSUME NEW friends \in SUBSET Uids, NEW online \in SUBSET Uids,
             NEW requests \in SUBSET Uids, AnswerFriends(friends, online, requests)
      PROVE  MessageInv'
  BY <1>6, FriendsMeant, BeginStep DEF AnswerFriends
<1> QED
  BY <1>1, <1>2, <1>3, <1>4, <1>5, <1>6, SetIntStep, SetStringStep, ReceiveStep,
     GetIntStep, GetStringStep, GetCountStep, GetGarbageStep, HandledStep, DestroyStep,
     StutterStep DEF Next

------------------------------------------------------------------------------
(* What the invariant says of a message that was read *)

LEMMA InitMessageInv == Init => MessageInv
BY DEF Init, MessageInv

LEMMA AllRead ==
    ASSUME MessageInv, stage = "handled", message.to = "client"
    PROVE  got = message.fields /\ dp.index \notin DOMAIN dp.data /\ Meant(message, lists)
<1> DEFINE N == Len(message.fields)
           n == Len(got)
<1>1. Reading /\ wants = <<>>
  BY DEF MessageInv
<1>2. /\ Meant(message, lists) /\ got \in Seq(Field) /\ n <= N
      /\ \A i \in 1 .. n : got[i] = message.fields[i]
  BY <1>1 DEF Reading
<1>3. PICK off : DOMAIN dp.data = 0 .. off[N] - 1 /\ dp.index = off[n]
                 /\ Laid(dp.data, message.fields, N, off)
  BY <1>1 DEF Reading
<1>4. PICK p : Awaits(message, lists, wants, n, p)
  BY <1>1 DEF Reading
<1>5. /\ message.fields \in Seq(Field) /\ N \in Nat /\ n \in Nat
      /\ lists \in Seq(SUBSET Uids) /\ Len(lists) \in Nat
  BY <1>2 DEF Meant
<1>6. p = 0 /\ Len(wants) = 0
  BY <1>1, <1>4 DEF Awaits
<1>7. n + 0 = EndOf(message.fields, lists, Len(lists) - (0 - 0)) + Over(message.type)
  BY <1>4, <1>6 DEF Awaits
<1>8. EndOf(message.fields, lists, Len(lists)) = N
  <2>1. CASE lists = <<>>
    BY <2>1 DEF EndOf
  <2>2. CASE lists # <<>>
    BY <1>2, <2>2 DEF Meant
  <2> QED
    BY <2>1, <2>2
<1>9. Over(message.type) \in Nat
  BY DEF Over
<1>10. n = N
  <2>1. Len(lists) - (0 - 0) = Len(lists)
    BY <1>5
  <2>2. n = N + Over(message.type)
    BY <1>5, <1>7, <1>8, <2>1
  <2> HIDE DEF n, N
  <2> QED
    BY <1>2, <1>5, <1>9, <2>2 DEF n, N
<1>11. got = message.fields
  BY <1>2, <1>5, <1>10
<1>12. off[N] \in Nat /\ off[N] \notin 0 .. off[N] - 1
  <2>1. off \in [Nat -> Nat]
    BY <1>3 DEF Laid
  <2>2. off[N] \in Nat
    BY <1>5, <2>1
  <2>3. \A e \in Nat : e \notin 0 .. e - 1
    OBVIOUS
  <2> QED
    BY <2>2, <2>3
<1> QED
  BY <1>2, <1>3, <1>10, <1>11, <1>12

LEMMA ReadSoFar ==
    ASSUME Reading
    PROVE  IsPrefix(got, message.fields)
<1>1. /\ got \in Seq(Field) /\ message.fields \in Seq(Field)
      /\ Len(got) <= Len(message.fields)
      /\ \A i \in 1 .. Len(got) : got[i] = message.fields[i]
  BY DEF Reading, Meant
<1>2. SubSeq(got, 1, Len(got)) = SubSeq(message.fields, 1, Len(got))
  BY <1>1
<1> QED
  BY <1>1, <1>2 DEF IsPrefix

LEMMA ReadsWhatWasWrittenInv ==
    ASSUME MessageInv
    PROVE  ReadsWhatWasWritten
<1>1. stage = "undefined" => message.type = "MSG_REGISTR_SUCCESSFUL"
  BY DEF MessageInv
<1>2. stage \in {"read", "handled"} => IsPrefix(got, message.fields)
  BY ReadSoFar DEF MessageInv
<1>3. stage = "handled" /\ message.to = "client" =>
        got = message.fields /\ dp.index \notin DOMAIN dp.data
  BY AllRead
<1> QED
  BY <1>1, <1>2, <1>3 DEF ReadsWhatWasWritten

LEMMA ReversedRange ==
    ASSUME NEW S, NEW s \in Seq(S)
    PROVE  Len(Reverse(s)) = Len(s) /\ Range(Reverse(s)) = {s[i] : i \in 1 .. Len(s)}
<1> DEFINE t == Reverse(s)
           n == Len(s)
<1>1. n \in Nat /\ t = [i \in 1 .. n |-> s[(n - i) + 1]]
  BY DEF Reverse
<1>2. Len(t) = n /\ DOMAIN t = 1 .. n
  BY <1>1
<1>3. \A i \in 1 .. n : /\ (n - i) + 1 \in 1 .. n /\ t[i] = s[(n - i) + 1]
                        /\ t[(n - i) + 1] = s[i]
  BY <1>1
<1> HIDE DEF t
<1>4. Range(t) = {s[i] : i \in 1 .. n}
  <2>1. Range(t) = {t[i] : i \in 1 .. n}
    BY <1>2, Zenon DEF Range
  <2>2. \A i \in 1 .. n : \E j \in 1 .. n : t[i] = s[j]
    BY <1>3, Zenon
  <2>3. \A i \in 1 .. n : \E j \in 1 .. n : s[i] = t[j]
    BY <1>3, Zenon
  <2> HIDE DEF n
  <2>4. ASSUME NEW x \in Range(t) PROVE x \in {s[i] : i \in 1 .. n}
    BY <2>1, <2>2
  <2>5. ASSUME NEW x \in {s[i] : i \in 1 .. n} PROVE x \in Range(t)
    BY <2>1, <2>3
  <2> QED
    BY <2>4, <2>5
<1> QED
  BY <1>2, <1>4 DEF t

\* One list of a packet that was read to its end: the stack the client pops it from
\* shows the users of its set, and the next list begins behind it.
LEMMA OneListShown ==
    ASSUME NEW m, NEW sets, Meant(m, sets), got = m.fields,
           NEW k \in 1 .. Len(sets), NEW start, start = EndOf(m.fields, sets, k - 1) + 1
    PROVE  /\ Len(ListAt(start)) = Cardinality(sets[k])
           /\ Range(ListAt(start)) = {<<u, username[u]>> : u \in sets[k]}
           /\ After(start) = EndOf(m.fields, sets, k) + 1
<1> DEFINE c == EndOf(m.fields, sets, k - 1)
           S == sets[k]
<1>1. sets \in Seq(SUBSET Uids) /\ Len(sets) \in Nat /\ m.fields \in Seq(Field)
  BY DEF Meant
<1>2. k - 1 \in 0 .. Len(sets) /\ k \in 0 .. Len(sets) /\ k > 0 /\ S \in SUBSET Uids
  BY <1>1
<1>3. c \in Nat /\ EndOf(m.fields, sets, k) = c + Size(S)
  BY <1>2, EndOfIs
<1>4. Section(m.fields, c, S)
  BY <1>1 DEF Meant
<1> HIDE DEF c, S
<1>5. PICK uids : /\ ListsAll(uids, S)
                  /\ got[c + 1] = Int32(Len(uids))
                  /\ \A i \in 1 .. Len(uids) :
                        /\ got[c + 2 * i] = Int32(uids[i])
                        /\ got[c + 2 * i + 1] = String(username[uids[i]])
  BY <1>4 DEF Section
<1> DEFINE n == Len(uids)
           shown == [i \in 1 .. n |-> <<uids[i], username[uids[i]]>>]
<1>6. n \in Nat /\ n = Cardinality(S) /\ uids \in Seq(S) /\ DOMAIN uids = 1 .. n
      /\ \A u \in S : \E i \in DOMAIN uids : uids[i] = u
  BY <1>5, ListLength DEF ListsAll
<1>7. start = c + 1 /\ got[start].value = n
  BY <1>5, FieldKinds DEF c
<1>8. \A i \in 1 .. n : /\ got[start + 2 * i - 1].value = uids[i]
                        /\ got[start + 2 * i].value = username[uids[i]]
  <2> TAKE i \in 1 .. n
  <2>1. start + 2 * i - 1 = c + 2 * i /\ start + 2 * i = c + 2 * i + 1
    <3>1. c \in Nat /\ start = c + 1 /\ i \in Int
      BY <1>3, <1>7
    <3> HIDE DEF n
    <3> QED
      BY <3>1
  <2>2. got[c + 2 * i].value = uids[i] /\ got[c + 2 * i + 1].value = username[uids[i]]
    BY <1>5, FieldKinds
  <2> QED
    BY <2>1, <2>2
<1> HIDE DEF n
<1>9. [i \in 1 .. got[start].value |->
         <<got[start + 2 * i - 1].value, got[start + 2 * i].value>>] = shown
  BY <1>7, <1>8
<1>10. ListAt(start) = Popped(Pushed(shown))
  BY <1>9, Zenon DEF ListAt
<1> DEFINE Pairs == {<<u, username[u]>> : u \in S}
<1>11. \A i \in 1 .. n : uids[i] \in S
  BY <1>6 DEF n
<1>12. shown \in Seq(Pairs) /\ Len(shown) = n
  <2>1. \A i \in 1 .. n : <<uids[i], username[uids[i]]>> \in Pairs
    BY <1>11
  <2> HIDE DEF Pairs
  <2> QED
    BY <1>6, <2>1
<1>13. {shown[i] : i \in 1 .. n} = Pairs
  <2>1. \A i \in 1 .. n : shown[i] \in Pairs
    BY <1>11
  <2>2. ASSUME NEW u \in S PROVE \E i \in 1 .. n : shown[i] = <<u, username[u]>>
    <3>1. PICK i \in 1 .. n : uids[i] = u
      BY <1>6
    <3> QED
      BY <3>1
  <2> HIDE DEF shown
  <2> QED
    BY <2>1, <2>2
<1> HIDE DEF shown, Pairs
<1>14. ListAt(start) = Reverse(shown)
  BY <1>10, <1>12, StacksGiveBack
<1>15. Len(ListAt(start)) = n /\ Range(ListAt(start)) = Pairs
  BY <1>12, <1>13, <1>14, ReversedRange
<1>16. After(start) = EndOf(m.fields, sets, k) + 1
  <2>1. Size(S) = 1 + 2 * n
    BY <1>6 DEF Size
  <2>2. After(start) = start + 1 + 2 * n
    BY <1>7 DEF After
  <2>3. EndOf(m.fields, sets, k) = c + (1 + 2 * n)
    BY <1>3, <2>1
  <2>4. After(start) = (c + 1) + 1 + 2 * n
    BY <1>7, <2>2
  <2>5. \A x, y \in Nat : (x + 1) + 1 + 2 * y = (x + (1 + 2 * y)) + 1
    OBVIOUS
  <2> QED
    BY <1>3, <1>6, <2>3, <2>4, <2>5
<1> QED
  BY <1>6, <1>15, <1>16 DEF S, Pairs

LEMMA ListsArriveInv ==
    ASSUME MessageInv
    PROVE  ListsArrive
<1> SUFFICES ASSUME stage = "handled"
             PROVE  /\ Len(ListsShown) = Len(lists)
                    /\ \A k \in DOMAIN lists :
                          /\ Len(ListsShown[k]) = Cardinality(lists[k])
                          /\ Range(ListsShown[k]) = {<<u, username[u]>> : u \in lists[k]}
  BY DEF ListsArrive
<1>1. Meant(message, lists)
  BY DEF MessageInv, Reading
<1>2. /\ lists \in Seq(SUBSET Uids) /\ Len(lists) = ListsOf(message)
      /\ DOMAIN lists = 1 .. Len(lists)
  BY <1>1 DEF Meant
<1> DEFINE shows(l, k) == /\ Len(l) = Cardinality(lists[k])
                          /\ Range(l) = {<<u, username[u]>> : u \in lists[k]}
<1>3. CASE message.to = "client" /\ message.type = "MSG_WHO"
  <2>1. got = message.fields
    BY <1>3, AllRead
  <2>2. Len(lists) = 1
    BY <1>2, <1>3 DEF ListsOf
  <2>3. EndOf(message.fields, lists, 1 - 1) + 1 = 1
    BY <2>2 DEF EndOf
  <2>4. shows(ListAt(1), 1)
    BY <1>1, <2>1, <2>2, <2>3, OneListShown
  <2>5. ListsShown = <<ListAt(1)>>
    BY <1>3 DEF ListsShown
  <2> HIDE DEF shows
  <2>6. Len(ListsShown) = 1 /\ ListsShown[1] = ListAt(1)
    BY <2>5
  <2>7. \A k \in DOMAIN lists : shows(ListsShown[k], k)
    BY <1>2, <2>2, <2>4, <2>6
  <2> QED
    BY <2>2, <2>6, <2>7 DEF shows
<1>4. CASE message.to = "client" /\ message.type = "MSG_FRIENDS"
  <2> DEFINE a == 1
             b == After(a)
             c == After(b)
  <2>1. got = message.fields
    BY <1>4, AllRead
  <2>2. Len(lists) = 3
    BY <1>2, <1>4 DEF ListsOf
  <2>3. 1 \in 1 .. Len(lists) /\ 2 \in 1 .. Len(lists) /\ 3 \in 1 .. Len(lists)
        /\ 1 - 1 = 0 /\ 2 - 1 = 1 /\ 3 - 1 = 2
    BY <2>2
  <2>4. EndOf(message.fields, lists, 1 - 1) + 1 = a
    BY <2>2 DEF EndOf
  <2> HIDE DEF a
  <2>5. shows(ListAt(a), 1) /\ b = EndOf(message.fields, lists, 1) + 1
    BY <1>1, <2>1, <2>3, <2>4, OneListShown
  <2> HIDE DEF b
  <2>6. shows(ListAt(b), 2) /\ c = EndOf(message.fields, lists, 2) + 1
    BY <1>1, <2>1, <2>3, <2>5, OneListShown
  <2> HIDE DEF c
  <2>7. shows(ListAt(c), 3)
    BY <1>1, <2>1, <2>3, <2>6, OneListShown
  <2>8. ListsShown = <<ListAt(a), ListAt(b), ListAt(c)>>
    BY <1>4, Zenon DEF ListsShown, a, b, c
  <2> HIDE DEF shows
  <2>9. /\ Len(ListsShown) = 3 /\ ListsShown[1] = ListAt(a)
        /\ ListsShown[2] = ListAt(b) /\ ListsShown[3] = ListAt(c)
    BY <2>8
  <2>10. \A k \in DOMAIN lists : k = 1 \/ k = 2 \/ k = 3
    BY <1>2, <2>2
  <2>11. \A k \in DOMAIN lists : shows(ListsShown[k], k)
    BY <2>5, <2>6, <2>7, <2>9, <2>10
  <2> QED
    BY <2>2, <2>9, <2>11 DEF shows
<1>5. CASE ~(message.to = "client" /\ message.type \in {"MSG_WHO", "MSG_FRIENDS"})
  <2>1. Len(lists) = 0 /\ ListsShown = <<>>
    BY <1>2, <1>5 DEF ListsOf, ListsShown
  <2> QED
    BY <1>2, <2>1
<1> QED
  BY <1>3, <1>4, <1>5

LEMMA FitsBufferInv ==
    ASSUME MessageInv
    PROVE  FitsBuffer
BY DEF MessageInv, Writing, Packed, Sound, FitsBuffer

------------------------------------------------------------------------------
(* Theorems *)

\* Whatever is sent in whichever direction: while it is written, the fields so far
\* lie in the buffer one behind the other; while it is read, the reader waits for
\* the fields that are left.
THEOREM MessagesMeant == Spec => []MessageInv
<1>1. Init => MessageInv
  BY InitMessageInv
<1>2. MessageInv /\ [Next]_vars => MessageInv'
  BY MessageStep
<1> QED
  BY <1>1, <1>2, PTL DEF Spec

\* Every byte of every packet is written inside the allocated buffer, however often
\* datapacket_verify_size makes it grow (datapacket.c:28-40, with its assertion).
THEOREM PacketsFit == Spec => []FitsBuffer
<1>1. MessageInv => FitsBuffer
  BY FitsBufferInv
<1> QED
  BY <1>1, MessagesMeant, PTL

\* Every handler of the server and of the client reads the fields the sender of the
\* packet wrote, in their order and as what they are, and the client reads to the
\* end; only behind MSG_REGISTR_SUCCESSFUL is anything read that was not written
\* (cl_exec_* and process_packet of client.c, handle_packet_* of server.c).
THEOREM FieldsArrive == Spec => []ReadsWhatWasWritten
<1>1. MessageInv => ReadsWhatWasWritten
  BY ReadsWhatWasWrittenInv
<1> QED
  BY <1>1, MessagesMeant, PTL

\* The lists cb_who and cb_friends show hold every user the server meant, once and
\* with the right name, through the tree, four stacks, and a packet that grew
\* (set_friends_online, write_usernames_to_dp and process_packet).
THEOREM UsersArrive == Spec => []ListsArrive
<1>1. MessageInv => ListsArrive
  BY ListsArriveInv
<1> QED
  BY <1>1, MessagesMeant, PTL
==============================================================================
