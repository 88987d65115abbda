-------------------------- MODULE ServerUserProofs --------------------------
(***************************************************************************)
(* What the operations on a user's list of connections do to it, for lists *)
(* of any length: the facts that the invariants of Server rest on.         *)
(***************************************************************************)
EXTENDS ServerUser, TLAPS

\* The list of connections of a user, as the server keeps it: con_len is its
\* length and no connection is in it twice.
ProperList(su, S) ==
    /\ su.connections \in Seq(S)
    /\ su.con_len = Len(su.connections)
    /\ IsInjective(su.connections)

\* struct server_user, whatever its connections, names and levels are.
Users(S, T, P) ==
    [con_len : Nat, connections : Seq(S), username : T, p_level : P]

\* Removing the first occurrence of an element of a list without repetitions
\* removes that element and nothing else.
LEMMA RemoveFirstFromList ==
    ASSUME NEW S, NEW s \in Seq(S), IsInjective(s), NEW e \in ToSet(s)
    PROVE  /\ RemoveFirst(s, e) \in Seq(S)
           /\ Len(RemoveFirst(s, e)) = Len(s) - 1
           /\ ToSet(RemoveFirst(s, e)) = ToSet(s) \ {e}
           /\ IsInjective(RemoveFirst(s, e))
<1>1. PICK k \in 1 .. Len(s) : s[k] = e
  BY DEF ToSet
<1>2. {i \in 1 .. Len(s) : s[i] = e} = {k}
  BY <1>1 DEF IsInjective
<1>3. SelectInSeq(s, LAMBDA v : v = e) = k
  BY <1>1, <1>2 DEF SelectInSeq, Min
<1>4. RemoveFirst(s, e) = RemoveAt(s, k)
  BY <1>1, <1>3 DEF RemoveFirst
<1> DEFINE a == SubSeq(s, 1, k - 1)
           b == SubSeq(s, k + 1, Len(s))
           r == a \o b
<1>5. /\ a \in Seq(S) /\ Len(a) = k - 1
      /\ \A i \in 1 .. k - 1 : a[i] = s[i]
  BY <1>1
<1>6. /\ b \in Seq(S) /\ Len(b) = Len(s) - k
      /\ \A i \in 1 .. Len(s) - k : b[i] = s[i + k]
  BY <1>1
<1>7. r = RemoveFirst(s, e)
  BY <1>4 DEF RemoveAt
<1> HIDE DEF a, b
<1>8. r \in Seq(S)
  BY <1>5, <1>6
<1>9. Len(r) = Len(s) - 1
  <2>1. a \in Seq(S) /\ b \in Seq(S)
    BY <1>5, <1>6
  <2>2. Len(a \o b) = Len(a) + Len(b)
    BY <2>1
  <2> QED
    BY <2>2, <1>5, <1>6
<1>10. \A i \in 1 .. Len(s) - 1 : r[i] = IF i < k THEN s[i] ELSE s[i + 1]
  BY <1>1, <1>5, <1>6
<1> HIDE DEF r
<1>11. DOMAIN r = 1 .. Len(s) - 1 /\ DOMAIN s = 1 .. Len(s)
  BY <1>8, <1>9
<1>12. ASSUME NEW x \in ToSet(s) \ {e} PROVE x \in ToSet(r)
  <2>1. PICK i \in 1 .. Len(s) : s[i] = x
    BY DEF ToSet
  <2>2. CASE i < k
    <3>1. i \in DOMAIN r /\ r[i] = x
      BY <2>1, <2>2, <1>1, <1>10, <1>11
    <3> QED
      BY <3>1 DEF ToSet
  <2>3. CASE i > k
    <3>1. i - 1 \in DOMAIN r /\ r[i - 1] = x
      BY <2>1, <2>3, <1>1, <1>10, <1>11
    <3> QED
      BY <3>1 DEF ToSet
  <2> QED
    BY <2>1, <2>2, <2>3, <1>1
<1>13. ASSUME NEW x \in ToSet(r) PROVE x \in ToSet(s) \ {e}
  <2>1. PICK i \in 1 .. Len(s) - 1 : r[i] = x
    BY <1>11 DEF ToSet
  <2>2. PICK j \in 1 .. Len(s) : j # k /\ s[j] = x
    BY <2>1, <1>1, <1>10
  <2> QED
    BY <2>2, <1>1, <1>11 DEF ToSet, IsInjective
<1>14. IsInjective(r)
  <2> DEFINE place(n) == IF n < k THEN n ELSE n + 1
  <2>1. \A n \in 1 .. Len(s) - 1 : place(n) \in 1 .. Len(s) /\ r[n] = s[place(n)]
    BY <1>1, <1>10
  <2>2. \A m, n \in 1 .. Len(s) - 1 : place(m) = place(n) => m = n
    BY <1>1
  <2>3. ASSUME NEW m \in 1 .. Len(s) - 1, NEW n \in 1 .. Len(s) - 1, r[m] = r[n]
        PROVE  m = n
    <3>1. /\ place(m) \in 1 .. Len(s) /\ place(n) \in 1 .. Len(s)
          /\ s[place(m)] = s[place(n)]
      BY <2>1, <2>3
    <3> HIDE DEF place
    <3>2. place(m) = place(n)
      BY <3>1, <1>11 DEF IsInjective
    <3> QED
      BY <2>2, <3>2
  <2> HIDE DEF place
  <2> QED
    BY <2>3, <1>11 DEF IsInjective
<1> QED
  BY <1>7, <1>8, <1>9, <1>12, <1>13, <1>14

\* Putting an element at the head of a list adds it, and keeps a list without
\* repetitions so if the element is new to it.
LEMMA ConsToList ==
    ASSUME NEW S, NEW s \in Seq(S), NEW e \in S
    PROVE  /\ Cons(e, s) \in Seq(S)
           /\ Len(Cons(e, s)) = Len(s) + 1
           /\ ToSet(Cons(e, s)) = ToSet(s) \union {e}
           /\ e \notin ToSet(s) /\ IsInjective(s) => IsInjective(Cons(e, s))
<1> DEFINE r == Cons(e, s)
<1>1. r \in Seq(S) /\ Len(r) = Len(s) + 1
  BY DEF Cons
<1>2. \A i \in 1 .. Len(s) + 1 : r[i] = IF i = 1 THEN e ELSE s[i - 1]
  BY DEF Cons
<1> HIDE DEF r
<1>3. DOMAIN r = 1 .. Len(s) + 1 /\ DOMAIN s = 1 .. Len(s)
  BY <1>1
<1>4. ASSUME NEW x \in ToSet(s) PROVE x \in ToSet(r)
  <2>1. PICK i \in 1 .. Len(s) : s[i] = x
    BY <1>3 DEF ToSet
  <2>2. i + 1 \in DOMAIN r /\ r[i + 1] = x
    BY <2>1, <1>2, <1>3
  <2> QED
    BY <2>2 DEF ToSet
<1>5. e \in ToSet(r)
  <2>1. 1 \in DOMAIN r /\ r[1] = e
    BY <1>2, <1>3
  <2> QED
    BY <2>1 DEF ToSet
<1>6. ASSUME NEW x \in ToSet(r) PROVE x \in ToSet(s) \union {e}
  BY <1>2, <1>3 DEF ToSet
<1>7. ASSUME e \notin ToSet(s), IsInjective(s) PROVE IsInjective(r)
  <2>1. \A i \in 1 .. Len(s) : s[i] # e
    BY <1>7, <1>3 DEF ToSet
  <2> QED
    BY <2>1, <1>7, <1>2, <1>3 DEF IsInjective
<1> QED
  BY <1>1, <1>4, <1>5, <1>6, <1>7 DEF r

\* Cutting the first n elements off a list without repetitions leaves the
\* others.
LEMMA SuffixOfList ==
    ASSUME NEW S, NEW s \in Seq(S), IsInjective(s), NEW n \in 1 .. Len(s)
    PROVE  LET cut  == SubSeq(s, 1, n)
               rest == SubSeq(s, n + 1, Len(s))
           IN  /\ rest \in Seq(S)
               /\ Len(rest) = Len(s) - n
               /\ IsInjective(rest)
               /\ ToSet(cut) \subseteq ToSet(s)
               /\ ToSet(rest) = ToSet(s) \ ToSet(cut)
<1> DEFINE cut  == SubSeq(s, 1, n)
           rest == SubSeq(s, n + 1, Len(s))
<1>1. cut \in Seq(S) /\ Len(cut) = n /\ \A i \in 1 .. n : cut[i] = s[i]
  OBVIOUS
<1>2. /\ rest \in Seq(S) /\ Len(rest) = Len(s) - n
      /\ \A i \in 1 .. Len(s) - n : rest[i] = s[i + n]
  OBVIOUS
<1> HIDE DEF cut, rest
<1>3. /\ DOMAIN s = 1 .. Len(s) /\ DOMAIN cut = 1 .. n
      /\ DOMAIN rest = 1 .. Len(s) - n
  BY <1>1, <1>2
<1>4. IsInjective(rest)
  <2>1. SUFFICES ASSUME NEW i \in 1 .. Len(s) - n, NEW j \in 1 .. Len(s) - n,
                        rest[i] = rest[j]
                 PROVE  i = j
    BY <1>3 DEF IsInjective
  <2>2. s[i + n] = s[j + n] /\ i + n \in DOMAIN s /\ j + n \in DOMAIN s
    BY <2>1, <1>2, <1>3
  <2>3. i + n = j + n
    BY <2>2 DEF IsInjective
  <2> QED
    BY <2>3
<1>5. ToSet(cut) \subseteq ToSet(s)
  BY <1>1, <1>3 DEF ToSet
<1>6. ASSUME NEW x \in ToSet(rest) PROVE x \in ToSet(s) \ ToSet(cut)
  <2>1. PICK i \in 1 .. Len(s) - n : rest[i] = x
    BY <1>3 DEF ToSet
  <2>2. i + n \in DOMAIN s /\ s[i + n] = x
    BY <2>1, <1>2, <1>3
  <2>3. ASSUME NEW j \in 1 .. n PROVE cut[j] # x
    BY <2>1, <2>2, <1>1, <1>3 DEF IsInjective
  <2> QED
    BY <2>2, <2>3, <1>3 DEF ToSet
<1>7. ASSUME NEW x \in ToSet(s) \ ToSet(cut) PROVE x \in ToSet(rest)
  <2>1. PICK i \in 1 .. Len(s) : s[i] = x
    BY <1>3 DEF ToSet
  <2>2. ~(i <= n)
    BY <2>1, <1>1, <1>3 DEF ToSet
  <2>3. i - n \in DOMAIN rest /\ rest[i - n] = x
    BY <2>1, <2>2, <1>2, <1>3
  <2> QED
    BY <2>3 DEF ToSet
<1> QED
  BY <1>2, <1>4, <1>5, <1>6, <1>7 DEF cut, rest

\* server_user_add_connection with a connection that is not in the list keeps
\* the list proper and adds that connection.
THEOREM AddConnection ==
    ASSUME NEW S, NEW T, NEW P,
           NEW su \in Users(S, T, P),
           ProperList(su, S), NEW ssl \in S, ssl \notin ToSet(su.connections),
           NEW new, new = server_user_add_connection(su, ssl)
    PROVE  /\ new \in Users(S, T, P) /\ new.username = su.username
           /\ ProperList(new, S)
           /\ ToSet(new.connections) = ToSet(su.connections) \union {ssl}
           /\ new.connections # <<>>
<1>1. /\ new.connections = Cons(ssl, su.connections)
      /\ new.con_len = su.con_len + 1
      /\ new = [su EXCEPT !.connections = new.connections,
                          !.con_len = new.con_len]
  BY DEF server_user_add_connection, Users
<1>2. su.connections \in Seq(S) /\ IsInjective(su.connections)
  BY DEF ProperList
<1>3. /\ new.connections \in Seq(S)
      /\ Len(new.connections) = Len(su.connections) + 1
      /\ ToSet(new.connections) = ToSet(su.connections) \union {ssl}
      /\ IsInjective(new.connections)
  <2> DEFINE s == su.connections
  <2>1. s \in Seq(S) /\ IsInjective(s) /\ ssl \notin ToSet(s)
    BY <1>2
  <2> HIDE DEF s
  <2>2. /\ Cons(ssl, s) \in Seq(S)
        /\ Len(Cons(ssl, s)) = Len(s) + 1
        /\ ToSet(Cons(ssl, s)) = ToSet(s) \union {ssl}
        /\ IsInjective(Cons(ssl, s))
    BY <2>1, ConsToList
  <2> QED
    BY <2>2, <1>1 DEF s
<1>4. new.con_len = Len(new.connections)
  BY <1>1, <1>3 DEF ProperList
<1>5. new.connections # <<>>
  BY <1>2, <1>3
<1>6. new \in Users(S, T, P) /\ new.username = su.username
  <2>1. new.connections \in Seq(S) /\ new.con_len \in Nat
    BY <1>3, <1>4
  <2>2. DOMAIN new = DOMAIN su /\ new.username = su.username
             /\ new.p_level = su.p_level
    BY <1>1 DEF Users
  <2> QED
    BY <1>1, <2>1, <2>2 DEF Users
<1> QED
  BY <1>3, <1>4, <1>5, <1>6 DEF ProperList

\* server_user_remove_connection keeps the list proper and removes that
\* connection, whether or not it was in the list.
THEOREM RemoveConnection ==
    ASSUME NEW S, NEW T, NEW P,
           NEW su \in Users(S, T, P),
           ProperList(su, S), NEW ssl \in S,
           NEW new, new = server_user_remove_connection(su, ssl)
    PROVE  /\ new \in Users(S, T, P) /\ new.username = su.username
           /\ ProperList(new, S)
           /\ ToSet(new.connections) = ToSet(su.connections) \ {ssl}
<1>0. su.connections \in Seq(S) /\ IsInjective(su.connections)
  BY DEF ProperList
<1>1. CASE ssl \in ToSet(su.connections)
  <2>1. /\ new.connections = RemoveFirst(su.connections, ssl)
        /\ new.con_len = su.con_len - 1
        /\ new = [su EXCEPT !.connections = new.connections,
                            !.con_len = new.con_len]
    BY <1>1 DEF server_user_remove_connection, Users
  <2>2. /\ new.connections \in Seq(S)
        /\ Len(new.connections) = Len(su.connections) - 1
        /\ ToSet(new.connections) = ToSet(su.connections) \ {ssl}
        /\ IsInjective(new.connections)
    BY <1>0, <1>1, <2>1, RemoveFirstFromList
  <2>3. new.con_len = Len(new.connections)
    BY <2>1, <2>2 DEF ProperList
  <2>4. new \in Users(S, T, P) /\ new.username = su.username
    <3>1. new.connections \in Seq(S) /\ new.con_len \in Nat
      BY <2>2, <2>3
    <3>2. DOMAIN new = DOMAIN su /\ new.username = su.username
               /\ new.p_level = su.p_level
      BY <2>1 DEF Users
    <3> QED
      BY <2>1, <3>1, <3>2 DEF Users
  <2> QED
    BY <2>2, <2>3, <2>4 DEF ProperList
<1>2. CASE ssl \notin ToSet(su.connections)
  <2>1. new = su
    BY <1>2 DEF server_user_remove_connection
  <2> QED
    BY <2>1, <1>2 DEF server_user_remove_connection, Users
<1> QED
  BY <1>1, <1>2
==============================================================================
