-------------------------- MODULE LinuxList_proofs --------------------------
(* What the list operations return, for every list of entries. *)
EXTENDS LinuxList, Integers, TLAPS

(* An empty list has no entries, and only an empty one. *)
LEMMA EmptyEntries ==
  ASSUME NEW S, NEW q \in Seq(S)
  PROVE  list_empty(q) <=> Entries(q) = {}
BY DEF list_empty, Entries

(* The head of a list is one of its entries. *)
LEMMA HeadIsEntry ==
  ASSUME NEW S, NEW q \in Seq(S), ~list_empty(q)
  PROVE  /\ list_first_entry(q) \in Entries(q)
         /\ list_first_entry(q) \in S
         /\ 1 \in DOMAIN q
BY DEF list_empty, list_first_entry, Entries

(* list_add_tail() links one more entry and leaves the head of a list that *)
(* is not empty alone.                                                     *)
LEMMA AddTail ==
  ASSUME NEW S, NEW q \in Seq(S), NEW e \in S
  PROVE  /\ list_add_tail(q, e) \in Seq(S)
         /\ ~list_empty(list_add_tail(q, e))
         /\ Entries(list_add_tail(q, e)) = Entries(q) \cup {e}
         /\ list_first_entry(list_add_tail(q, e))
              = IF list_empty(q) THEN e ELSE list_first_entry(q)
         /\ IsList(q) /\ e \notin Entries(q) => IsList(list_add_tail(q, e))
<1> DEFINE r == list_add_tail(q, e)
<1>1. /\ r \in Seq(S) /\ Len(r) = Len(q) + 1
      /\ \A i \in 1 .. Len(q) : r[i] = q[i]
      /\ r[Len(q) + 1] = e
  BY DEF list_add_tail
<1>2. Entries(r) = Entries(q) \cup {e}
  BY <1>1 DEF Entries
<1>3. list_first_entry(r) = IF list_empty(q) THEN e ELSE list_first_entry(q)
  BY <1>1 DEF list_first_entry, list_empty
<1>4. ~list_empty(r)
  BY <1>1 DEF list_empty
<1>5. ASSUME IsList(q), e \notin Entries(q)
      PROVE  IsList(r)
  BY <1>1, <1>5 DEF IsList, Entries
<1> QED
  BY <1>1, <1>2, <1>3, <1>4, <1>5

(* list_del() returns a list of the same kind of entries whatever its      *)
(* arguments are.                                                          *)
LEMMA DelType ==
  ASSUME NEW S, NEW q \in Seq(S), NEW e
  PROVE  list_del(q, e) \in Seq(S)
<1> DEFINE i == CHOOSE k \in DOMAIN q : q[k] = e
           n == IF Len(q) = 0 THEN 0 ELSE Len(q) - 1
           r == [j \in 1 .. n |-> IF j < i THEN q[j] ELSE q[j + 1]]
<1>1. n \in Nat /\ 1 .. n = 1 .. (Len(q) - 1)
  OBVIOUS
<1>2. list_del(q, e) = r
  BY <1>1 DEF list_del
<1>3. \A j \in 1 .. n : q[j] \in S /\ q[j + 1] \in S
  BY <1>1
<1>4. \A j \in 1 .. n : r[j] \in S
  BY <1>3
<1> HIDE DEF i
<1>5. r \in Seq(S)
  BY <1>1, <1>4
<1> QED
  BY <1>2, <1>5

(* list_del() of an entry of a list unlinks that entry and no other.       *)
LEMMA DelEntries ==
  ASSUME NEW S, NEW q \in Seq(S), IsList(q), NEW e \in Entries(q)
  PROVE  /\ IsList(list_del(q, e))
         /\ Entries(list_del(q, e)) = Entries(q) \ {e}
         /\ Len(list_del(q, e)) = Len(q) - 1
<1> DEFINE i == CHOOSE k \in DOMAIN q : q[k] = e
           r == list_del(q, e)
<1>1. i \in 1 .. Len(q) /\ q[i] = e
  BY DEF Entries
<1> HIDE DEF i
<1>2. Len(q) \in Nat \ {0} /\ DOMAIN q = 1 .. Len(q)
  BY <1>1
<1>3. r = [j \in 1 .. (Len(q) - 1) |-> IF j < i THEN q[j] ELSE q[j + 1]]
  BY DEF list_del, i
<1> HIDE DEF r
<1>4. /\ r \in Seq(S) /\ DOMAIN r = 1 .. (Len(q) - 1) /\ Len(r) = Len(q) - 1
      /\ \A j \in 1 .. (Len(q) - 1) : r[j] = IF j < i THEN q[j] ELSE q[j + 1]
  <2>1. r \in Seq(S)
    BY DelType DEF r
  <2> QED
    BY <1>2, <1>3, <2>1
<1>5. \A j, k \in 1 .. Len(q) : q[j] = q[k] => j = k
  BY <1>2 DEF IsList
<1>6. IsList(r)
  BY <1>1, <1>2, <1>4, <1>5 DEF IsList
<1>7. Entries(r) = Entries(q) \ {e}
  <2>1. ASSUME NEW x \in Entries(r) PROVE x \in Entries(q) \ {e}
    <3>1. PICK j \in 1 .. (Len(q) - 1) : x = r[j]
      BY <1>4, <2>1 DEF Entries
    <3>2. PICK k \in 1 .. Len(q) : x = q[k] /\ k # i
      <4>1. CASE j < i
        BY <1>1, <1>2, <1>4, <3>1, <4>1
      <4>2. CASE ~(j < i)
        <5>1. j + 1 \in 1 .. Len(q) /\ j + 1 # i
          BY <1>1, <1>2, <4>2
        <5> QED
          BY <1>4, <3>1, <4>2, <5>1
      <4> QED
        BY <4>1, <4>2
    <3>3. x # e
      BY <1>1, <1>2, <1>5, <3>2
    <3> QED
      BY <1>2, <3>2, <3>3 DEF Entries
  <2>2. ASSUME NEW x \in Entries(q) \ {e} PROVE x \in Entries(r)
    <3>1. PICK j \in 1 .. Len(q) : x = q[j]
      BY <1>2 DEF Entries
    <3>2. j # i
      BY <1>1, <3>1, <2>2
    <3>3. CASE j < i
      <4>1. j \in 1 .. (Len(q) - 1) /\ r[j] = x
        BY <1>1, <1>2, <1>4, <3>1, <3>3
      <4> QED
        BY <4>1, <1>4 DEF Entries
    <3>4. CASE j > i
      <4>1. (j - 1) \in 1 .. (Len(q) - 1) /\ r[j - 1] = x
        BY <1>1, <1>2, <1>4, <3>1, <3>4
      <4> QED
        BY <4>1, <1>4 DEF Entries
    <3> QED
      BY <1>1, <3>2, <3>3, <3>4
  <2> QED
    BY <2>1, <2>2
<1> QED
  BY <1>4, <1>6, <1>7 DEF r

(* What is left of a list without its head. *)
LEMMA TailList ==
  ASSUME NEW S, NEW q \in Seq(S), IsList(q), ~list_empty(q)
  PROVE  /\ Tail(q) \in Seq(S) /\ IsList(Tail(q))
         /\ Entries(Tail(q)) = Entries(q) \ {list_first_entry(q)}
<1> DEFINE r == Tail(q)
<1>1. /\ r \in Seq(S) /\ Len(q) \in Nat \ {0} /\ Len(r) = Len(q) - 1
      /\ DOMAIN q = 1 .. Len(q) /\ DOMAIN r = 1 .. (Len(q) - 1)
      /\ \A i \in 1 .. (Len(q) - 1) : r[i] = q[i + 1]
  BY DEF list_empty
<1> HIDE DEF r
<1>2. IsList(r)
  <2> SUFFICES ASSUME NEW i \in DOMAIN r, NEW j \in DOMAIN r, r[i] = r[j]
               PROVE  i = j
    BY DEF IsList
  <2>1. i + 1 \in DOMAIN q /\ j + 1 \in DOMAIN q /\ q[i + 1] = q[j + 1]
    BY <1>1
  <2>2. i + 1 = j + 1
    BY <2>1 DEF IsList
  <2> QED
    BY <1>1, <2>2
<1>3. ASSUME NEW e \in Entries(r) PROVE e \in Entries(q) /\ e # q[1]
  <2>1. PICK i \in 1 .. (Len(q) - 1) : e = q[i + 1]
    BY <1>1 DEF Entries
  <2>2. i + 1 \in DOMAIN q /\ 1 \in DOMAIN q /\ i + 1 # 1
    BY <1>1
  <2> QED
    BY <2>1, <2>2 DEF Entries, IsList
<1>4. ASSUME NEW e \in Entries(q), e # q[1] PROVE e \in Entries(r)
  <2>1. PICK i \in DOMAIN q : e = q[i]
    BY DEF Entries
  <2>2. i - 1 \in DOMAIN r /\ (i - 1) + 1 = i
    BY <1>1, <1>4, <2>1
  <2>3. r[i - 1] = e
    BY <1>1, <2>1, <2>2
  <2> QED
    BY <2>2, <2>3 DEF Entries
<1>5. Entries(r) = Entries(q) \ {q[1]}
  BY <1>3, <1>4
<1> QED
  BY <1>1, <1>2, <1>5 DEF r, list_first_entry

(* One list appended to another. *)
LEMMA Spliced ==
  ASSUME NEW S, NEW q \in Seq(S), NEW r \in Seq(S)
  PROVE  /\ q \o r \in Seq(S) /\ Entries(q \o r) = Entries(q) \cup Entries(r)
         /\ IsList(q) /\ IsList(r) /\ Entries(q) \cap Entries(r) = {} => IsList(q \o r)
<1> DEFINE m == Len(q)
           n == Len(r)
           s == q \o r
<1>1. /\ s \in Seq(S) /\ m \in Nat /\ n \in Nat /\ Len(s) = m + n
      /\ DOMAIN q = 1 .. m /\ DOMAIN r = 1 .. n /\ DOMAIN s = 1 .. (m + n)
      /\ \A i \in 1 .. (m + n) : s[i] = IF i <= m THEN q[i] ELSE r[i - m]
  OBVIOUS
<1> HIDE DEF m, n, s
<1>2. ASSUME NEW i \in DOMAIN s
      PROVE  \/ i \in DOMAIN q /\ s[i] = q[i]
             \/ i - m \in DOMAIN r /\ s[i] = r[i - m] /\ i > m
  BY <1>1
<1>3. Entries(s) = Entries(q) \cup Entries(r)
  <2>1. Entries(s) \subseteq Entries(q) \cup Entries(r)
    BY <1>2 DEF Entries
  <2>2. Entries(q) \subseteq Entries(s)
    <3>1. \A i \in DOMAIN q : i \in DOMAIN s /\ s[i] = q[i]
      BY <1>1
    <3> QED
      BY <3>1 DEF Entries
  <2>3. Entries(r) \subseteq Entries(s)
    <3>1. \A i \in DOMAIN r : i + m \in DOMAIN s /\ s[i + m] = r[i]
      BY <1>1
    <3> QED
      BY <3>1 DEF Entries
  <2> QED
    BY <2>1, <2>2, <2>3
<1>4. ASSUME IsList(q), IsList(r), Entries(q) \cap Entries(r) = {} PROVE IsList(s)
  <2> SUFFICES ASSUME NEW i \in DOMAIN s, NEW j \in DOMAIN s, s[i] = s[j]
               PROVE  i = j
    BY DEF IsList
  <2>1. CASE i \in DOMAIN q /\ s[i] = q[i] /\ j \in DOMAIN q /\ s[j] = q[j]
    BY <1>4, <2>1 DEF IsList
  <2>2. CASE /\ i - m \in DOMAIN r /\ s[i] = r[i - m]
             /\ j - m \in DOMAIN r /\ s[j] = r[j - m]
    <3>1. i - m = j - m
      BY <1>4, <2>2 DEF IsList
    <3> QED
      BY <1>1, <3>1
  <2>3. CASE i \in DOMAIN q /\ s[i] = q[i] /\ j - m \in DOMAIN r /\ s[j] = r[j - m]
    BY <1>4, <2>3 DEF Entries
  <2>4. CASE j \in DOMAIN q /\ s[j] = q[j] /\ i - m \in DOMAIN r /\ s[i] = r[i - m]
    BY <1>4, <2>4 DEF Entries
  <2> QED
    BY <1>2, <2>1, <2>2, <2>3, <2>4
<1> QED
  BY <1>1, <1>3, <1>4 DEF s

=============================================================================
