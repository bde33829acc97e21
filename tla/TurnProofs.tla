----------------------------- MODULE TurnProofs -----------------------------
(***************************************************************************)
(* What moves on the screen has an owner, for every set of streams, tools  *)
(* and tokens, every length of the trail and every number of events.       *)
(*                                                                         *)
(* The invariant (TurnInv) is that the entries and the maps own each       *)
(* other: an open reply has one stream and a stream one open reply, a      *)
(* status that runs one tool and a tool one such status, and the open      *)
(* group is there, open; a group that was closed is done as soon as        *)
(* nothing in it runs. It is kept in three layers: what each change of an  *)
(* entry or a map does to the ownership, stated of sets of entries; what   *)
(* each method of the session does to its entries and maps; and one lemma  *)
(* per event of the host.                                                  *)
(***************************************************************************)
EXTENDS Turn, TLAPS, SequenceTheorems, WellFoundedInduction

-----------------------------------------------------------------------------
(* Lists of entries: what the operators on them keep.                       *)

(* A least element: what CHOOSE and Min find is there.                      *)
LEMMA MinOf ==
  ASSUME NEW S \in SUBSET Nat, S # {}
  PROVE  \E m \in S : \A x \in S : m <= x
<1> DEFINE R == OpToRel(<, Nat)
<1>1. IsWellFoundedOn(R, Nat) BY NatLessThanWellFounded
<1>2. PICK m \in S : \A y \in S : ~(<<y, m>> \in R) BY <1>1, WFMin, Zenon
<1>3. \A y \in S : m <= y
  <2> SUFFICES ASSUME NEW y \in S PROVE m <= y OBVIOUS
  <2>1. ~(<<y, m>> \in R) BY <1>2
  <2>2. ~(y < m) BY <2>1, Zenon DEF OpToRel
  <2> QED BY <2>2
<1> QED BY <1>3

(* A list holds what it holds, one entry per id.                            *)
IsList(q) == q \in Seq(Range(q))

IdsApart(q) == \A i, j \in DOMAIN q : q[i].id = q[j].id => i = j

(* Lists are built place by place.                                          *)
LEMMA ListOf ==
  ASSUME NEW n \in Nat, NEW q, DOMAIN q = 1..n, q = [i \in 1..n |-> q[i]]
  PROVE  IsList(q) /\ Len(q) = n
<1>1. \A i \in 1..n : q[i] \in Range(q) BY DEF Range
<1>2. q \in [1..n -> Range(q)] BY <1>1
<1>3. q \in Seq(Range(q)) BY <1>2
<1> QED BY <1>3 DEF IsList

(* A list has a place for every number up to its length.                    *)
LEMMA ListIs ==
  ASSUME NEW q, IsList(q)
  PROVE  /\ Len(q) \in Nat /\ DOMAIN q = 1..Len(q)
         /\ q = [i \in 1..Len(q) |-> q[i]]
         /\ \A i \in 1..Len(q) : q[i] \in Range(q)
<1>1. q \in Seq(Range(q)) BY DEF IsList
<1>2. Len(q) \in Nat /\ DOMAIN q = 1..Len(q) BY <1>1
<1>3. q = [i \in 1..Len(q) |-> q[i]] BY <1>1
<1>4. \A i \in 1..Len(q) : q[i] \in Range(q) BY <1>2 DEF Range
<1> QED BY <1>2, <1>3, <1>4

(* A sequence over a set is a list, of elements of that set.                *)
LEMMA SeqList ==
  ASSUME NEW S, NEW q \in Seq(S)
  PROVE  IsList(q) /\ Range(q) \subseteq S
<1>1. Len(q) \in Nat /\ DOMAIN q = 1..Len(q) /\ q = [i \in 1..Len(q) |-> q[i]] OBVIOUS
<1>2. IsList(q) BY <1>1, ListOf
<1>3. \A i \in DOMAIN q : q[i] \in S OBVIOUS
<1> QED BY <1>2, <1>3 DEF Range

(* push: one more at the end.                                               *)
LEMMA AppendList ==
  ASSUME NEW q, IsList(q), NEW e
  PROVE  /\ IsList(Append(q, e)) /\ Range(Append(q, e)) = Range(q) \cup {e}
         /\ Len(Append(q, e)) = Len(q) + 1
         /\ DOMAIN Append(q, e) = 1..(Len(q) + 1)
         /\ \A i \in 1..Len(q) : Append(q, e)[i] = q[i]
         /\ Append(q, e)[Len(q) + 1] = e
<1> DEFINE S == Range(q) \cup {e}
           r == Append(q, e)
<1>1. Len(q) \in Nat /\ DOMAIN q = 1..Len(q) BY ListIs
<1>2. q \in [1..Len(q) -> S] BY ListIs
<1>3. q \in Seq(S) BY <1>1, <1>2
<1>4. r \in Seq(S) BY <1>3
<1>5. Len(r) = Len(q) + 1 /\ DOMAIN r = 1..(Len(q) + 1) BY <1>3
<1>6. \A i \in 1..Len(q) : r[i] = q[i] BY <1>3
<1>7. r[Len(q) + 1] = e BY <1>3
<1>8. Range(r) \subseteq S BY <1>4, SeqList
<1>9. S \subseteq Range(r)
  <2> SUFFICES ASSUME NEW d \in S PROVE \E i \in DOMAIN r : d = r[i] BY DEF Range
  <2>1. CASE d = e BY <2>1, <1>1, <1>5, <1>7
  <2>2. CASE d \in Range(q)
    <3>1. PICK i \in 1..Len(q) : d = q[i] BY <2>2, <1>1 DEF Range
    <3>2. i \in DOMAIN r /\ d = r[i] BY <3>1, <1>1, <1>5, <1>6
    <3> QED BY <3>2
  <2> QED BY <2>1, <2>2
<1>10. IsList(r) BY <1>4, SeqList
<1> QED BY <1>5, <1>6, <1>7, <1>8, <1>9, <1>10

(* Ids stay apart when the new entry has one of its own.                    *)
LEMMA AppendApart ==
  ASSUME NEW q, IsList(q), IdsApart(q), NEW e, \A d \in Range(q) : d.id # e.id
  PROVE  IdsApart(Append(q, e))
<1> DEFINE r == Append(q, e)
<1>1. Len(q) \in Nat /\ DOMAIN q = 1..Len(q) BY ListIs
<1>2. DOMAIN r = 1..(Len(q) + 1) /\ r[Len(q) + 1] = e /\ \A i \in 1..Len(q) : r[i] = q[i]
  BY AppendList
<1>3. \A i \in 1..Len(q) : q[i].id # e.id BY ListIs
<1> HIDE DEF r
<1> SUFFICES ASSUME NEW i \in 1..(Len(q) + 1), NEW j \in 1..(Len(q) + 1), r[i].id = r[j].id
             PROVE  i = j
  BY <1>2 DEF IdsApart, r
<1>4. i \in 1..Len(q) \/ i = Len(q) + 1 BY <1>1
<1>5. j \in 1..Len(q) \/ j = Len(q) + 1 BY <1>1
<1>6. CASE i \in 1..Len(q) /\ j \in 1..Len(q) BY <1>1, <1>2, <1>6 DEF IdsApart
<1>7. CASE i = Len(q) + 1 /\ j \in 1..Len(q) BY <1>2, <1>3, <1>7
<1>8. CASE j = Len(q) + 1 /\ i \in 1..Len(q) BY <1>2, <1>3, <1>8
<1> QED BY <1>4, <1>5, <1>6, <1>7, <1>8

(* Change: one entry gives way to another of its id.                        *)
LEMMA ChangeList ==
  ASSUME NEW q, IsList(q), IdsApart(q), NEW k \in DOMAIN q, NEW e, e.id = q[k].id
  PROVE  LET r == [q EXCEPT ![k] = e] IN
         /\ IsList(r) /\ IdsApart(r) /\ Range(r) = (Range(q) \ {q[k]}) \cup {e}
         /\ DOMAIN r = DOMAIN q /\ r[k] = e
<1> DEFINE r == [q EXCEPT ![k] = e]
<1>1. Len(q) \in Nat /\ DOMAIN q = 1..Len(q) BY ListIs
<1>2. DOMAIN r = 1..Len(q) /\ r = [i \in 1..Len(q) |-> r[i]] BY <1>1
<1>3. IsList(r) BY <1>1, <1>2, ListOf
<1>4. \A i \in DOMAIN q : r[i] = IF i = k THEN e ELSE q[i] OBVIOUS
<1> HIDE DEF r
<1>5. \A i \in DOMAIN q : r[i].id = q[i].id BY <1>4
<1>6. IdsApart(r) BY <1>1, <1>2, <1>5 DEF IdsApart
<1>7. \A i \in DOMAIN q : i # k => q[i] # q[k] BY DEF IdsApart
<1>8. Range(r) = (Range(q) \ {q[k]}) \cup {e}
  <2>1. Range(r) = {r[i] : i \in DOMAIN q} BY <1>1, <1>2 DEF Range
  <2>2. Range(q) = {q[i] : i \in DOMAIN q} BY DEF Range
  <2> QED BY <2>1, <2>2, <1>4, <1>7
<1> QED BY <1>1, <1>2, <1>3, <1>4, <1>6, <1>8 DEF r

(* Stop: every entry is replaced by one of its id.                          *)
LEMMA StopList ==
  ASSUME NEW q, IsList(q), IdsApart(q), \A e \in Range(q) : Stop(e).id = e.id
  PROVE  LET r == [i \in DOMAIN q |-> Stop(q[i])] IN
         IsList(r) /\ IdsApart(r) /\ Range(r) = {Stop(e) : e \in Range(q)}
<1> DEFINE r == [i \in DOMAIN q |-> Stop(q[i])]
<1>1. Len(q) \in Nat /\ DOMAIN q = 1..Len(q) BY ListIs
<1>2. DOMAIN r = 1..Len(q) /\ r = [i \in 1..Len(q) |-> r[i]] BY <1>1
<1>3. IsList(r) BY <1>1, <1>2, ListOf
<1>4. \A i \in DOMAIN q : r[i] = Stop(q[i]) OBVIOUS
<1> HIDE DEF r
<1>5. \A i \in DOMAIN q : r[i].id = q[i].id BY <1>4 DEF Range
<1>6. IdsApart(r) BY <1>1, <1>2, <1>5 DEF IdsApart
<1>7. Range(r) = {Stop(e) : e \in Range(q)}
  <2>1. Range(r) = {r[i] : i \in DOMAIN q} BY <1>1, <1>2 DEF Range
  <2> QED BY <2>1, <1>4 DEF Range
<1> QED BY <1>3, <1>6, <1>7 DEF r

(* take_history: what is left is a part of what there was.                  *)
LEMMA RestList ==
  ASSUME NEW q, IsList(q), IdsApart(q), NEW n \in 0..Len(q)
  PROVE  LET r == SubSeq(q, n + 1, Len(q)) IN
         /\ IsList(r) /\ IdsApart(r)
         /\ Range(r) = {q[i] : i \in (n + 1)..Len(q)}
<1> DEFINE r == SubSeq(q, n + 1, Len(q))
<1>1. Len(q) \in Nat /\ DOMAIN q = 1..Len(q) /\ q \in Seq(Range(q)) BY ListIs DEF IsList
<1>2. r \in Seq(Range(q)) /\ Len(r) = Len(q) - n /\ \A i \in 1..(Len(q) - n) : r[i] = q[n + i]
  <2>1. \A i \in (n + 1)..Len(q) : q[i] \in Range(q) BY <1>1, ListIs
  <2>2. n + 1 \in Int /\ Len(q) \in Int BY <1>1
  <2>3. r \in Seq(Range(q)) BY <2>1, <2>2, SubSeqProperties
  <2>4. Len(r) = IF n + 1 <= Len(q) THEN Len(q) - (n + 1) + 1 ELSE 0
    BY <2>1, <2>2, SubSeqProperties
  <2>5. \A i \in 1..(Len(q) - (n + 1) + 1) : r[i] = q[n + 1 + i - 1]
    BY <2>1, <2>2, SubSeqProperties
  <2> HIDE DEF r
  <2>6. Len(r) = Len(q) - n
    <3> DEFINE l == Len(q)
    <3>1. l \in Nat /\ n \in Nat /\ n <= l BY <1>1
    <3>2. Len(r) = IF n + 1 <= l THEN l - (n + 1) + 1 ELSE 0 BY <2>4
    <3> HIDE DEF l
    <3>3. (IF n + 1 <= l THEN l - (n + 1) + 1 ELSE 0) = l - n BY <3>1
    <3> QED BY <3>2, <3>3 DEF l
  <2>7. \A i \in 1..(Len(q) - n) : r[i] = q[n + i]
    <3> TAKE i \in 1..(Len(q) - n)
    <3>1. i \in 1..(Len(q) - (n + 1) + 1) /\ n + 1 + i - 1 = n + i BY <1>1
    <3>2. r[i] = q[n + 1 + i - 1] BY <3>1, <2>5
    <3> QED BY <3>1, <3>2
  <2> QED BY <2>3, <2>6, <2>7
<1>3. DOMAIN r = 1..(Len(q) - n) BY <1>2
<1>4. IsList(r) BY <1>2, SeqList
<1> HIDE DEF r
<1>5. IdsApart(r)
  <2> SUFFICES ASSUME NEW i \in 1..(Len(q) - n), NEW j \in 1..(Len(q) - n), r[i].id = r[j].id
               PROVE  i = j
    BY <1>3 DEF IdsApart
  <2>1. n + i \in DOMAIN q /\ n + j \in DOMAIN q BY <1>1
  <2>2. q[n + i].id = q[n + j].id BY <1>2
  <2>3. n + i = n + j BY <2>1, <2>2 DEF IdsApart
  <2> QED BY <2>3, <1>1
<1>6. Range(r) = {q[i] : i \in (n + 1)..Len(q)}
  <2>1. ASSUME NEW e \in Range(r) PROVE \E i \in (n + 1)..Len(q) : e = q[i]
    <3>1. PICK i \in 1..(Len(q) - n) : e = r[i] BY <2>1, <1>3 DEF Range
    <3>2. e = q[n + i] /\ n + i \in (n + 1)..Len(q) BY <3>1, <1>1, <1>2
    <3> QED BY <3>2
  <2>2. ASSUME NEW i \in (n + 1)..Len(q) PROVE q[i] \in Range(r)
    <3>1. i - n \in 1..(Len(q) - n) /\ n + (i - n) = i BY <1>1
    <3>2. r[i - n] = q[i] BY <3>1, <1>2
    <3> QED BY <3>1, <3>2, <1>3 DEF Range
  <2> QED BY <2>1, <2>2
<1> QED BY <1>4, <1>5, <1>6 DEF r

(* What two lists joined hold, and where.                                   *)
LEMMA Joined ==
  ASSUME NEW S, NEW a \in Seq(S), NEW b \in Seq(S)
  PROVE  /\ a \o b \in Seq(S) /\ Len(a \o b) = Len(a) + Len(b)
         /\ Len(a) \in Nat /\ Len(b) \in Nat
         /\ \A i \in 1..Len(a) : (a \o b)[i] = a[i]
         /\ \A i \in 1..Len(b) : (a \o b)[Len(a) + i] = b[i]
<1>1. Len(a) \in Nat /\ Len(b) \in Nat OBVIOUS
<1>2. a \o b \in Seq(S) /\ Len(a \o b) = Len(a) + Len(b) OBVIOUS
<1>3. \A i \in 1..(Len(a) + Len(b)) : (a \o b)[i] = IF i <= Len(a) THEN a[i] ELSE b[i - Len(a)]
  BY ConcatProperties
<1>4. \A i \in 1..Len(a) : (a \o b)[i] = a[i] BY <1>1, <1>3
<1>5. ASSUME NEW i \in 1..Len(b) PROVE (a \o b)[Len(a) + i] = b[i]
  <2>1. Len(a) + i \in 1..(Len(a) + Len(b)) /\ ~(Len(a) + i <= Len(a)) /\ Len(a) + i - Len(a) = i
    BY <1>1
  <2> QED BY <2>1, <1>3
<1> QED BY <1>1, <1>2, <1>4, <1>5

(* Two entries before a list.                                               *)
LEMMA PairList ==
  ASSUME NEW S, NEW t \in Seq(S), NEW x \in S, NEW y \in S
  PROVE  LET r == <<x, y>> \o t IN
         /\ r \in Seq(S) /\ Len(r) = Len(t) + 2 /\ r[1] = x /\ r[2] = y
         /\ \A j \in 1..Len(t) : r[2 + j] = t[j]
<1> DEFINE u == <<x, y>>
           r == u \o t
<1>1. u \in Seq(S) /\ Len(u) = 2 /\ u[1] = x /\ u[2] = y OBVIOUS
<1> HIDE DEF u
<1>2. /\ r \in Seq(S) /\ Len(r) = Len(u) + Len(t) /\ Len(t) \in Nat
      /\ \A j \in 1..Len(u) : r[j] = u[j]
      /\ \A j \in 1..Len(t) : r[Len(u) + j] = t[j]
  <2>1. r \in Seq(S) BY <1>1, Joined
  <2>2. Len(r) = Len(u) + Len(t) BY <1>1, Joined
  <2>3. Len(t) \in Nat BY <1>1, Joined
  <2>4. \A j \in 1..Len(u) : r[j] = u[j] BY <1>1, Joined
  <2>5. \A j \in 1..Len(t) : r[Len(u) + j] = t[j]
    <3>1. \A i \in 1..(Len(u) + Len(t)) :
            r[i] = IF i <= Len(u) THEN u[i] ELSE t[i - Len(u)]
      BY <1>1, ConcatProperties
    <3> HIDE DEF r
    <3> TAKE j \in 1..Len(t)
    <3>2. 2 + j \in 1..(Len(u) + Len(t)) /\ ~(2 + j <= Len(u)) /\ 2 + j - Len(u) = j
      BY <1>1, <2>3
    <3>3. r[2 + j] = t[j] BY <3>1, <3>2
    <3> QED BY <3>3, <1>1
  <2> QED BY <2>1, <2>2, <2>3, <2>4, <2>5
<1> HIDE DEF r
<1>3. r[1] = x /\ r[2] = y BY <1>1, <1>2
<1>4. Len(r) = Len(t) + 2 BY <1>1, <1>2
<1> QED BY <1>1, <1>2, <1>3, <1>4 DEF r, u

(* InsertAt: a new entry between two others, or at the end.                 *)
LEMMA InsertList ==
  ASSUME NEW q, IsList(q), IdsApart(q), NEW k \in 1..(Len(q) + 1), NEW e,
         \A d \in Range(q) : d.id # e.id
  PROVE  LET r == InsertAt(q, k, e) IN
         IsList(r) /\ IdsApart(r) /\ Range(r) = Range(q) \cup {e}
<1> DEFINE r == InsertAt(q, k, e)
           S == Range(q) \cup {e}
           low  == SubSeq(q, 1, k - 1)
           high == SubSeq(q, k, Len(q))
           n == Len(q)
<1>1. n \in Nat /\ DOMAIN q = 1..n /\ (\A i \in 1..n : q[i] \in S) /\ k \in Int /\ k - 1 \in Int
  BY ListIs
<1>2. low \in Seq(S) /\ high \in Seq(S) /\ <<e>> \in Seq(S)
  <2>1. \A i \in 1..(k - 1) : q[i] \in S BY <1>1
  <2>2. \A i \in k..n : q[i] \in S BY <1>1
  <2>3. low \in Seq(S) BY <1>1, <2>1, SubSeqProperties
  <2>4. high \in Seq(S) BY <1>1, <2>2, SubSeqProperties
  <2> QED BY <2>3, <2>4
<1>3. Len(low) = k - 1 /\ \A i \in 1..(k - 1) : low[i] = q[i]
  <2>1. \A i \in 1..(k - 1) : q[i] \in S BY <1>1
  <2>2. Len(low) = IF 1 <= k - 1 THEN k - 1 - 1 + 1 ELSE 0 BY <1>1, <2>1, SubSeqProperties
  <2>3. \A i \in 1..(k - 1 - 1 + 1) : low[i] = q[1 + i - 1] BY <1>1, <2>1, SubSeqProperties
  <2> HIDE DEF low
  <2> QED BY <1>1, <2>2, <2>3
<1>4. Len(high) = n + 1 - k /\ \A i \in 1..(n + 1 - k) : high[i] = q[k + i - 1]
  <2>1. \A i \in k..n : q[i] \in S BY <1>1
  <2>2. Len(high) = IF k <= n THEN n - k + 1 ELSE 0 BY <1>1, <2>1, SubSeqProperties
  <2>3. \A i \in 1..(n - k + 1) : high[i] = q[k + i - 1] BY <1>1, <2>1, SubSeqProperties
  <2> HIDE DEF high
  <2> QED BY <1>1, <2>2, <2>3
<1>5. r = (low \o <<e>>) \o high BY DEF InsertAt
<1> HIDE DEF low, high, r
<1>6. /\ low \o <<e>> \in Seq(S) /\ Len(low \o <<e>>) = k
      /\ \A i \in 1..k : (low \o <<e>>)[i] = IF i < k THEN q[i] ELSE e
  BY <1>1, <1>2, <1>3
<1>7. r \in Seq(S) /\ Len(r) = n + 1
  <2> DEFINE m == low \o <<e>>
  <2>1. m \in Seq(S) /\ Len(m) = k BY <1>6
  <2>2. r = m \o high BY <1>5
  <2> HIDE DEF m, S
  <2>3. r \in Seq(S) /\ Len(r) = Len(m) + Len(high) BY <1>2, <2>1, <2>2, Joined
  <2> QED BY <2>1, <2>3, <1>1, <1>4
<1>8. \A i \in 1..(n + 1) : r[i] = IF i < k THEN q[i] ELSE IF i = k THEN e ELSE q[i - 1]
  <2> SUFFICES ASSUME NEW i \in 1..(n + 1)
               PROVE  r[i] = IF i < k THEN q[i] ELSE IF i = k THEN e ELSE q[i - 1]
    OBVIOUS
  <2>1. CASE i <= k
    <3>1. r[i] = (low \o <<e>>)[i] BY <1>1, <1>2, <1>5, <1>6, <2>1
    <3> QED BY <3>1, <2>1, <1>1, <1>6
  <2>2. CASE i > k
    <3>1. r[i] = high[i - k] BY <1>1, <1>2, <1>4, <1>5, <1>6, <2>2
    <3>2. high[i - k] = q[k + (i - k) - 1] BY <1>1, <1>4, <2>2
    <3>3. k + (i - k) - 1 = i - 1 BY <1>1
    <3> QED BY <3>1, <3>2, <3>3, <2>2, <1>1
  <2> QED BY <2>1, <2>2, <1>1
<1>9. DOMAIN r = 1..(n + 1) BY <1>1, <1>7
<1>10. IsList(r) /\ Range(r) \subseteq S BY <1>7, SeqList
<1>11. S \subseteq Range(r)
  <2>1. e \in Range(r)
    <3>1. k \in DOMAIN r /\ r[k] = e BY <1>1, <1>8, <1>9
    <3> QED BY <3>1 DEF Range
  <2>2. ASSUME NEW i \in 1..n PROVE q[i] \in Range(r)
    <3>1. CASE i < k
      <4>1. i \in DOMAIN r /\ r[i] = q[i] BY <1>1, <1>8, <1>9, <3>1
      <4> QED BY <4>1 DEF Range
    <3>2. CASE i >= k
      <4>1. i + 1 \in DOMAIN r /\ i + 1 - 1 = i BY <1>1, <1>9, <3>2
      <4>2. r[i + 1] = q[i] BY <1>1, <1>8, <1>9, <3>2, <4>1
      <4> QED BY <4>1, <4>2 DEF Range
    <3> QED BY <3>1, <3>2, <1>1
  <2> QED BY <2>1, <2>2, <1>1 DEF Range
<1>12. IdsApart(r)
  <2> SUFFICES ASSUME NEW i \in 1..(n + 1), NEW j \in 1..(n + 1), r[i].id = r[j].id
               PROVE  i = j
    BY <1>9 DEF IdsApart
  <2>1. \A m \in 1..n : q[m].id # e.id BY <1>1 DEF Range
  <2> DEFINE place(m) == IF m < k THEN m ELSE m - 1
  <2>2. \A m \in 1..(n + 1) : m # k => place(m) \in 1..n /\ r[m] = q[place(m)] BY <1>1, <1>8
  <2>3. r[k] = e BY <1>1, <1>8
  <2>4. CASE i = k \/ j = k BY <2>1, <2>2, <2>3, <2>4
  <2>5. CASE i # k /\ j # k
    <3>1. place(i) \in 1..n /\ place(j) \in 1..n /\ q[place(i)].id = q[place(j)].id
      BY <2>2, <2>5
    <3>2. place(i) = place(j) BY <3>1, <1>1 DEF IdsApart
    <3> QED BY <3>2, <2>5, <1>1
  <2> QED BY <2>4, <2>5
<1> QED BY <1>10, <1>11, <1>12 DEF r

(* split_streaming_paragraphs: the first entry gives way to two.            *)
LEMMA SplitList ==
  ASSUME NEW q, IsList(q), IdsApart(q), q # <<>>, NEW a, NEW b, b.id = q[1].id,
         \A d \in Range(q) : d.id # a.id
  PROVE  LET r == <<a, b>> \o Tail(q) IN
         /\ IsList(r) /\ IdsApart(r) /\ Len(r) = Len(q) + 1
         /\ Range(r) = (Range(q) \ {q[1]}) \cup {a, b}
<1> DEFINE c == [q EXCEPT ![1] = b]
           r == <<a, b>> \o Tail(q)
           i == InsertAt(c, 1, a)
<1>1. Len(q) \in Nat /\ Len(q) > 0 /\ DOMAIN q = 1..Len(q) /\ q \in Seq(Range(q))
  BY ListIs, EmptySeq DEF IsList
<1>2. 1 \in DOMAIN q BY <1>1
<1>3. IsList(c) /\ IdsApart(c) /\ Range(c) = (Range(q) \ {q[1]}) \cup {b} /\ DOMAIN c = DOMAIN q
  BY <1>2, ChangeList
<1>4. Len(c) = Len(q) /\ \A j \in 1..Len(c) : c[j] = IF j = 1 THEN b ELSE q[j]
  <2>1. Len(c) \in Nat /\ DOMAIN c = 1..Len(c) BY <1>3, ListIs
  <2>2. \A j \in DOMAIN q : c[j] = IF j = 1 THEN b ELSE q[j] OBVIOUS
  <2> HIDE DEF c
  <2>3. Len(c) = Len(q) BY <1>1, <1>3, <2>1
  <2> QED BY <1>1, <2>2, <2>3
<1>5. \A d \in Range(c) : d.id # a.id
  <2>1. q[1] \in Range(q) BY <1>2 DEF Range
  <2> QED BY <1>3, <2>1
<1> HIDE DEF c
<1>6. IsList(i) /\ IdsApart(i) /\ Range(i) = Range(c) \cup {a} BY <1>3, <1>4, <1>1, <1>5, InsertList
<1>7. r = i
  <2> DEFINE S == Range(q) \cup {a, b}
  <2>1. c \in Seq(S)
    <3>1. c = [j \in 1..Len(c) |-> c[j]] BY <1>3, ListIs
    <3>2. \A j \in 1..Len(c) : c[j] \in S BY <1>3, <1>4, <1>1, ListIs
    <3>3. Len(c) \in Nat BY <1>1, <1>4
    <3> HIDE DEF S
    <3> QED BY <3>1, <3>2, <3>3
  <2>2. i = <<a>> \o c
    <3>1. SubSeq(c, 1, 0) = <<>> BY SubSeqEmpty
    <3>2. SubSeq(c, 1, Len(c)) = c BY <2>1, SubSeqFull
    <3>3. i = (<<>> \o <<a>>) \o c BY <3>1, <3>2 DEF InsertAt
    <3>4. <<a>> \in Seq(S) OBVIOUS
    <3>5. <<>> \o <<a>> = <<a>> BY <3>4, ConcatEmptySeq
    <3> QED BY <3>3, <3>5
  <2>3. q \in Seq(S)
    <3>1. q = [j \in 1..Len(q) |-> q[j]] BY ListIs
    <3>2. \A j \in 1..Len(q) : q[j] \in S BY ListIs
    <3> HIDE DEF S
    <3> QED BY <3>1, <3>2, <1>1
  <2>4. Tail(q) \in Seq(S) /\ Len(Tail(q)) = Len(q) - 1
        /\ \A j \in 1..(Len(q) - 1) : Tail(q)[j] = q[j + 1]
    <3> HIDE DEF S
    <3> QED BY <2>3, <1>1
  <2>5. <<a, b>> \in Seq(S) /\ <<a>> \in Seq(S) OBVIOUS
  <2>6. r \in Seq(S) /\ Len(r) = Len(q) + 1
        /\ \A j \in 1..(Len(q) + 1) :
             r[j] = IF j = 1 THEN a ELSE IF j = 2 THEN b ELSE q[j - 1]
    <3> DEFINE t == Tail(q)
    <3>1. t \in Seq(S) /\ Len(t) = Len(q) - 1 /\ \A j \in 1..(Len(q) - 1) : t[j] = q[j + 1]
      BY <2>4
    <3>2. a \in S /\ b \in S OBVIOUS
    <3> HIDE DEF S, t
    <3>3. /\ r \in Seq(S) /\ Len(r) = Len(t) + 2 /\ r[1] = a /\ r[2] = b
          /\ \A j \in 1..Len(t) : r[2 + j] = t[j]
      BY <3>1, <3>2, PairList DEF t
    <3> HIDE DEF r
    <3>4. r \in Seq(S) /\ Len(r) = Len(q) + 1 BY <3>1, <3>3, <1>1
    <3>6. \A j \in 3..(Len(q) + 1) : r[j] = t[j - 2]
      <4> TAKE j \in 3..(Len(q) + 1)
      <4>1. j - 2 \in 1..Len(t) /\ 2 + (j - 2) = j BY <3>1, <1>1
      <4>2. r[2 + (j - 2)] = t[j - 2] BY <4>1, <3>3
      <4> QED BY <4>1, <4>2
    <3>7. \A j \in 3..(Len(q) + 1) : t[j - 2] = q[j - 1]
      <4> TAKE j \in 3..(Len(q) + 1)
      <4>1. j - 2 \in 1..(Len(q) - 1) /\ (j - 2) + 1 = j - 1 BY <1>1
      <4> QED BY <4>1, <3>1
    <3>8. ASSUME NEW j \in 1..(Len(q) + 1)
          PROVE r[j] = IF j = 1 THEN a ELSE IF j = 2 THEN b ELSE q[j - 1]
      <4>1. CASE j = 1 BY <4>1, <3>3
      <4>2. CASE j = 2 BY <4>2, <3>3
      <4>3. CASE j \in 3..(Len(q) + 1) BY <4>3, <3>6, <3>7
      <4> QED BY <4>1, <4>2, <4>3, <1>1
    <3> QED BY <3>4, <3>8
  <2>7. i \in Seq(S) /\ Len(i) = Len(q) + 1
        /\ \A j \in 1..(Len(q) + 1) : i[j] = IF j = 1 THEN a ELSE c[j - 1]
    <3> HIDE DEF S, i
    <3>1. Len(<<a>>) = 1 /\ <<a>>[1] = a /\ <<a>> \in Seq(S) BY <2>5
    <3> DEFINE u == <<a>>
    <3> HIDE DEF u
    <3>2. i = u \o c BY <2>2 DEF u
    <3>3. Len(u) = 1 /\ u[1] = a /\ u \in Seq(S) BY <3>1 DEF u
    <3>4. /\ i \in Seq(S) /\ Len(i) = Len(u) + Len(c)
          /\ \A j \in 1..Len(u) : i[j] = u[j]
          /\ \A j \in 1..Len(c) : i[Len(u) + j] = c[j]
      BY <3>2, <3>3, <2>1, Joined
    <3>5. ASSUME NEW j \in 1..(Len(q) + 1) PROVE i[j] = IF j = 1 THEN a ELSE c[j - 1]
      <4>1. CASE j = 1 BY <4>1, <3>3, <3>4
      <4>2. CASE j # 1
        <5>1. j - 1 \in 1..Len(c) /\ 1 + (j - 1) = j BY <4>2, <1>1, <1>4
        <5>2. i[1 + (j - 1)] = c[j - 1] BY <5>1, <3>3, <3>4
        <5> QED BY <5>1, <5>2, <4>2
      <4> QED BY <4>1, <4>2
    <3> QED BY <3>3, <3>4, <3>5, <1>1, <1>4
  <2>8. \A j \in 1..(Len(q) + 1) : r[j] = i[j]
    <3> HIDE DEF S, i, r
    <3> TAKE j \in 1..(Len(q) + 1)
    <3>1. CASE j = 1 BY <3>1, <2>6, <2>7
    <3>2. CASE j # 1
      <4>1. j - 1 \in 1..Len(c) BY <3>2, <1>1, <1>4
      <4>2. i[j] = IF j - 1 = 1 THEN b ELSE q[j - 1] BY <3>2, <4>1, <2>7, <1>4
      <4> QED BY <3>2, <4>2, <2>6, <1>1
    <3> QED BY <3>1, <3>2
  <2> HIDE DEF S, i, r
  <2> QED BY <2>6, <2>7, <2>8, <1>1, SeqEqual
<1>8. Len(r) = Len(q) + 1
  <2>1. Tail(q) \in Seq(Range(q)) /\ Len(Tail(q)) = Len(q) - 1 BY <1>1
  <2>2. Tail(q) \in Seq(Range(q) \cup {a, b}) BY <2>1
  <2>3. <<a, b>> \in Seq(Range(q) \cup {a, b}) /\ Len(<<a, b>>) = 2 OBVIOUS
  <2> QED BY <2>1, <2>2, <2>3, <1>1
<1> QED BY <1>3, <1>6, <1>7, <1>8

(* Index is the place of an entry of that id, or 0 when there is none.      *)
LEMMA IndexIs ==
  ASSUME NEW s, IsList(s.entries), NEW id
  PROVE  /\ Index(s, id) \in 0..Len(s.entries)
         /\ Index(s, id) # 0 => /\ Index(s, id) \in DOMAIN s.entries
                                /\ EntryOf(s, id).id = id
                                /\ EntryOf(s, id) \in Range(s.entries)
         /\ Index(s, id) = 0 => \A e \in Range(s.entries) : e.id # id
<1> DEFINE q == s.entries
           I == {i \in 1..Len(q) : q[i].id = id}
<1>0. Len(q) \in Nat /\ DOMAIN q = 1..Len(q) BY ListIs
<1>1. Index(s, id) = IF I # {} THEN Min(I) ELSE 0 BY DEF Index, SelectInSeq
<1>2. CASE I = {}
  <2>1. \A i \in DOMAIN q : q[i].id # id BY <1>0, <1>2
  <2>2. \A e \in Range(q) : e.id # id BY <2>1 DEF Range
  <2> QED BY <1>0, <1>1, <1>2, <2>2
<1>3. CASE I # {}
  <2>1. I \in SUBSET Nat BY <1>0
  <2>2. \E m \in I : \A n \in I : m <= n BY <1>3, <2>1, MinOf
  <2>3. Min(I) \in I BY <2>2 DEF Min
  <2>4. Index(s, id) \in I BY <1>1, <1>3, <2>3
  <2> DEFINE k == Index(s, id)
  <2>5. k \in 1..Len(q) /\ q[k].id = id /\ k # 0 BY <2>4
  <2>6. q[k] \in Range(q) BY <2>5, <1>0 DEF Range
  <2> QED BY <1>0, <2>5, <2>6 DEF EntryOf
<1> QED BY <1>2, <1>3

(* The function behind Keeping exists ...                                   *)
KeepsBy(q, K, f, n) ==
  f = [i \in 0..n |-> IF i = 0 THEN <<>>
                      ELSE IF q[i] \in K THEN Append(f[i - 1], q[i]) ELSE f[i - 1]]

(* ... for every length: a recursion over the numbers up to it.             *)
LEMMA KeepsExists ==
  ASSUME NEW q, NEW K, NEW n \in Nat
  PROVE  \E f : KeepsBy(q, K, f, n)
<1> DEFINE Bad == {m \in Nat : ~\E f : KeepsBy(q, K, f, m)}
<1> SUFFICES ASSUME Bad # {} PROVE FALSE OBVIOUS
<1>1. PICK m \in Bad : \A x \in Bad : m <= x BY MinOf
<1>2. m # 0
  <2> DEFINE f == [i \in 0..0 |-> <<>>]
  <2>1. f = [i \in 0..0 |-> IF i = 0 THEN <<>>
                      ELSE IF q[i] \in K THEN Append(f[i - 1], q[i]) ELSE f[i - 1]]
    OBVIOUS
  <2> QED BY <2>1 DEF KeepsBy
<1>3. m - 1 \in Nat /\ m - 1 \notin Bad BY <1>1, <1>2
<1>4. PICK f : KeepsBy(q, K, f, m - 1) BY <1>3
<1> DEFINE last == IF q[m] \in K THEN Append(f[m - 1], q[m]) ELSE f[m - 1]
           g == [i \in 0..m |-> IF i = m THEN last ELSE f[i]]
<1>5. \A i \in 0..(m - 1) : f[i] = IF i = 0 THEN <<>>
                      ELSE IF q[i] \in K THEN Append(f[i - 1], q[i]) ELSE f[i - 1]
  BY <1>4 DEF KeepsBy
<1>6. \A i \in 0..m : g[i] = IF i = m THEN last ELSE f[i] OBVIOUS
<1>7. DOMAIN g = 0..m OBVIOUS
<1> HIDE DEF g, last
<1>8. \A i \in 0..m : g[i] = IF i = 0 THEN <<>>
                      ELSE IF q[i] \in K THEN Append(g[i - 1], q[i]) ELSE g[i - 1]
  <2> TAKE i \in 0..m
  <2>1. CASE i = m
    <3>1. g[i - 1] = f[i - 1] /\ g[i] = last BY <1>2, <1>3, <1>6, <2>1
    <3> QED BY <1>2, <2>1, <3>1 DEF last
  <2>2. CASE i # m
    <3>1. i \in 0..(m - 1) /\ g[i] = f[i] BY <1>3, <1>6, <2>2
    <3>2. i # 0 => g[i - 1] = f[i - 1] BY <1>3, <1>6, <3>1
    <3> QED BY <1>5, <3>1, <3>2
  <2> QED BY <2>1, <2>2
<1>9. g = [i \in 0..m |-> g[i]] BY DEF g
<1>10. KeepsBy(q, K, g, m)
  <2> DEFINE h == [i \in 0..m |-> IF i = 0 THEN <<>>
                      ELSE IF q[i] \in K THEN Append(g[i - 1], q[i]) ELSE g[i - 1]]
  <2>1. h = [i \in 0..m |-> g[i]] BY <1>8
  <2> QED BY <2>1, <1>9 DEF KeepsBy
<1> QED BY <1>1, <1>10

(* ... so that Keeping is what one of them gives for the whole list.        *)
LEMMA KeepingIs ==
  ASSUME NEW q, NEW K, Len(q) \in Nat
  PROVE  \E f : KeepsBy(q, K, f, Len(q)) /\ Keeping(q, K) = f[Len(q)]
<1> DEFINE f == CHOOSE f : KeepsBy(q, K, f, Len(q))
<1>1. KeepsBy(q, K, f, Len(q)) BY KeepsExists
<1>2. Keeping(q, K) = f[Len(q)] BY DEF Keeping, KeepsBy
<1> QED BY <1>1, <1>2

(* Keeping (retain): the kept entries and no others, still one per id.      *)
LEMMA KeepList ==
  ASSUME NEW q, IsList(q), NEW K, IdsApart(q)
  PROVE  LET r == Keeping(q, K) IN
         IsList(r) /\ IdsApart(r) /\ Range(r) = Range(q) \cap K
<1> DEFINE n == Len(q)
<1>1. n \in Nat /\ DOMAIN q = 1..n BY ListIs
<1>2. PICK f : KeepsBy(q, K, f, n) /\ Keeping(q, K) = f[n] BY <1>1, KeepingIs
<1>3. \A i \in 0..n : f[i] = IF i = 0 THEN <<>>
                      ELSE IF q[i] \in K THEN Append(f[i - 1], q[i]) ELSE f[i - 1]
  BY <1>2 DEF KeepsBy
<1> DEFINE Part(i) == {q[j] : j \in 1..i} \cap K
           Fits(i) == IsList(f[i]) /\ IdsApart(f[i]) /\ Range(f[i]) = Part(i)
           Bad == {m \in 0..n : ~Fits(m)}
<1>4. Bad = {}
  <2> SUFFICES ASSUME Bad # {} PROVE FALSE OBVIOUS
  <2>1. Bad \in SUBSET Nat BY <1>1
  <2>2. PICK m \in Bad : \A x \in Bad : m <= x BY <2>1, MinOf
  <2>3. m # 0
    <3>1. f[0] = <<>> BY <1>1, <1>3
    <3>2. IsList(<<>>) /\ IdsApart(<<>>) /\ Range(<<>>) = {} BY DEF IsList, IdsApart, Range
    <3>3. Part(0) = {} OBVIOUS
    <3>4. Fits(0) BY <3>1, <3>2, <3>3
    <3> QED BY <3>4
  <2>4. m \in 1..n /\ m - 1 \in 0..n /\ m - 1 \notin Bad
    <3>1. m \in 0..n BY <2>2
    <3> HIDE DEF Bad
    <3>2. m \in 1..n /\ m - 1 \in 0..n BY <1>1, <2>3, <3>1
    <3>3. ~(m <= m - 1) BY <1>1, <3>1
    <3> QED BY <2>2, <3>2, <3>3
  <2>5. Fits(m - 1) BY <2>4
  <2>6. f[m] = IF q[m] \in K THEN Append(f[m - 1], q[m]) ELSE f[m - 1] BY <1>3, <2>3, <2>4
  <2>7. Part(m) = IF q[m] \in K THEN Part(m - 1) \cup {q[m]} ELSE Part(m - 1)
    <3>1. 1..m = (1..(m - 1)) \cup {m} BY <2>4, <1>1
    <3> QED BY <3>1
  <2> DEFINE g == f[m - 1]
  <2>8. IsList(g) /\ IdsApart(g) /\ Range(g) = Part(m - 1) BY <2>5
  <2>9. CASE q[m] \in K
    <3>1. \A d \in Range(g) : d.id # q[m].id
      <4> SUFFICES ASSUME NEW j \in 1..(m - 1) PROVE q[j].id # q[m].id BY <2>8
      <4>1. j \in 1..n /\ m \in 1..n /\ j # m BY <2>4, <1>1
      <4> QED BY <4>1, <1>1 DEF IdsApart
    <3>2. f[m] = Append(g, q[m]) BY <2>6, <2>9
    <3> HIDE DEF g
    <3>3. IsList(f[m]) /\ Range(f[m]) = Range(g) \cup {q[m]} BY <2>8, <3>2, AppendList
    <3>4. IdsApart(f[m]) BY <2>8, <3>1, <3>2, AppendApart
    <3>5. Fits(m)
      <4> HIDE DEF Part
      <4> QED BY <2>7, <2>8, <2>9, <3>3, <3>4
    <3> QED BY <3>5, <2>2
  <2>10. CASE q[m] \notin K
    <3>1. f[m] = g BY <2>6, <2>10
    <3>2. Fits(m)
      <4> HIDE DEF Part, g
      <4> QED BY <2>7, <2>8, <2>10, <3>1
    <3> QED BY <3>2, <2>2
  <2> QED BY <2>9, <2>10
<1>5. Fits(n) BY <1>1, <1>4
<1>6. Part(n) = Range(q) \cap K BY <1>1 DEF Range
<1> QED BY <1>2, <1>5, <1>6

-----------------------------------------------------------------------------
(* Owners: sets of entries and the maps, and what each change of one does to*)
(* the other.                                                               *)

Statuses   == {"running", "stopped", "ok", "error"}
BlockKinds == {"reply", "reasoning", "group", "tool", "notice", "plan", "table"}

IsEntry(e, n) ==
  /\ DOMAIN e = {"id", "of", "done", "block"}
  /\ DOMAIN e.block = {"kind", "text", "run", "closed", "label"}
  /\ e.id \in 1..(n - 1) /\ e.of \in 1..(n - 1) /\ e.done \in BOOLEAN
  /\ e.block.kind \in BlockKinds /\ e.block.run \in Seq(Statuses)
  /\ e.block.closed \in BOOLEAN

(* What an entry says of itself agrees.                                     *)
Tidy(e) ==
  /\ e.done => Still(e)
  /\ e.block.kind \in {"notice", "plan", "table"} => e.done
  /\ e.block.kind \notin {"tool", "group"} => e.block.run = <<>>
  /\ e.block.kind = "tool" => /\ Len(e.block.run) = 1
                              /\ ~e.done => e.block.run[1] = "running"
  /\ e.block.kind = "group" /\ e.block.closed /\ Still(e) => e.done

(* What the maps say of the entries, E, and the entries of the maps.        *)
OneId(E) == \A d, e \in E : d.id = e.id => d = e

StreamsOpen(E, streams) ==
  \A sid \in DOMAIN streams :
    \E e \in E : e.id = streams[sid] /\ ~e.done /\ e.block.kind = "reply"

OneStream(streams) == \A x, y \in DOMAIN streams : streams[x] = streams[y] => x = y

ToolsRun(E, tools) ==
  \A t \in DOMAIN tools :
    \E e \in E : /\ e.id = tools[t].entry /\ ~e.done
                 /\ tools[t].at \in DOMAIN e.block.run
                 /\ e.block.run[tools[t].at] = "running"

OneTool(tools) ==
  \A t, v \in DOMAIN tools :
    tools[t].entry = tools[v].entry /\ tools[t].at = tools[v].at => t = v

RunsOwned(E, tools) ==
  \A e \in E : \A j \in DOMAIN e.block.run :
    e.block.run[j] = "running" => \E t \in DOMAIN tools : tools[t].entry = e.id /\ tools[t].at = j

RepliesOwned(E, streams) ==
  \A e \in E : ~e.done /\ e.block.kind = "reply" => \E sid \in DOMAIN streams : streams[sid] = e.id

ThoughtsOwned(E, reasoning) ==
  \A e \in E : ~e.done /\ e.block.kind = "reasoning" =>
    \E sid \in DOMAIN reasoning : reasoning[sid] = e.id

ThoughtsKnown(E, reasoning) ==
  \A e \in E : \A sid \in DOMAIN reasoning : e.id = reasoning[sid] => e.block.kind = "reasoning"

GroupsOwned(E, open_group) ==
  \A e \in E : ~e.done /\ e.block.kind = "group" => e.id = open_group \/ e.block.closed

GroupOpen(E, open_group) ==
  open_group # NoGroup =>
    \E e \in E : e.id = open_group /\ e.block.kind = "group" /\ ~e.block.closed /\ ~e.done

RowsAreTools(E, plan_rows) == \A e \in E : e.id \in plan_rows => e.block.kind = "tool"

Owners(E, streams, tools, reasoning, open_group, plan_rows) ==
  /\ StreamsOpen(E, streams) /\ OneStream(streams) /\ RepliesOwned(E, streams)
  /\ ToolsRun(E, tools) /\ OneTool(tools) /\ RunsOwned(E, tools)
  /\ ThoughtsOwned(E, reasoning) /\ ThoughtsKnown(E, reasoning)
  /\ GroupsOwned(E, open_group) /\ GroupOpen(E, open_group)
  /\ RowsAreTools(E, plan_rows)

-----------------------------------------------------------------------------
(* An entry gives way to one that differs in its text at most.              *)
LEMMA SwapText ==
  ASSUME NEW E, NEW streams, NEW tools, NEW reasoning, NEW open_group, NEW plan_rows,
         Owners(E, streams, tools, reasoning, open_group, plan_rows), OneId(E),
         NEW d \in E, NEW e, e.id = d.id, e.done = d.done, e.block.kind = d.block.kind,
         e.block.run = d.block.run, e.block.closed = d.block.closed
  PROVE  Owners((E \ {d}) \cup {e}, streams, tools, reasoning, open_group, plan_rows)
<1> DEFINE F == (E \ {d}) \cup {e}
<1>0. \A f \in F : \E c \in E : /\ c.id = f.id /\ c.done = f.done /\ c.block.kind = f.block.kind
                                /\ c.block.run = f.block.run /\ c.block.closed = f.block.closed
  OBVIOUS
<1>02. \A c \in E : \E f \in F : /\ c.id = f.id /\ c.done = f.done /\ c.block.kind = f.block.kind
                                /\ c.block.run = f.block.run /\ c.block.closed = f.block.closed
  OBVIOUS
<1>01. \A c \in E : \E f \in F : /\ c.id = f.id /\ (~c.done => ~f.done)
                                /\ c.block.kind = f.block.kind
                                /\ (~c.block.closed => ~f.block.closed)
  BY <1>02
<1> HIDE DEF F
<1>1. StreamsOpen(F, streams) /\ OneStream(streams) BY <1>01 DEF Owners, StreamsOpen
<1>2. RepliesOwned(F, streams) BY <1>0 DEF Owners, RepliesOwned
<1>3. ToolsRun(F, tools) /\ OneTool(tools) BY <1>02 DEF Owners, ToolsRun
<1>4. RunsOwned(F, tools) BY <1>0 DEF Owners, RunsOwned
<1>5. ThoughtsOwned(F, reasoning) BY <1>0 DEF Owners, ThoughtsOwned
<1>6. ThoughtsKnown(F, reasoning) BY <1>0 DEF Owners, ThoughtsKnown
<1>7. GroupsOwned(F, open_group) BY <1>0 DEF Owners, GroupsOwned
<1>8. GroupOpen(F, open_group) BY <1>01 DEF Owners, GroupOpen
<1>9. RowsAreTools(F, plan_rows) BY <1>0 DEF Owners, RowsAreTools
<1> QED BY <1>1, <1>2, <1>3, <1>4, <1>5, <1>6, <1>7, <1>8, <1>9 DEF Owners, F

(* Entries that are done may go.                                            *)
LEMMA DoneMayGo ==
  ASSUME NEW E, NEW streams, NEW tools, NEW reasoning, NEW open_group, NEW plan_rows,
         Owners(E, streams, tools, reasoning, open_group, plan_rows),
         NEW F, F \subseteq E, \A e \in E : ~e.done => e \in F
  PROVE  Owners(F, streams, tools, reasoning, open_group, plan_rows)
<1>1. StreamsOpen(F, streams) /\ OneStream(streams) BY DEF Owners, StreamsOpen
<1>2. RepliesOwned(F, streams) BY DEF Owners, RepliesOwned
<1>3. ToolsRun(F, tools) /\ OneTool(tools) BY DEF Owners, ToolsRun
<1>4. RunsOwned(F, tools) BY DEF Owners, RunsOwned
<1>5. ThoughtsOwned(F, reasoning) BY DEF Owners, ThoughtsOwned
<1>6. ThoughtsKnown(F, reasoning) BY DEF Owners, ThoughtsKnown
<1>7. GroupsOwned(F, open_group) BY DEF Owners, GroupsOwned
<1>8. GroupOpen(F, open_group) BY DEF Owners, GroupOpen
<1>9. RowsAreTools(F, plan_rows) BY DEF Owners, RowsAreTools
<1> QED BY <1>1, <1>2, <1>3, <1>4, <1>5, <1>6, <1>7, <1>8, <1>9 DEF Owners

(* close_group: the open group is closed, and done if nothing in it runs.   *)
LEMMA GroupCloses ==
  ASSUME NEW E, NEW streams, NEW tools, NEW reasoning, NEW open_group, NEW plan_rows,
         Owners(E, streams, tools, reasoning, open_group, plan_rows), OneId(E),
         NEW d \in E, d.id = open_group, d.block.kind = "group", ~d.done, ~d.block.closed,
         NEW e, e.id = d.id, e.block.kind = "group", e.block.run = d.block.run, e.block.closed,
         e.done => Still(d)
  PROVE  Owners((E \ {d}) \cup {e}, streams, tools, reasoning, NoGroup, plan_rows)
<1> DEFINE F == (E \ {d}) \cup {e}
<1>1. StreamsOpen(F, streams) /\ OneStream(streams) BY DEF Owners, StreamsOpen
<1>2. RepliesOwned(F, streams) BY DEF Owners, RepliesOwned
<1>3. ToolsRun(F, tools) /\ OneTool(tools)
  <2> SUFFICES ASSUME NEW t \in DOMAIN tools
               PROVE  \E f \in F : /\ f.id = tools[t].entry /\ ~f.done
                                   /\ tools[t].at \in DOMAIN f.block.run
                                   /\ f.block.run[tools[t].at] = "running"
    BY DEF ToolsRun, Owners
  <2>1. PICK c \in E : /\ c.id = tools[t].entry /\ ~c.done
                       /\ tools[t].at \in DOMAIN c.block.run
                       /\ c.block.run[tools[t].at] = "running"
    BY DEF Owners, ToolsRun
  <2>2. CASE c # d BY <2>1, <2>2
  <2>3. CASE c = d
    <3>1. ~Still(d) BY <2>1, <2>3 DEF Still, Range
    <3> QED BY <2>1, <2>3, <3>1
  <2> QED BY <2>2, <2>3
<1>4. RunsOwned(F, tools) BY DEF Owners, RunsOwned
<1>5. ThoughtsOwned(F, reasoning) BY DEF Owners, ThoughtsOwned
<1>6. ThoughtsKnown(F, reasoning) BY DEF Owners, ThoughtsKnown
<1>7. GroupsOwned(F, NoGroup) BY DEF Owners, GroupsOwned, OneId
<1>8. GroupOpen(F, NoGroup) BY DEF GroupOpen
<1>9. RowsAreTools(F, plan_rows) BY DEF Owners, RowsAreTools
<1> QED BY <1>1, <1>2, <1>3, <1>4, <1>5, <1>6, <1>7, <1>8, <1>9 DEF Owners

(* An entry that is done, of a new id, needs no owner.                      *)
LEMMA DoneIsAdded ==
  ASSUME NEW E, NEW streams, NEW tools, NEW reasoning, NEW open_group, NEW plan_rows,
         Owners(E, streams, tools, reasoning, open_group, plan_rows),
         NEW e, e.done, e.block.run = <<>>, e.id \notin plan_rows,
         \A sid \in DOMAIN reasoning : reasoning[sid] # e.id
  PROVE  Owners(E \cup {e}, streams, tools, reasoning, open_group, plan_rows)
<1> DEFINE F == E \cup {e}
<1>0. DOMAIN e.block.run = {} OBVIOUS
<1>1. StreamsOpen(F, streams) /\ OneStream(streams) BY DEF Owners, StreamsOpen
<1>2. RepliesOwned(F, streams) BY DEF Owners, RepliesOwned
<1>3. ToolsRun(F, tools) /\ OneTool(tools) BY DEF Owners, ToolsRun
<1>4. RunsOwned(F, tools) BY <1>0 DEF Owners, RunsOwned
<1>5. ThoughtsOwned(F, reasoning) BY DEF Owners, ThoughtsOwned
<1>6. ThoughtsKnown(F, reasoning) BY DEF Owners, ThoughtsKnown
<1>7. GroupsOwned(F, open_group) BY DEF Owners, GroupsOwned
<1>8. GroupOpen(F, open_group) BY DEF Owners, GroupOpen
<1>9. RowsAreTools(F, plan_rows) BY DEF Owners, RowsAreTools
<1> QED BY <1>1, <1>2, <1>3, <1>4, <1>5, <1>6, <1>7, <1>8, <1>9 DEF Owners

(* OpenReply: a new reply and its stream.                                   *)
LEMMA ReplyIsAdded ==
  ASSUME NEW E, NEW streams, NEW tools, NEW reasoning, NEW open_group, NEW plan_rows,
         Owners(E, streams, tools, reasoning, open_group, plan_rows),
         NEW e, ~e.done, e.block.kind = "reply", e.block.run = <<>>, e.id \notin plan_rows,
         \A d \in E : d.id # e.id,
         \A sid \in DOMAIN reasoning : reasoning[sid] # e.id,
         NEW x, x \notin DOMAIN streams
  PROVE  Owners(E \cup {e}, With(streams, x, e.id), tools, reasoning, open_group, plan_rows)
<1> DEFINE F == E \cup {e}
           s == With(streams, x, e.id)
<1>0. DOMAIN e.block.run = {} OBVIOUS
<1>00. DOMAIN s = DOMAIN streams \cup {x} /\ s[x] = e.id
       /\ \A y \in DOMAIN streams : s[y] = streams[y]
  BY DEF With
<1> HIDE DEF s
<1>1. StreamsOpen(F, s)
  <2> SUFFICES ASSUME NEW sid \in DOMAIN s
               PROVE  \E f \in F : f.id = s[sid] /\ ~f.done /\ f.block.kind = "reply"
    BY DEF StreamsOpen
  <2>1. CASE sid = x BY <2>1, <1>00
  <2>2. CASE sid # x BY <2>2, <1>00 DEF Owners, StreamsOpen
  <2> QED BY <2>1, <2>2
<1>10. OneStream(s)
  <2>1. \A y \in DOMAIN streams : streams[y] # e.id BY DEF Owners, StreamsOpen
  <2> QED BY <2>1, <1>00 DEF Owners, OneStream
<1>2. RepliesOwned(F, s) BY <1>00 DEF Owners, RepliesOwned
<1>3. ToolsRun(F, tools) /\ OneTool(tools) BY DEF Owners, ToolsRun
<1>4. RunsOwned(F, tools) BY <1>0 DEF Owners, RunsOwned
<1>5. ThoughtsOwned(F, reasoning) BY DEF Owners, ThoughtsOwned
<1>6. ThoughtsKnown(F, reasoning) BY DEF Owners, ThoughtsKnown
<1>7. GroupsOwned(F, open_group) BY DEF Owners, GroupsOwned
<1>8. GroupOpen(F, open_group) BY DEF Owners, GroupOpen
<1>9. RowsAreTools(F, plan_rows) BY DEF Owners, RowsAreTools
<1> QED BY <1>1, <1>2, <1>3, <1>4, <1>5, <1>6, <1>7, <1>8, <1>9, <1>10 DEF Owners, s

(* AssistantReasoningDelta: a new reasoning and its place in the map.       *)
LEMMA ThoughtIsAdded ==
  ASSUME NEW E, NEW streams, NEW tools, NEW reasoning, NEW open_group, NEW plan_rows,
         Owners(E, streams, tools, reasoning, open_group, plan_rows),
         NEW e, ~e.done, e.block.kind = "reasoning", e.block.run = <<>>, e.id \notin plan_rows,
         \A d \in E : d.id # e.id, NEW x, x \notin DOMAIN reasoning
  PROVE  Owners(E \cup {e}, streams, tools, With(reasoning, x, e.id), open_group, plan_rows)
<1> DEFINE F == E \cup {e}
           s == With(reasoning, x, e.id)
<1>0. DOMAIN e.block.run = {} OBVIOUS
<1>00. DOMAIN s = DOMAIN reasoning \cup {x} /\ s[x] = e.id
       /\ \A y \in DOMAIN reasoning : s[y] = reasoning[y]
  BY DEF With
<1> HIDE DEF s
<1>1. StreamsOpen(F, streams) /\ OneStream(streams) BY DEF Owners, StreamsOpen
<1>2. RepliesOwned(F, streams) BY DEF Owners, RepliesOwned
<1>3. ToolsRun(F, tools) /\ OneTool(tools) BY DEF Owners, ToolsRun
<1>4. RunsOwned(F, tools) BY <1>0 DEF Owners, RunsOwned
<1>5. ThoughtsOwned(F, s) BY <1>00 DEF Owners, ThoughtsOwned
<1>6. ThoughtsKnown(F, s) BY <1>00 DEF Owners, ThoughtsKnown
<1>7. GroupsOwned(F, open_group) BY DEF Owners, GroupsOwned
<1>8. GroupOpen(F, open_group) BY DEF Owners, GroupOpen
<1>9. RowsAreTools(F, plan_rows) BY DEF Owners, RowsAreTools
<1> QED BY <1>1, <1>2, <1>3, <1>4, <1>5, <1>6, <1>7, <1>8, <1>9 DEF Owners, s

(* ToolStarted: a new row, or a new group that is open, and the tool in it. *)
LEMMA ToolIsAdded ==
  ASSUME NEW E, NEW streams, NEW tools, NEW reasoning, NEW open_group, NEW plan_rows,
         Owners(E, streams, tools, reasoning, open_group, plan_rows),
         NEW e, ~e.done, e.block.run = <<"running">>, e.id \notin plan_rows,
         \A d \in E : d.id # e.id,
         \A sid \in DOMAIN reasoning : reasoning[sid] # e.id,
         \A d \in E : d.id # NoGroup,
         NEW x, x \notin DOMAIN tools,
         NEW og, NEW rows,
         \/ /\ e.block.kind = "tool" /\ og = open_group
            /\ rows \in {plan_rows, plan_rows \cup {e.id}}
         \/ /\ e.block.kind = "group" /\ ~e.block.closed /\ open_group = NoGroup
            /\ og = e.id /\ rows = plan_rows
  PROVE  Owners(E \cup {e}, streams, With(tools, x, [entry |-> e.id, at |-> 1]), reasoning, og, rows)
<1> DEFINE F == E \cup {e}
           s == With(tools, x, [entry |-> e.id, at |-> 1])
<1>0. DOMAIN e.block.run = {1} /\ e.block.run[1] = "running" OBVIOUS
<1>00. DOMAIN s = DOMAIN tools \cup {x} /\ s[x].entry = e.id /\ s[x].at = 1
       /\ \A y \in DOMAIN tools : s[y] = tools[y]
  BY DEF With
<1> HIDE DEF s
<1>1. StreamsOpen(F, streams) /\ OneStream(streams) BY DEF Owners, StreamsOpen
<1>2. RepliesOwned(F, streams) BY DEF Owners, RepliesOwned
<1>3. ToolsRun(F, s)
  <2> SUFFICES ASSUME NEW t \in DOMAIN s
               PROVE  \E f \in F : /\ f.id = s[t].entry /\ ~f.done
                                   /\ s[t].at \in DOMAIN f.block.run
                                   /\ f.block.run[s[t].at] = "running"
    BY DEF ToolsRun
  <2>1. CASE t = x
    <3>1. /\ e.id = s[t].entry /\ ~e.done /\ s[t].at \in DOMAIN e.block.run
          /\ e.block.run[s[t].at] = "running"
      BY <2>1, <1>0, <1>00
    <3> QED BY <3>1
  <2>2. CASE t # x
    <3>1. t \in DOMAIN tools /\ s[t] = tools[t] BY <2>2, <1>00
    <3> QED BY <3>1 DEF Owners, ToolsRun
  <2> QED BY <2>1, <2>2
<1>10. OneTool(s)
  <2>1. \A y \in DOMAIN tools : tools[y].entry # e.id BY DEF Owners, ToolsRun
  <2> QED BY <2>1, <1>00 DEF Owners, OneTool
<1>4. RunsOwned(F, s)
  <2> SUFFICES ASSUME NEW f \in F, NEW j \in DOMAIN f.block.run, f.block.run[j] = "running"
               PROVE  \E t \in DOMAIN s : s[t].entry = f.id /\ s[t].at = j
    BY DEF RunsOwned
  <2>1. CASE f = e BY <2>1, <1>0, <1>00
  <2>2. CASE f \in E BY <2>2, <1>00 DEF Owners, RunsOwned
  <2> QED BY <2>1, <2>2
<1>5. ThoughtsOwned(F, reasoning) BY DEF Owners, ThoughtsOwned
<1>6. ThoughtsKnown(F, reasoning) BY DEF Owners, ThoughtsKnown
<1>7. GroupsOwned(F, og)
  <2>1. CASE e.block.kind = "tool" BY <2>1 DEF Owners, GroupsOwned
  <2>2. CASE e.block.kind = "group"
    <3>1. \A d \in E : ~d.done /\ d.block.kind = "group" => d.id = NoGroup \/ d.block.closed
      BY <2>2 DEF Owners, GroupsOwned
    <3> QED BY <2>2, <3>1 DEF GroupsOwned
  <2> QED BY <2>1, <2>2
<1>8. GroupOpen(F, og) BY DEF Owners, GroupOpen
<1>9. RowsAreTools(F, rows) BY DEF Owners, RowsAreTools
<1> QED BY <1>1, <1>2, <1>3, <1>4, <1>5, <1>6, <1>7, <1>8, <1>9, <1>10 DEF Owners, s

(* ToolStarted: the open group gets one more tool.                          *)
LEMMA GroupGrows ==
  ASSUME NEW E, NEW streams, NEW tools, NEW reasoning, NEW open_group, NEW plan_rows,
         Owners(E, streams, tools, reasoning, open_group, plan_rows), OneId(E),
         NEW d \in E, d.id = open_group, open_group # NoGroup, d.block.run \in Seq(Statuses),
         NEW e, e.id = d.id, e.done = d.done, e.block.kind = d.block.kind,
         e.block.closed = d.block.closed, e.block.run = Append(d.block.run, "running"),
         NEW x, x \notin DOMAIN tools
  PROVE  Owners((E \ {d}) \cup {e}, streams,
                With(tools, x, [entry |-> open_group, at |-> Len(e.block.run)]),
                reasoning, open_group, plan_rows)
<1> DEFINE F == (E \ {d}) \cup {e}
           n == Len(d.block.run)
           s == With(tools, x, [entry |-> open_group, at |-> Len(e.block.run)])
<1>a. d.block.kind = "group" /\ ~d.block.closed /\ ~d.done
  BY DEF Owners, GroupOpen, OneId
<1>b. n \in Nat /\ DOMAIN d.block.run = 1..n OBVIOUS
<1>c. /\ DOMAIN e.block.run = 1..(n + 1) /\ Len(e.block.run) = n + 1
      /\ e.block.run[n + 1] = "running" /\ \A j \in 1..n : e.block.run[j] = d.block.run[j]
  OBVIOUS
<1>d. DOMAIN s = DOMAIN tools \cup {x} /\ s[x].entry = d.id /\ s[x].at = n + 1
       /\ \A y \in DOMAIN tools : s[y] = tools[y]
  BY <1>c DEF With
<1>e. ~e.done /\ ~e.block.closed /\ e.block.kind = "group" BY <1>a
<1>f. \A f \in F : f # e => f \in E /\ f # d OBVIOUS
<1>g. \A f \in E : f # d => f \in F OBVIOUS
<1>h. e \in F OBVIOUS
<1> HIDE DEF s, n, F
<1>1. StreamsOpen(F, streams) /\ OneStream(streams) BY <1>a, <1>g DEF Owners, StreamsOpen
<1>2. RepliesOwned(F, streams) BY <1>e, <1>f DEF Owners, RepliesOwned
<1>3. ToolsRun(F, s)
  <2> SUFFICES ASSUME NEW t \in DOMAIN s
               PROVE  \E f \in F : /\ f.id = s[t].entry /\ ~f.done
                                   /\ s[t].at \in DOMAIN f.block.run
                                   /\ f.block.run[s[t].at] = "running"
    BY DEF ToolsRun
  <2>1. CASE t = x
    <3>1. /\ e.id = s[t].entry /\ s[t].at \in DOMAIN e.block.run
          /\ e.block.run[s[t].at] = "running"
      BY <2>1, <1>b, <1>c, <1>d
    <3> QED BY <3>1, <1>e, <1>h
  <2>2. CASE t # x
    <3>1. t \in DOMAIN tools /\ s[t] = tools[t] BY <2>2, <1>d
    <3>2. PICK c \in E : /\ c.id = tools[t].entry /\ ~c.done
                         /\ tools[t].at \in DOMAIN c.block.run
                         /\ c.block.run[tools[t].at] = "running"
      BY <3>1 DEF Owners, ToolsRun
    <3>3. CASE c # d BY <3>1, <3>2, <3>3, <1>g
    <3>4. CASE c = d
      <4>1. tools[t].at \in 1..n /\ tools[t].at \in 1..(n + 1) BY <3>2, <3>4, <1>b
      <4>2. e.block.run[tools[t].at] = "running" BY <4>1, <3>2, <3>4, <1>c
      <4> QED BY <3>1, <3>2, <3>4, <4>1, <4>2, <1>c, <1>e, <1>h
    <3> QED BY <3>3, <3>4
  <2> QED BY <2>1, <2>2
<1>10. OneTool(s)
  <2>1. ASSUME NEW y \in DOMAIN tools, tools[y].entry = d.id PROVE tools[y].at # n + 1
    <3>1. PICK c \in E : c.id = tools[y].entry /\ tools[y].at \in DOMAIN c.block.run
      BY DEF Owners, ToolsRun
    <3>2. c = d BY <3>1, <2>1 DEF OneId
    <3> QED BY <3>1, <3>2, <1>b
  <2> QED BY <2>1, <1>d DEF Owners, OneTool
<1>4. RunsOwned(F, s)
  <2> SUFFICES ASSUME NEW f \in F, NEW j \in DOMAIN f.block.run, f.block.run[j] = "running"
               PROVE  \E t \in DOMAIN s : s[t].entry = f.id /\ s[t].at = j
    BY DEF RunsOwned
  <2>1. CASE f = e /\ j = n + 1 BY <2>1, <1>d
  <2>2. CASE f = e /\ j # n + 1
    <3>1. j \in 1..n /\ d.block.run[j] = "running" BY <2>2, <1>b, <1>c
    <3>2. PICK t \in DOMAIN tools : tools[t].entry = d.id /\ tools[t].at = j
      BY <3>1, <1>b DEF Owners, RunsOwned
    <3> QED BY <3>2, <2>2, <1>d
  <2>3. CASE f # e
    <3>1. f \in E BY <2>3, <1>f
    <3>2. PICK t \in DOMAIN tools : tools[t].entry = f.id /\ tools[t].at = j
      BY <3>1 DEF Owners, RunsOwned
    <3> QED BY <3>2, <1>d
  <2> QED BY <2>1, <2>2, <2>3
<1>5. ThoughtsOwned(F, reasoning) BY <1>e, <1>f DEF Owners, ThoughtsOwned
<1>6. ThoughtsKnown(F, reasoning) BY <1>f DEF Owners, ThoughtsKnown
<1>7. GroupsOwned(F, open_group) BY <1>f DEF Owners, GroupsOwned
<1>8. GroupOpen(F, open_group) BY <1>e, <1>h DEF GroupOpen
<1>9. RowsAreTools(F, plan_rows) BY <1>f DEF Owners, RowsAreTools
<1> QED BY <1>1, <1>2, <1>3, <1>4, <1>5, <1>6, <1>7, <1>8, <1>9, <1>10 DEF Owners, s, F

(* finish_reasoning: its entry is done, or gone already.                    *)
LEMMA ThoughtEnds ==
  ASSUME NEW E, NEW streams, NEW tools, NEW reasoning, NEW open_group, NEW plan_rows,
         Owners(E, streams, tools, reasoning, open_group, plan_rows), OneId(E),
         NEW x \in DOMAIN reasoning, NEW F,
         \/ F = E /\ \A c \in E : c.id # reasoning[x]
         \/ \E d \in E : \E e : /\ F = (E \ {d}) \cup {e}
                            /\ d.id = reasoning[x] /\ e.id = d.id /\ e.done
                            /\ e.block = d.block,
         \A c \in E : c.block.kind = "reasoning" => c.block.run = <<>>
  PROVE  Owners(F, streams, tools, Without(reasoning, {x}), open_group, plan_rows)
<1> DEFINE s == Without(reasoning, {x})
<1>a. DOMAIN s = DOMAIN reasoning \ {x} /\ \A y \in DOMAIN s : s[y] = reasoning[y]
  BY DEF Without, Restrict
<1>b. \A c \in E : c.id = reasoning[x] => c.block.kind = "reasoning"
  BY DEF Owners, ThoughtsKnown
<1>c. \A c \in E : c.block.kind # "reasoning" => c \in F BY <1>b
<1>d. \A f \in F : f \notin E => /\ f.done /\ f.block.kind = "reasoning"
                                 /\ \E c \in E : c.block = f.block /\ c.id = f.id
  BY <1>b
<1>e. \A f \in F : f.id = reasoning[x] => f.done
  BY DEF OneId
<1> HIDE DEF s
<1>1. StreamsOpen(F, streams) /\ OneStream(streams) BY <1>c DEF Owners, StreamsOpen
<1>2. RepliesOwned(F, streams) BY <1>d DEF Owners, RepliesOwned
<1>3. ToolsRun(F, tools) /\ OneTool(tools)
  <2>1. \A c \in E : DOMAIN c.block.run # {} => c \in F BY <1>c
  <2> QED BY <2>1 DEF Owners, ToolsRun
<1>4. RunsOwned(F, tools) BY <1>d DEF Owners, RunsOwned
<1>5. ThoughtsOwned(F, s)
  <2> SUFFICES ASSUME NEW f \in F, ~f.done, f.block.kind = "reasoning"
               PROVE  \E y \in DOMAIN s : s[y] = f.id
    BY DEF ThoughtsOwned
  <2>1. f \in E /\ f.id # reasoning[x] BY <1>d, <1>e
  <2>2. PICK y \in DOMAIN reasoning : reasoning[y] = f.id BY <2>1 DEF Owners, ThoughtsOwned
  <2> QED BY <2>1, <2>2, <1>a
<1>6. ThoughtsKnown(F, s)
  <2>1. \A f \in F, y \in DOMAIN s : f.id = s[y] /\ f \in E => f.block.kind = "reasoning"
    BY <1>a DEF Owners, ThoughtsKnown
  <2> QED BY <2>1, <1>d DEF ThoughtsKnown
<1>7. GroupsOwned(F, open_group) BY <1>d DEF Owners, GroupsOwned
<1>8. GroupOpen(F, open_group) BY <1>c DEF Owners, GroupOpen
<1>9. RowsAreTools(F, plan_rows) BY <1>d DEF Owners, RowsAreTools
<1> QED BY <1>1, <1>2, <1>3, <1>4, <1>5, <1>6, <1>7, <1>8, <1>9 DEF Owners, s

(* A reply completes: its entry is done and has no stream.                  *)
LEMMA ReplyEnds ==
  ASSUME NEW E, NEW streams, NEW tools, NEW reasoning, NEW open_group, NEW plan_rows,
         Owners(E, streams, tools, reasoning, open_group, plan_rows), OneId(E),
         NEW x \in DOMAIN streams, NEW d \in E, d.id = streams[x], NEW e, e.id = d.id, e.done,
         e.block.kind = d.block.kind, e.block.run = d.block.run,
         d.block.kind \notin {"tool", "group"} => d.block.run = <<>>
  PROVE  Owners((E \ {d}) \cup {e}, Without(streams, {x}), tools, reasoning, open_group, plan_rows)
<1> DEFINE s == Without(streams, {x})
           F == (E \ {d}) \cup {e}
<1>a. DOMAIN s = DOMAIN streams \ {x} /\ \A y \in DOMAIN s : s[y] = streams[y]
  BY DEF Without, Restrict
<1>b. d.block.kind = "reply" BY DEF Owners, StreamsOpen, OneId
<1>c. DOMAIN e.block.run = {} /\ DOMAIN d.block.run = {} BY <1>b
<1>d. e.block.kind = "reply" BY <1>b
<1>f. \A f \in F : f # e => f \in E /\ f # d OBVIOUS
<1>g. \A f \in E : f # d => f \in F OBVIOUS
<1> HIDE DEF s, F
<1>1. StreamsOpen(F, s)
  <2> SUFFICES ASSUME NEW y \in DOMAIN s
               PROVE  \E f \in F : f.id = s[y] /\ ~f.done /\ f.block.kind = "reply"
    BY DEF StreamsOpen
  <2>1. y \in DOMAIN streams /\ y # x /\ s[y] = streams[y] BY <1>a
  <2>2. PICK c \in E : c.id = streams[y] /\ ~c.done /\ c.block.kind = "reply"
    BY <2>1 DEF Owners, StreamsOpen
  <2>3. streams[y] # streams[x] BY <2>1 DEF Owners, OneStream
  <2>4. c # d BY <2>2, <2>3
  <2> QED BY <2>1, <2>2, <2>4, <1>g
<1>10. OneStream(s) BY <1>a DEF Owners, OneStream
<1>2. RepliesOwned(F, s)
  <2> SUFFICES ASSUME NEW f \in F, ~f.done, f.block.kind = "reply"
               PROVE  \E y \in DOMAIN s : s[y] = f.id
    BY DEF RepliesOwned
  <2>1. f # e BY Zenon
  <2>2. f \in E /\ f # d BY <2>1, <1>f
  <2>3. f.id # streams[x] BY <2>2 DEF OneId
  <2>4. PICK y \in DOMAIN streams : streams[y] = f.id BY <2>2 DEF Owners, RepliesOwned
  <2> QED BY <2>3, <2>4, <1>a
<1>3. ToolsRun(F, tools) /\ OneTool(tools)
  <2>1. \A c \in E : DOMAIN c.block.run # {} => c \in F BY <1>c, <1>g
  <2> QED BY <2>1 DEF Owners, ToolsRun
<1>4. RunsOwned(F, tools) BY <1>c, <1>f DEF Owners, RunsOwned
<1>5. ThoughtsOwned(F, reasoning) BY <1>d, <1>f DEF Owners, ThoughtsOwned
<1>6. ThoughtsKnown(F, reasoning) BY <1>f DEF Owners, ThoughtsKnown
<1>7. GroupsOwned(F, open_group) BY <1>d, <1>f DEF Owners, GroupsOwned
<1>8. GroupOpen(F, open_group) BY <1>b, <1>g DEF Owners, GroupOpen
<1>9. RowsAreTools(F, plan_rows) BY <1>f DEF Owners, RowsAreTools
<1> QED BY <1>1, <1>2, <1>3, <1>4, <1>5, <1>6, <1>7, <1>8, <1>9, <1>10 DEF Owners, s, F

(* settle: everything is done and still, and the maps are empty.            *)
LEMMA AllSettled ==
  ASSUME NEW E, NEW streams, NEW tools, NEW reasoning, NEW open_group, NEW plan_rows,
         Owners(E, streams, tools, reasoning, open_group, plan_rows),
         NEW F, \A f \in F : f.done /\ Still(f),
         \A f \in F : \E e \in E : f.id = e.id /\ f.block.kind = e.block.kind
  PROVE  Owners(F, <<>>, <<>>, reasoning, NoGroup, {})
<1>0. DOMAIN <<>> = {} OBVIOUS
<1>1. StreamsOpen(F, <<>>) /\ OneStream(<<>>) BY DEF StreamsOpen, OneStream
<1>2. RepliesOwned(F, <<>>) BY DEF RepliesOwned
<1>3. ToolsRun(F, <<>>) /\ OneTool(<<>>) BY DEF ToolsRun, OneTool
<1>4. RunsOwned(F, <<>>) BY DEF RunsOwned, Still, Range
<1>5. ThoughtsOwned(F, reasoning) BY DEF ThoughtsOwned
<1>6. ThoughtsKnown(F, reasoning) BY DEF Owners, ThoughtsKnown
<1>7. GroupsOwned(F, NoGroup) BY DEF GroupsOwned
<1>8. GroupOpen(F, NoGroup) BY DEF GroupOpen
<1>9. RowsAreTools(F, {}) BY DEF RowsAreTools
<1> QED BY <1>1, <1>2, <1>3, <1>4, <1>5, <1>6, <1>7, <1>8, <1>9 DEF Owners

(* ToolFinished: the tool's status is set, and its entry is done when       *)
(* nothing in it runs any more.                                             *)
LEMMA ToolEnds ==
  ASSUME NEW E, NEW streams, NEW tools, NEW reasoning, NEW open_group, NEW plan_rows,
         Owners(E, streams, tools, reasoning, open_group, plan_rows), OneId(E),
         \A c \in E : c.block.kind \notin {"tool", "group"} => c.block.run = <<>>,
         NEW x \in DOMAIN tools, NEW d \in E, d.id = tools[x].entry,
         NEW status, status # "running",
         NEW e, e.id = d.id, e.block.kind = d.block.kind, e.block.closed = d.block.closed,
         e.block.run = [d.block.run EXCEPT ![tools[x].at] = status],
         e.done => Still(e) /\ (d.block.kind = "group" => d.block.closed)
  PROVE  Owners((E \ {d}) \cup {e}, streams, Without(tools, {x}), reasoning, open_group, plan_rows)
<1> DEFINE s == Without(tools, {x})
           F == (E \ {d}) \cup {e}
           at == tools[x].at
<1>a. DOMAIN s = DOMAIN tools \ {x} /\ \A y \in DOMAIN s : s[y] = tools[y]
  BY DEF Without, Restrict
<1>b. ~d.done /\ at \in DOMAIN d.block.run /\ d.block.run[at] = "running"
  BY DEF Owners, ToolsRun, OneId
<1>c. d.block.kind \in {"tool", "group"}
  <2>1. DOMAIN <<>> = {} OBVIOUS
  <2> QED BY <1>b, <2>1
<1>d. /\ DOMAIN e.block.run = DOMAIN d.block.run
      /\ \A j \in DOMAIN d.block.run : e.block.run[j] = IF j = at THEN status ELSE d.block.run[j]
  OBVIOUS
<1>f. \A f \in F : f # e => f \in E /\ f # d OBVIOUS
<1>g. \A f \in E : f # d => f \in F OBVIOUS
<1>h. e \in F OBVIOUS
<1> HIDE DEF s, F, at
<1>1. StreamsOpen(F, streams) /\ OneStream(streams) BY <1>c, <1>g DEF Owners, StreamsOpen
<1>2. RepliesOwned(F, streams) BY <1>c, <1>f DEF Owners, RepliesOwned
<1>3. ToolsRun(F, s)
  <2> SUFFICES ASSUME NEW t \in DOMAIN s
               PROVE  \E f \in F : /\ f.id = s[t].entry /\ ~f.done
                                   /\ s[t].at \in DOMAIN f.block.run
                                   /\ f.block.run[s[t].at] = "running"
    BY DEF ToolsRun
  <2>1. t \in DOMAIN tools /\ t # x /\ s[t] = tools[t] BY <1>a
  <2>2. PICK c \in E : /\ c.id = tools[t].entry /\ ~c.done
                       /\ tools[t].at \in DOMAIN c.block.run
                       /\ c.block.run[tools[t].at] = "running"
    BY <2>1 DEF Owners, ToolsRun
  <2>3. CASE c # d BY <2>1, <2>2, <2>3, <1>g
  <2>4. CASE c = d
    <3>1. tools[t].at # at BY <2>1, <2>2, <2>4 DEF Owners, OneTool, at
    <3>2. tools[t].at \in DOMAIN e.block.run /\ e.block.run[tools[t].at] = "running"
      BY <3>1, <2>2, <2>4, <1>d
    <3>3. ~Still(e) BY <3>2 DEF Still, Range
    <3>4. ~e.done BY <3>3
    <3> QED BY <2>1, <2>2, <2>4, <3>2, <3>4, <1>h
  <2> QED BY <2>3, <2>4
<1>10. OneTool(s) BY <1>a DEF Owners, OneTool
<1>4. RunsOwned(F, s)
  <2> SUFFICES ASSUME NEW f \in F, NEW j \in DOMAIN f.block.run, f.block.run[j] = "running"
               PROVE  \E t \in DOMAIN s : s[t].entry = f.id /\ s[t].at = j
    BY DEF RunsOwned
  <2>1. CASE f = e
    <3>1. j # at /\ j \in DOMAIN d.block.run /\ d.block.run[j] = "running" BY <2>1, <1>b, <1>d
    <3>2. PICK t \in DOMAIN tools : tools[t].entry = d.id /\ tools[t].at = j
      BY <3>1 DEF Owners, RunsOwned
    <3>3. t # x BY <3>1, <3>2 DEF at
    <3> QED BY <3>2, <3>3, <2>1, <1>a
  <2>2. CASE f # e
    <3>1. f \in E /\ f.id # d.id BY <2>2, <1>f DEF OneId
    <3>2. PICK t \in DOMAIN tools : tools[t].entry = f.id /\ tools[t].at = j
      BY <3>1 DEF Owners, RunsOwned
    <3>3. t # x BY <3>1, <3>2
    <3> QED BY <3>2, <3>3, <1>a
  <2> QED BY <2>1, <2>2
<1>5. ThoughtsOwned(F, reasoning) BY <1>c, <1>f DEF Owners, ThoughtsOwned
<1>6. ThoughtsKnown(F, reasoning) BY <1>f DEF Owners, ThoughtsKnown
<1>7. GroupsOwned(F, open_group)
  <2>1. ~e.done /\ e.block.kind = "group" => e.id = open_group \/ e.block.closed
    BY <1>b DEF Owners, GroupsOwned
  <2> QED BY <2>1, <1>f DEF Owners, GroupsOwned
<1>8. GroupOpen(F, open_group)
  <2> SUFFICES ASSUME open_group # NoGroup
               PROVE  \E f \in F : /\ f.id = open_group /\ f.block.kind = "group"
                                   /\ ~f.block.closed /\ ~f.done
    BY DEF GroupOpen
  <2>1. PICK c \in E : c.id = open_group /\ c.block.kind = "group" /\ ~c.block.closed /\ ~c.done
    BY DEF Owners, GroupOpen
  <2>2. CASE c # d BY <2>1, <2>2, <1>g
  <2>3. CASE c = d
    <3>1. ~e.done BY <2>1, <2>3
    <3> QED BY <2>1, <2>3, <3>1, <1>h
  <2> QED BY <2>2, <2>3
<1>9. RowsAreTools(F, plan_rows) BY <1>f DEF Owners, RowsAreTools
<1> QED BY <1>1, <1>2, <1>3, <1>4, <1>5, <1>6, <1>7, <1>8, <1>9, <1>10 DEF Owners, s, F

(* ... or, a plan row, goes with its only tool.                             *)
LEMMA RowGoes ==
  ASSUME NEW E, NEW streams, NEW tools, NEW reasoning, NEW open_group, NEW plan_rows,
         Owners(E, streams, tools, reasoning, open_group, plan_rows), OneId(E),
         NEW x \in DOMAIN tools, NEW d \in E, d.id = tools[x].entry, d.block.kind = "tool",
         d.block.run \in Seq(Statuses), Len(d.block.run) = 1
  PROVE  Owners(E \ {d}, streams, Without(tools, {x}), reasoning, open_group, plan_rows)
<1> DEFINE s == Without(tools, {x})
           F == E \ {d}
<1>a. DOMAIN s = DOMAIN tools \ {x} /\ \A y \in DOMAIN s : s[y] = tools[y]
  BY DEF Without, Restrict
<1>b. DOMAIN d.block.run = {1} OBVIOUS
<1>c. tools[x].at = 1 BY <1>b DEF Owners, ToolsRun, OneId
<1> HIDE DEF s
<1>1. StreamsOpen(F, streams) /\ OneStream(streams) BY DEF Owners, StreamsOpen
<1>2. RepliesOwned(F, streams) BY DEF Owners, RepliesOwned
<1>3. ToolsRun(F, s)
  <2> SUFFICES ASSUME NEW t \in DOMAIN s
               PROVE  \E f \in F : /\ f.id = s[t].entry /\ ~f.done
                                   /\ s[t].at \in DOMAIN f.block.run
                                   /\ f.block.run[s[t].at] = "running"
    BY DEF ToolsRun
  <2>1. t \in DOMAIN tools /\ t # x /\ s[t] = tools[t] BY <1>a
  <2>2. PICK c \in E : /\ c.id = tools[t].entry /\ ~c.done
                       /\ tools[t].at \in DOMAIN c.block.run
                       /\ c.block.run[tools[t].at] = "running"
    BY <2>1 DEF Owners, ToolsRun
  <2>3. c # d
    <3> SUFFICES ASSUME c = d PROVE FALSE OBVIOUS
    <3>1. tools[t].entry = tools[x].entry /\ tools[t].at = tools[x].at BY <2>2, <1>b, <1>c
    <3> QED BY <3>1, <2>1 DEF Owners, OneTool
  <2> QED BY <2>1, <2>2, <2>3
<1>10. OneTool(s) BY <1>a DEF Owners, OneTool
<1>4. RunsOwned(F, s)
  <2> SUFFICES ASSUME NEW f \in F, NEW j \in DOMAIN f.block.run, f.block.run[j] = "running"
               PROVE  \E t \in DOMAIN s : s[t].entry = f.id /\ s[t].at = j
    BY DEF RunsOwned
  <2>1. f \in E /\ f.id # d.id BY DEF OneId
  <2>2. PICK t \in DOMAIN tools : tools[t].entry = f.id /\ tools[t].at = j
    BY <2>1 DEF Owners, RunsOwned
  <2>3. t # x BY <2>1, <2>2
  <2> QED BY <2>2, <2>3, <1>a
<1>5. ThoughtsOwned(F, reasoning) BY DEF Owners, ThoughtsOwned
<1>6. ThoughtsKnown(F, reasoning) BY DEF Owners, ThoughtsKnown
<1>7. GroupsOwned(F, open_group) BY DEF Owners, GroupsOwned
<1>8. GroupOpen(F, open_group) BY DEF Owners, GroupOpen
<1>9. RowsAreTools(F, plan_rows) BY DEF Owners, RowsAreTools
<1> QED BY <1>1, <1>2, <1>3, <1>4, <1>5, <1>6, <1>7, <1>8, <1>9, <1>10 DEF Owners, s

(* Fewer plan rows are known.                                               *)
LEMMA FewerRows ==
  ASSUME NEW E, NEW streams, NEW tools, NEW reasoning, NEW open_group, NEW plan_rows,
         Owners(E, streams, tools, reasoning, open_group, plan_rows), NEW rows,
         rows \subseteq plan_rows
  PROVE  Owners(E, streams, tools, reasoning, open_group, rows)
BY DEF Owners, RowsAreTools

-----------------------------------------------------------------------------
(* The session: its methods keep the agreement of entries and maps.         *)

Fields ==
  {"entries", "next_id", "streams", "tools", "reasoning", "printed_prefix", "open_group",
   "plan", "plan_seen", "plan_rows", "phase", "phase_busy", "busy_since", "beads", "by_tool",
   "said", "printed"}

(* A session whose entries and maps agree.                                  *)
Listed(s) == DOMAIN s = Fields /\ IsList(s.entries) /\ IdsApart(s.entries)

Entries(s) == Range(s.entries)

Numbered(s) ==
  /\ s.next_id \in Nat \ {0}
  /\ s.plan_rows \subseteq 1..(s.next_id - 1)
  /\ \A sid \in DOMAIN s.reasoning : s.reasoning[sid] \in 1..(s.next_id - 1)

Keyed(s) ==
  /\ DOMAIN s.streams \subseteq StreamIds /\ DOMAIN s.tools \subseteq ToolIds
  /\ DOMAIN s.reasoning \subseteq StreamIds

Owned(s) ==
  Owners(Entries(s), s.streams, s.tools, s.reasoning, s.open_group, s.plan_rows)

Sound(s) ==
  /\ Listed(s) /\ Numbered(s) /\ Keyed(s) /\ Owned(s)
  /\ \A e \in Entries(s) : IsEntry(e, s.next_id) /\ Tidy(e)

(* The trail of the compact region.                                         *)
Trailed(s) ==
  /\ IsList(s.beads) /\ Len(s.beads) <= TrailCap
  /\ \A t \in DOMAIN s.by_tool :
       s.by_tool[t] \in 1..Len(s.beads) /\ s.beads[s.by_tool[t]] = t

SameTrail(s, t) == t.beads = s.beads /\ t.by_tool = s.by_tool

SameMaps(s, t) ==
  /\ t.streams = s.streams /\ t.tools = s.tools /\ t.reasoning = s.reasoning
  /\ t.open_group = s.open_group /\ t.plan_rows = s.plan_rows

(* All that the invariant speaks of but the entries.                        *)
SameRest(s, t) ==
  DOMAIN t = DOMAIN s /\ t.next_id = s.next_id /\ SameMaps(s, t) /\ SameTrail(s, t)

(* What the invariant says does not depend on the other fields.             *)
LEMMA SameSound ==
  ASSUME NEW s, NEW t, Sound(s), DOMAIN t = DOMAIN s, t.entries = s.entries,
         t.next_id = s.next_id, SameMaps(s, t)
  PROVE  Sound(t)
BY DEF Sound, Listed, Numbered, Keyed, Owned, SameMaps, Entries

(* ... and what it says of the trail depends on the trail alone.            *)
LEMMA SameTrailed ==
  ASSUME NEW s, NEW t, Trailed(s), SameTrail(s, t)
  PROVE  Trailed(t)
BY DEF Trailed, SameTrail

(* Places with ids apart hold entries with ids apart.                       *)
LEMMA ApartOne ==
  ASSUME NEW q, IdsApart(q)
  PROVE  OneId(Range(q))
BY DEF IdsApart, OneId, Range

-----------------------------------------------------------------------------
(* What Change does, where the entry is, and where it is not.               *)
LEMMA Found ==
  ASSUME NEW s, Listed(s), NEW d \in Entries(s)
  PROVE  Index(s, d.id) # 0 /\ EntryOf(s, d.id) = d /\ Index(s, d.id) \in DOMAIN s.entries
<1>1. IsList(s.entries) /\ IdsApart(s.entries) BY DEF Listed
<1>2. Index(s, d.id) # 0 BY <1>1, IndexIs DEF Entries
<1>3. EntryOf(s, d.id).id = d.id /\ EntryOf(s, d.id) \in Range(s.entries)
      /\ Index(s, d.id) \in DOMAIN s.entries
  BY <1>1, <1>2, IndexIs
<1>4. OneId(Range(s.entries)) BY <1>1, ApartOne
<1> QED BY <1>2, <1>3, <1>4 DEF OneId, Entries

(* Change leaves a session alone that has no such entry.                    *)
LEMMA NotFound ==
  ASSUME NEW s, Listed(s), NEW id, \A e \in Entries(s) : e.id # id
  PROVE  Index(s, id) = 0 /\ \A e : Change(s, id, e) = s
<1>1. IsList(s.entries) BY DEF Listed
<1>2. Index(s, id) = 0 BY <1>1, IndexIs DEF Entries
<1> QED BY <1>2 DEF Change

(* The entry that is found is one of the session's, of that id.             *)
LEMMA IndexFinds ==
  ASSUME NEW s, Listed(s), NEW id, Index(s, id) # 0
  PROVE  EntryOf(s, id) \in Entries(s) /\ EntryOf(s, id).id = id
<1>1. IsList(s.entries) BY DEF Listed
<1> QED BY <1>1, IndexIs DEF Entries

(* An id that is not found is no entry's.                                   *)
LEMMA IndexMisses ==
  ASSUME NEW s, Listed(s), NEW id, Index(s, id) = 0
  PROVE  \A e \in Entries(s) : e.id # id
<1>1. IsList(s.entries) BY DEF Listed
<1> QED BY <1>1, IndexIs DEF Entries

(* Change puts the new entry where the old one was, and changes nothing     *)
(* else.                                                                    *)
LEMMA Changed ==
  ASSUME NEW s, Listed(s), NEW d \in Entries(s), NEW e, e.id = d.id
  PROVE  LET t == Change(s, d.id, e) IN
         /\ Listed(t) /\ SameRest(s, t)
         /\ Entries(t) = (Entries(s) \ {d}) \cup {e}
         /\ Index(t, d.id) # 0 /\ EntryOf(t, d.id) = e
<1> DEFINE k == Index(s, d.id)
           q == s.entries
           r == [q EXCEPT ![k] = e]
           t == Change(s, d.id, e)
<1>1. k # 0 /\ k \in DOMAIN q /\ q[k] = d BY Found DEF EntryOf
<1>2. IsList(q) /\ IdsApart(q) /\ DOMAIN s = Fields BY DEF Listed
<1>3. IsList(r) /\ IdsApart(r) /\ Range(r) = (Range(q) \ {d}) \cup {e}
  BY <1>1, <1>2, ChangeList
<1>4. t = [s EXCEPT !.entries = r] BY <1>1 DEF Change
<1> HIDE DEF t, r, k
<1>5. DOMAIN t = Fields /\ t.entries = r BY <1>2, <1>4 DEF Fields
<1>6. SameRest(s, t) BY <1>2, <1>4 DEF Fields, SameRest, SameMaps, SameTrail
<1>7. Listed(t) BY <1>3, <1>5 DEF Listed
<1>8. Entries(t) = (Entries(s) \ {d}) \cup {e} BY <1>3, <1>5 DEF Entries
<1>9. Index(t, e.id) # 0 /\ EntryOf(t, e.id) = e BY <1>7, <1>8, Found
<1> QED BY <1>6, <1>7, <1>8, <1>9 DEF t

-----------------------------------------------------------------------------
(* What is changed of an entry leaves it an entry.                          *)
LEMMA FinishedEntry ==
  ASSUME NEW n, NEW d, IsEntry(d, n)
  PROVE  LET e == [d EXCEPT !.done = TRUE] IN
         IsEntry(e, n) /\ e.done /\ e.id = d.id /\ e.block = d.block
BY DEF IsEntry

(* A new text.                                                              *)
LEMMA RewordedEntry ==
  ASSUME NEW n, NEW d, IsEntry(d, n), NEW text
  PROVE  LET e == [d EXCEPT !.block.text = text] IN
         /\ IsEntry(e, n) /\ e.done = d.done /\ e.id = d.id
         /\ e.block.kind = d.block.kind /\ e.block.run = d.block.run
         /\ e.block.closed = d.block.closed
BY DEF IsEntry

(* A closed group.                                                          *)
LEMMA ClosedEntry ==
  ASSUME NEW n, NEW d, IsEntry(d, n)
  PROVE  LET e == [d EXCEPT !.block.closed = TRUE] IN
         /\ IsEntry(e, n) /\ e.done = d.done /\ e.id = d.id
         /\ e.block.kind = d.block.kind /\ e.block.run = d.block.run
         /\ e.block.closed
BY DEF IsEntry

(* More ids given away.                                                     *)
LEMMA LaterEntry ==
  ASSUME NEW n \in Nat, NEW d, IsEntry(d, n)
  PROVE  IsEntry(d, n + 1)
BY DEF IsEntry

-----------------------------------------------------------------------------
(* finish and a new text, where the entry may be anything.                  *)
LEMMA FinishIs ==
  ASSUME NEW s, Listed(s), \A c \in Entries(s) : IsEntry(c, s.next_id), NEW id
  PROVE  LET t == finish(s, id) IN
         \/ t = s /\ \A e \in Entries(s) : e.id # id
         \/ \E d \in Entries(s) :
              /\ d.id = id
              /\ Listed(t) /\ SameRest(s, t)
              /\ Entries(t) = (Entries(s) \ {d}) \cup {[d EXCEPT !.done = TRUE]}
<1> DEFINE t == finish(s, id)
<1>1. CASE Index(s, id) = 0
  <2>1. t = s BY <1>1 DEF finish, Change
  <2> QED BY <2>1, <1>1, IndexMisses
<1>2. CASE Index(s, id) # 0
  <2> DEFINE d == EntryOf(s, id)
             e == [d EXCEPT !.done = TRUE]
  <2>1. d \in Entries(s) /\ d.id = id BY <1>2, IndexFinds
  <2>2. t = Change(s, d.id, e) BY <2>1 DEF finish
  <2>4. e.id = d.id BY <2>1 DEF IsEntry
  <2> HIDE DEF t, d, e
  <2>5. Listed(t) /\ SameRest(s, t) /\ Entries(t) = (Entries(s) \ {d}) \cup {e}
    BY <2>1, <2>2, <2>4, Changed
  <2> QED BY <2>1, <2>5 DEF t, e
<1> QED BY <1>1, <1>2

(* The streams, tools and reasonings of the session.                        *)
SameKeys(s, t) ==
  t.streams = s.streams /\ t.tools = s.tools /\ t.reasoning = s.reasoning

(* What a sound session says of its entries.                                *)
LEMMA SoundParts ==
  ASSUME NEW s, Sound(s)
  PROVE  /\ Listed(s) /\ OneId(Entries(s)) /\ DOMAIN s = Fields /\ s.next_id \in Nat
         /\ \A e \in Entries(s) : IsEntry(e, s.next_id) /\ Tidy(e)
<1>1. Listed(s) /\ s.next_id \in Nat BY DEF Sound, Numbered
<1>2. OneId(Entries(s)) BY <1>1, ApartOne DEF Listed, Entries
<1> QED BY <1>1, <1>2 DEF Sound, Listed

(* became_busy: only the trail starts over.                                 *)
LEMMA BusySound ==
  ASSUME NEW s, Sound(s), Trailed(s)
  PROVE  LET t == became_busy(s) IN
         /\ Sound(t) /\ Trailed(t) /\ t.next_id = s.next_id /\ SameMaps(s, t)
         /\ t.entries = s.entries
<1> DEFINE t == became_busy(s)
<1>1. CASE s.busy_since BY <1>1 DEF became_busy, SameMaps
<1>2. CASE ~s.busy_since
  <2>1. t = [s EXCEPT !.busy_since = TRUE, !.beads = <<>>, !.by_tool = <<>>]
    BY <1>2 DEF became_busy
  <2>2. DOMAIN s = Fields BY SoundParts
  <2>3. DOMAIN t = DOMAIN s /\ t.entries = s.entries /\ t.next_id = s.next_id /\ SameMaps(s, t)
    BY <2>1, <2>2 DEF Fields, SameMaps
  <2>4. t.beads = <<>> /\ t.by_tool = <<>> BY <2>1, <2>2 DEF Fields
  <2> HIDE DEF t
  <2>5. Sound(t) BY <2>3, SameSound
  <2>6. Trailed(t)
    <3>1. IsList(<<>>) /\ Len(<<>>) = 0 /\ DOMAIN <<>> = {} BY DEF IsList, Range
    <3> QED BY <2>4, <3>1, TurnAssumption DEF Trailed
  <2> QED BY <2>3, <2>5, <2>6 DEF t
<1> QED BY <1>1, <1>2

(* close_group: no group is open, and nothing else is lost.                 *)
LEMMA CloseGroupSound ==
  ASSUME NEW s, Sound(s)
  PROVE  LET t == close_group(s) IN
         /\ Sound(t) /\ t.open_group = NoGroup /\ t.next_id = s.next_id
         /\ SameKeys(s, t) /\ t.plan_rows = s.plan_rows /\ SameTrail(s, t)
<1> DEFINE t == close_group(s)
           g == s.open_group
<1>1. CASE g = NoGroup BY <1>1 DEF close_group, SameKeys, SameTrail
<1>2. CASE g # NoGroup
  <2> DEFINE s1 == [s EXCEPT !.open_group = NoGroup]
             E  == Entries(s)
             n  == s.next_id
  <2>1. Listed(s) /\ OneId(E) /\ DOMAIN s = Fields /\ n \in Nat
        /\ \A e \in E : IsEntry(e, n) /\ Tidy(e)
    BY SoundParts
  <2>2. PICK d \in E : d.id = g /\ d.block.kind = "group" /\ ~d.block.closed /\ ~d.done
    BY <1>2 DEF Sound, Owned, Owners, GroupOpen
  <2> DEFINE e1 == [d EXCEPT !.block.closed = TRUE]
             s2 == Change(s1, g, e1)
             e2 == [e1 EXCEPT !.done = TRUE]
  <2>3. /\ IsEntry(e1, n) /\ e1.done = d.done /\ e1.id = d.id /\ e1.block.kind = d.block.kind
        /\ e1.block.run = d.block.run /\ e1.block.closed
    BY <2>1, <2>2, ClosedEntry
  <2>4. IsEntry(e2, n) /\ e2.done /\ e2.id = d.id /\ e2.block = e1.block
    <3> HIDE DEF e1
    <3> QED BY <2>3, FinishedEntry
  <2>5. EntryOf(s, g) = d BY <2>1, <2>2, Found
  <2>6. t = finish_group_if_done(s2, g)
    BY <1>2, <2>5 DEF close_group
  <2>7. /\ DOMAIN s1 = Fields /\ s1.entries = s.entries /\ s1.next_id = s.next_id
        /\ s1.open_group = NoGroup /\ SameKeys(s, s1) /\ s1.plan_rows = s.plan_rows
        /\ SameTrail(s, s1)
    BY <2>1 DEF Fields, SameKeys, SameTrail
  <2>8. Listed(s1) /\ Entries(s1) = E BY <2>1, <2>7 DEF Listed, Entries
  <2> HIDE DEF s1, e1, e2
  <2>9. /\ Listed(s2) /\ SameRest(s1, s2) /\ Entries(s2) = (E \ {d}) \cup {e1}
        /\ Index(s2, g) # 0 /\ EntryOf(s2, g) = e1
    BY <2>2, <2>3, <2>8, Changed
  <2> HIDE DEF s2
  <2>10. \E e : /\ e \in {e1, e2} /\ (e.done => Still(d)) /\ (Still(d) => e.done)
                /\ Listed(t) /\ SameRest(s1, t) /\ Entries(t) = (E \ {d}) \cup {e}
    <3>1. Still(e1) <=> Still(d) BY <2>3 DEF Still
    <3>2. CASE Still(e1)
      <4>1. t = finish(s2, g) BY <2>3, <2>6, <2>9, <3>2 DEF finish_group_if_done
      <4>2. t = Change(s2, g, e2) BY <4>1, <2>9 DEF finish, e2
      <4>3. e1 \in Entries(s2) /\ e1.id = g /\ e2.id = e1.id BY <2>2, <2>3, <2>4, <2>9
      <4>4. Listed(t) /\ SameRest(s2, t) /\ Entries(t) = (Entries(s2) \ {e1}) \cup {e2}
        BY <2>9, <4>2, <4>3, Changed
      <4>5. (((E \ {d}) \cup {e1}) \ {e1}) \cup {e2} = (E \ {d}) \cup {e2}
        <5>1. e1 \notin E \ {d} BY <2>1, <2>2, <2>3 DEF OneId
        <5> QED BY <5>1
      <4>6. SameRest(s1, t) BY <2>9, <4>4 DEF SameRest, SameMaps, SameTrail
      <4>7. e2.done => Still(d) BY <3>1, <3>2
      <4>8. Entries(t) = (E \ {d}) \cup {e2} BY <4>4, <4>5, <2>9
      <4> QED BY <4>4, <4>6, <4>7, <4>8, <2>4
    <3>3. CASE ~Still(e1)
      <4>1. t = s2 BY <2>6, <2>9, <3>3 DEF finish_group_if_done
      <4>2. ~e1.done BY <2>2, <2>3
      <4> QED BY <4>1, <4>2, <2>9, <3>1, <3>3
    <3> QED BY <3>2, <3>3
  <2>11. PICK e \in {e1, e2} : /\ (e.done => Still(d)) /\ (Still(d) => e.done)
                /\ Listed(t) /\ SameRest(s1, t) /\ Entries(t) = (E \ {d}) \cup {e}
    BY <2>10
  <2>12. /\ IsEntry(e, n) /\ e.id = d.id /\ e.block.kind = "group"
         /\ e.block.run = d.block.run /\ e.block.closed
    BY <2>2, <2>3, <2>4
  <2>13. Still(e) <=> Still(d) BY <2>12 DEF Still
  <2>14. Tidy(e) BY <2>11, <2>12, <2>13 DEF Tidy
  <2> HIDE DEF t
  <2>15. /\ t.next_id = n /\ SameKeys(s, t) /\ t.plan_rows = s.plan_rows /\ SameTrail(s, t)
         /\ t.open_group = NoGroup
    BY <2>7, <2>11 DEF SameRest, SameMaps, SameKeys, SameTrail
  <2>16. Owned(t)
    <3>1. Owners(E, s.streams, s.tools, s.reasoning, g, s.plan_rows) BY DEF Sound, Owned
    <3>2. Owners((E \ {d}) \cup {e}, s.streams, s.tools, s.reasoning, NoGroup, s.plan_rows)
      <4> HIDE DEF E
      <4> QED BY <2>1, <2>2, <2>11, <2>12, <3>1, GroupCloses
    <3> QED BY <2>11, <2>15, <3>2 DEF Owned, SameKeys
  <2>17. \A c \in Entries(t) : IsEntry(c, t.next_id) /\ Tidy(c)
    BY <2>1, <2>11, <2>12, <2>14, <2>15
  <2>18. Numbered(t) /\ Keyed(t) BY <2>15 DEF Sound, Numbered, Keyed, SameKeys
  <2> QED BY <2>11, <2>15, <2>16, <2>17, <2>18 DEF Sound, t
<1> QED BY <1>1, <1>2

(* A new entry, of an id no other has.                                      *)
IsNew(e, s) ==
  /\ DOMAIN e = {"id", "of", "done", "block"}
  /\ e.id = s.next_id /\ e.of = s.next_id /\ e.done \in BOOLEAN
  /\ DOMAIN e.block = {"kind", "text", "run", "closed", "label"}
  /\ e.block.kind \in BlockKinds /\ e.block.run \in Seq(Statuses)
  /\ e.block.closed \in BOOLEAN

(* The id of a new entry is on no list and in no map.                       *)
LEMMA NewIsEntry ==
  ASSUME NEW s, Sound(s), NEW e, IsNew(e, s)
  PROVE  /\ IsEntry(e, s.next_id + 1) /\ e.id = s.next_id
         /\ \A d \in Entries(s) : d.id # e.id /\ d.id # NoGroup
         /\ e.id \notin s.plan_rows
         /\ \A sid \in DOMAIN s.reasoning : s.reasoning[sid] # e.id
<1> DEFINE n == s.next_id
<1>1. n \in Nat \ {0} BY DEF Sound, Numbered
<1>3. \A d \in Entries(s) : d.id \in 1..(n - 1) BY SoundParts DEF IsEntry
<1>4. n \notin 1..(n - 1) /\ n \in 1..(n + 1 - 1) /\ 0 \notin 1..(n - 1) BY <1>1
<1>5. \A d \in Entries(s) : d.id # n /\ d.id # NoGroup BY <1>3, <1>4 DEF NoGroup
<1>6. n \notin s.plan_rows /\ \A sid \in DOMAIN s.reasoning : s.reasoning[sid] # n
  BY <1>4 DEF Sound, Numbered
<1>7. IsEntry(e, n + 1) BY <1>4 DEF IsEntry, IsNew
<1>8. e.id = n BY DEF IsNew
<1> QED BY <1>5, <1>6, <1>7, <1>8

(* push_quiet: one more entry, with the next id.                            *)
LEMMA PushQuietIs ==
  ASSUME NEW s, Sound(s), NEW block, NEW done
  PROVE  LET t == push_quiet(s, block, done) IN
         /\ Listed(t) /\ Entries(t) = Entries(s) \cup {NewEntry(s, block, done)}
         /\ t.next_id = s.next_id + 1 /\ SameMaps(s, t) /\ SameTrail(s, t)
         /\ DOMAIN t = Fields
<1> DEFINE t == push_quiet(s, block, done)
           e == NewEntry(s, block, done)
           q == s.entries
<1>1. DOMAIN s = Fields /\ IsList(q) /\ IdsApart(q) BY SoundParts DEF Listed
<1>2. DOMAIN t = Fields /\ t.entries = Append(q, e) /\ t.next_id = s.next_id + 1
      /\ SameMaps(s, t) /\ SameTrail(s, t)
  BY <1>1 DEF push_quiet, Fields, SameMaps, SameTrail
<1>3. \A d \in Range(q) : d.id # e.id
  <2>1. s.next_id \in Nat /\ \A d \in Entries(s) : d.id \in 1..(s.next_id - 1) 
    BY SoundParts DEF IsEntry
  <2>2. e.id = s.next_id BY DEF NewEntry
  <2> QED BY <2>1, <2>2 DEF Entries
<1> HIDE DEF t, e
<1>4. IsList(Append(q, e)) /\ Range(Append(q, e)) = Range(q) \cup {e} BY <1>1, AppendList
<1>5. IdsApart(Append(q, e)) BY <1>1, <1>3, AppendApart
<1> QED BY <1>2, <1>4, <1>5 DEF Listed, Entries, t, e

(* What a session with one more entry needs to be sound.                    *)
LEMMA GrownSound ==
  ASSUME NEW s, Sound(s), NEW t, Listed(t), NEW e, Entries(t) = Entries(s) \cup {e},
         t.next_id = s.next_id + 1, IsEntry(e, t.next_id), Tidy(e),
         t.plan_rows \subseteq s.plan_rows \cup {e.id}, Keyed(t), Owned(t),
         \A sid \in DOMAIN t.reasoning : \/ t.reasoning[sid] = e.id
                                         \/ \E x \in DOMAIN s.reasoning : s.reasoning[x] = t.reasoning[sid]
  PROVE  Sound(t)
<1>1. s.next_id \in Nat \ {0} BY DEF Sound, Numbered
<1>2. \A d \in Entries(s) : IsEntry(d, t.next_id) /\ Tidy(d)
  <2>1. \A d \in Entries(s) : IsEntry(d, s.next_id) /\ Tidy(d) BY SoundParts
  <2> QED BY <2>1, <1>1, LaterEntry
<1>3. e.id \in 1..(t.next_id - 1) BY DEF IsEntry
<1>4. t.plan_rows \subseteq 1..(t.next_id - 1) BY <1>1, <1>3 DEF Sound, Numbered
<1>5. \A sid \in DOMAIN t.reasoning : t.reasoning[sid] \in 1..(t.next_id - 1)
  <2> TAKE sid \in DOMAIN t.reasoning
  <2>1. CASE t.reasoning[sid] = e.id BY <1>3, <2>1
  <2>2. CASE \E x \in DOMAIN s.reasoning : s.reasoning[x] = t.reasoning[sid]
    <3>1. t.reasoning[sid] \in 1..(s.next_id - 1) BY <2>2 DEF Sound, Numbered
    <3> QED BY <3>1, <1>1
  <2> QED BY <2>1, <2>2
<1>6. Numbered(t) BY <1>1, <1>4, <1>5 DEF Numbered
<1> QED BY <1>2, <1>6 DEF Sound

(* The fields of a new block.                                               *)
LEMMA BlockIs ==
  ASSUME NEW kind \in BlockKinds
  PROVE  LET b == Block(kind) IN
         /\ DOMAIN b = {"kind", "text", "run", "closed", "label"}
         /\ b.kind = kind /\ b.run = <<>> /\ b.closed = FALSE
         /\ b.kind \in BlockKinds /\ b.run \in Seq(Statuses) /\ b.closed \in BOOLEAN
<1>1. <<>> \in Seq(Statuses) OBVIOUS
<1> QED BY <1>1 DEF Block

(* An entry of the next id with a new block is a new entry.                 *)
LEMMA BlankIsNew ==
  ASSUME NEW s, NEW kind \in BlockKinds, NEW e,
         DOMAIN e = {"id", "of", "done", "block"}, e.id = s.next_id, e.of = s.next_id,
         e.done \in BOOLEAN, e.block = Block(kind)
  PROVE  IsNew(e, s) /\ e.block.kind = kind /\ e.block.run = <<>>
<1>1. /\ DOMAIN Block(kind) = {"kind", "text", "run", "closed", "label"}
      /\ Block(kind).kind = kind /\ Block(kind).run = <<>>
      /\ Block(kind).kind \in BlockKinds /\ Block(kind).run \in Seq(Statuses)
      /\ Block(kind).closed \in BOOLEAN
  BY BlockIs
<1> QED BY <1>1 DEF IsNew

(* Of the blocks without tools, notices, plans and tables have to be done.  *)
LEMMA PlainTidy ==
  ASSUME NEW e, e.block.run = <<>>, e.block.kind \notin {"tool", "group"},
         e.block.kind \in {"notice", "plan", "table"} => e.done
  PROVE  Tidy(e)
<1>1. Still(e) BY DEF Still, Range
<1> QED BY <1>1 DEF Tidy

(* An entry that is done, of a block without tools, is put last.            *)
LEMMA DonePushedSound ==
  ASSUME NEW c, Sound(c), NEW kind \in BlockKinds \ {"tool", "group"}
  PROVE  LET t == push_quiet(c, Block(kind), TRUE) IN
         Sound(t) /\ SameMaps(c, t) /\ SameTrail(c, t)
<1> DEFINE t == push_quiet(c, Block(kind), TRUE)
           e == NewEntry(c, Block(kind), TRUE)
<1>1. /\ Listed(t) /\ Entries(t) = Entries(c) \cup {e} /\ t.next_id = c.next_id + 1
      /\ SameMaps(c, t) /\ SameTrail(c, t)
  BY PushQuietIs
<1>2. /\ DOMAIN e = {"id", "of", "done", "block"} /\ e.id = c.next_id /\ e.of = c.next_id
      /\ e.done = TRUE /\ e.block = Block(kind)
  BY DEF NewEntry
<1> HIDE DEF e
<1>3. IsNew(e, c) /\ e.block.kind = kind /\ e.block.run = <<>> BY <1>2, BlankIsNew
<1>4. /\ IsEntry(e, c.next_id + 1) /\ e.id = c.next_id /\ e.done = TRUE
      /\ e.block.kind = kind /\ e.block.run = <<>>
      /\ e.id \notin c.plan_rows /\ \A sid \in DOMAIN c.reasoning : c.reasoning[sid] # e.id
  BY <1>2, <1>3, NewIsEntry
<1> HIDE DEF t
<1>5. Tidy(e) BY <1>4, PlainTidy
<1>6. Owned(t)
  <2>1. Owners(Entries(c), c.streams, c.tools, c.reasoning, c.open_group, c.plan_rows)
    BY DEF Sound, Owned
  <2>2. Owners(Entries(c) \cup {e}, c.streams, c.tools, c.reasoning, c.open_group, c.plan_rows)
    BY <2>1, <1>4, DoneIsAdded
  <2> QED BY <2>2, <1>1 DEF Owned, SameMaps
<1>7. Keyed(t) BY <1>1 DEF Sound, Keyed, SameMaps
<1>8. t.plan_rows = c.plan_rows /\ t.reasoning = c.reasoning BY <1>1 DEF SameMaps
<1>9. Sound(t) BY <1>1, <1>4, <1>5, <1>6, <1>7, <1>8, GrownSound
<1> QED BY <1>1, <1>9 DEF t

(* push of a block that is done: a notice or the plan closes the open       *)
(* group, a table leaves it open.                                           *)
LEMMA PushDoneSound ==
  ASSUME NEW s, Sound(s), NEW kind \in {"notice", "plan", "table"}
  PROVE  LET t == push(s, Block(kind), TRUE) IN
         /\ Sound(t) /\ SameKeys(s, t) /\ SameTrail(s, t) /\ t.plan_rows = s.plan_rows
<1> DEFINE t == push(s, Block(kind), TRUE)
           c == IF kind = "table" THEN s ELSE close_group(s)
<1>1. Sound(c) /\ SameKeys(s, c) /\ SameTrail(s, c) /\ c.plan_rows = s.plan_rows
  BY CloseGroupSound DEF SameKeys, SameTrail
<1>2. t = push_quiet(c, Block(kind), TRUE) BY DEF push, Block
<1> HIDE DEF c
<1>3. Sound(t) /\ SameMaps(c, t) /\ SameTrail(c, t)
  BY <1>1, <1>2, DonePushedSound DEF BlockKinds
<1> QED BY <1>1, <1>3 DEF SameKeys, SameMaps, SameTrail, t

(* OpenReply: a reply for a stream that has none.                           *)
LEMMA OpenReplySound ==
  ASSUME NEW s, Sound(s), NEW sid \in StreamIds, sid \notin DOMAIN s.streams
  PROVE  LET t == OpenReply(s, sid) IN
         /\ Sound(t) /\ DOMAIN t.streams = DOMAIN s.streams \cup {sid} /\ t.tools = s.tools
         /\ SameTrail(s, t)
<1> DEFINE t == OpenReply(s, sid)
           p == push(s, Block("reply"), FALSE)
           e == NewEntry(s, Block("reply"), FALSE)
           x == With(s.streams, sid, s.next_id)
<1>0. "reply" \in BlockKinds BY DEF BlockKinds
<1>2. p = push_quiet(s, Block("reply"), FALSE) BY DEF push, Block
<1>3. /\ Listed(p) /\ Entries(p) = Entries(s) \cup {e} /\ p.next_id = s.next_id + 1
      /\ SameMaps(s, p) /\ SameTrail(s, p) /\ DOMAIN p = Fields
  BY <1>2, PushQuietIs
<1>5. /\ DOMAIN e = {"id", "of", "done", "block"} /\ e.id = s.next_id /\ e.of = s.next_id
      /\ ~e.done /\ e.done \in BOOLEAN /\ e.block = Block("reply")
  BY DEF NewEntry
<1> HIDE DEF e
<1>51. IsNew(e, s) /\ e.block.kind = "reply" /\ e.block.run = <<>> BY <1>0, <1>5, BlankIsNew
<1>4. /\ IsEntry(e, s.next_id + 1) /\ e.id = s.next_id /\ ~e.done
      /\ e.block.kind = "reply" /\ e.block.run = <<>>
      /\ e.id \notin s.plan_rows /\ \A y \in DOMAIN s.reasoning : s.reasoning[y] # e.id
      /\ \A d \in Entries(s) : d.id # e.id
  BY <1>5, <1>51, NewIsEntry
<1> HIDE DEF e, p
<1>6. Tidy(e) BY <1>4, PlainTidy
<1>7. /\ DOMAIN t = Fields /\ t.entries = p.entries /\ t.next_id = p.next_id
      /\ t.streams = x /\ t.tools = s.tools /\ t.reasoning = s.reasoning
      /\ t.open_group = s.open_group /\ t.plan_rows = s.plan_rows /\ SameTrail(s, t)
  <2>1. t = [p EXCEPT !.streams = With(p.streams, sid, s.next_id),
                      !.said = With(p.said, s.next_id, <<>>)]
    BY DEF OpenReply, p
  <2>2. p.streams = s.streams BY <1>3 DEF SameMaps
  <2> HIDE DEF t
  <2> QED BY <2>1, <2>2, <1>3 DEF Fields, SameMaps, SameTrail
<1> HIDE DEF t
<1>8. Listed(t) /\ Entries(t) = Entries(s) \cup {e} BY <1>3, <1>7 DEF Listed, Entries
<1>9. DOMAIN x = DOMAIN s.streams \cup {sid} BY DEF With
<1>10. Owned(t)
  <2>1. Owners(Entries(s), s.streams, s.tools, s.reasoning, s.open_group, s.plan_rows)
    BY DEF Sound, Owned
  <2>2. Owners(Entries(s) \cup {e}, With(s.streams, sid, e.id), s.tools, s.reasoning,
               s.open_group, s.plan_rows)
    BY <2>1, <1>4, ReplyIsAdded
  <2> QED BY <2>2, <1>4, <1>7, <1>8 DEF Owned
<1>11. Sound(t)
  <2>1. Keyed(t) BY <1>7, <1>9 DEF Sound, Keyed
  <2>2. t.next_id = s.next_id + 1 BY <1>3, <1>7
  <2> QED BY <2>1, <2>2, <1>4, <1>6, <1>7, <1>8, <1>10, GrownSound
<1> QED BY <1>7, <1>9, <1>11 DEF t

(* What a session with no new ids needs to be sound.                        *)
LEMMA FewerSound ==
  ASSUME NEW s, Sound(s), NEW t, Listed(t), Owned(t), Keyed(t),
         \A e \in Entries(t) : e \in Entries(s) \/ (IsEntry(e, s.next_id) /\ Tidy(e)),
         t.next_id = s.next_id, t.plan_rows \subseteq s.plan_rows,
         \A x \in DOMAIN t.reasoning :
           x \in DOMAIN s.reasoning /\ t.reasoning[x] = s.reasoning[x]
  PROVE  Sound(t)
<1>1. Numbered(t) BY DEF Sound, Numbered
<1>2. \A e \in Entries(t) : IsEntry(e, t.next_id) /\ Tidy(e) BY SoundParts
<1> QED BY <1>1, <1>2 DEF Sound

(* The text of an entry, if it is there, becomes another.                   *)
LEMMA RewordSound ==
  ASSUME NEW s, Sound(s), NEW id, NEW text
  PROVE  LET t == Change(s, id, [EntryOf(s, id) EXCEPT !.block.text = text]) IN
         Sound(t) /\ SameRest(s, t)
<1> DEFINE t == Change(s, id, [EntryOf(s, id) EXCEPT !.block.text = text])
           E == Entries(s)
<1>0. Listed(s) /\ OneId(E) /\ \A e \in E : IsEntry(e, s.next_id) /\ Tidy(e) BY SoundParts
<1>1. CASE Index(s, id) = 0
  <2>1. t = s BY <1>1 DEF Change
  <2> QED BY <2>1 DEF SameRest, SameMaps, SameTrail
<1>2. CASE Index(s, id) # 0
  <2> DEFINE d == EntryOf(s, id)
             e == [d EXCEPT !.block.text = text]
  <2>1. d \in E /\ d.id = id BY <1>0, <1>2, IndexFinds
  <2>2. IsEntry(d, s.next_id) /\ Tidy(d) BY <1>0, <2>1
  <2>3. t = Change(s, d.id, e) BY <2>1
  <2> HIDE DEF d, E, t
  <2>4. /\ IsEntry(e, s.next_id) /\ e.done = d.done /\ e.id = d.id
        /\ e.block.kind = d.block.kind /\ e.block.run = d.block.run
        /\ e.block.closed = d.block.closed
    BY <2>2, RewordedEntry
  <2> HIDE DEF e
  <2>5. Tidy(e)
    <3>1. Still(e) <=> Still(d) BY <2>4 DEF Still
    <3> QED BY <2>2, <2>4, <3>1 DEF Tidy
  <2>6. Listed(t) /\ SameRest(s, t) /\ Entries(t) = (E \ {d}) \cup {e}
    BY <1>0, <2>1, <2>3, <2>4, Changed DEF E
  <2>7. Owned(t)
    <3>1. Owners(E, s.streams, s.tools, s.reasoning, s.open_group, s.plan_rows)
      BY DEF Sound, Owned, E
    <3>2. Owners((E \ {d}) \cup {e}, s.streams, s.tools, s.reasoning, s.open_group, s.plan_rows)
      BY <1>0, <2>1, <2>4, <3>1, SwapText
    <3> QED BY <2>6, <3>2 DEF Owned, SameRest, SameMaps
  <2>8. Keyed(t) /\ t.next_id = s.next_id /\ t.plan_rows = s.plan_rows
        /\ t.reasoning = s.reasoning
    BY <2>6 DEF Sound, Keyed, SameRest, SameMaps
  <2>9. \A c \in Entries(t) : c \in E \/ (IsEntry(c, s.next_id) /\ Tidy(c)) BY <2>4, <2>5, <2>6
  <2>10. Sound(t) BY <2>6, <2>7, <2>8, <2>9, FewerSound DEF E
  <2> QED BY <2>6, <2>10 DEF t, e, d
<1> QED BY <1>1, <1>2

(* An entry that is done stays tidy if nothing in it runs.                  *)
LEMMA DoneTidy ==
  ASSUME NEW n, NEW d, IsEntry(d, n), Tidy(d), Still(d)
  PROVE  LET e == [d EXCEPT !.done = TRUE] IN
         IsEntry(e, n) /\ Tidy(e) /\ e.done /\ e.id = d.id /\ e.block = d.block
<1> DEFINE e == [d EXCEPT !.done = TRUE]
<1>1. IsEntry(e, n) /\ e.done /\ e.id = d.id /\ e.block = d.block BY FinishedEntry
<1> HIDE DEF e
<1>2. Still(e) BY <1>1 DEF Still
<1>3. Tidy(e) BY <1>1, <1>2 DEF Tidy
<1> QED BY <1>1, <1>3 DEF e

(* finish_reasoning: the reasoning of a stream ends.                        *)
LEMMA ThoughtSound ==
  ASSUME NEW s, Sound(s), NEW sid
  PROVE  LET t == finish_reasoning(s, sid) IN
         /\ Sound(t) /\ SameTrail(s, t)
         /\ t.streams = s.streams /\ t.tools = s.tools
<1> DEFINE t == finish_reasoning(s, sid)
           E == Entries(s)
<1>1. CASE sid \notin DOMAIN s.reasoning BY <1>1 DEF finish_reasoning, SameTrail
<1>2. CASE sid \in DOMAIN s.reasoning
  <2> DEFINE less == Without(s.reasoning, {sid})
             s1 == [s EXCEPT !.reasoning = less]
             id == s.reasoning[sid]
  <2>1. /\ Listed(s) /\ OneId(E) /\ DOMAIN s = Fields
        /\ \A e \in E : IsEntry(e, s.next_id) /\ Tidy(e)
    BY SoundParts
  <2>2. t = finish(s1, id) BY <1>2 DEF finish_reasoning
  <2>3. /\ DOMAIN s1 = Fields /\ s1.entries = s.entries /\ s1.next_id = s.next_id
        /\ s1.streams = s.streams /\ s1.tools = s.tools /\ s1.reasoning = less
        /\ s1.open_group = s.open_group /\ s1.plan_rows = s.plan_rows /\ SameTrail(s, s1)
    BY <2>1 DEF Fields, SameTrail
  <2>4. Listed(s1) /\ Entries(s1) = E BY <2>1, <2>3 DEF Listed, Entries
  <2> HIDE DEF s1, t
  <2>5. \/ t = s1 /\ \A e \in E : e.id # id
        \/ \E d \in E : /\ d.id = id /\ Listed(t) /\ SameRest(s1, t)
                        /\ Entries(t) = (E \ {d}) \cup {[d EXCEPT !.done = TRUE]}
    BY <2>1, <2>2, <2>3, <2>4, FinishIs
  <2>6. /\ Listed(t) /\ SameRest(s1, t)
        /\ \A c \in Entries(t) : c \in E \/ (IsEntry(c, s.next_id) /\ Tidy(c))
        /\ \/ Entries(t) = E /\ \A c \in E : c.id # id
           \/ \E d \in E : \E e : /\ Entries(t) = (E \ {d}) \cup {e}
                              /\ d.id = id /\ e.id = d.id /\ e.done /\ e.block = d.block
    <3>1. CASE t = s1 /\ \A e \in E : e.id # id
      BY <2>4, <3>1 DEF SameRest, SameMaps, SameTrail
    <3>2. CASE \E d \in E : /\ d.id = id /\ Listed(t) /\ SameRest(s1, t)
                            /\ Entries(t) = (E \ {d}) \cup {[d EXCEPT !.done = TRUE]}
      <4>1. PICK d \in E : /\ d.id = id /\ Listed(t) /\ SameRest(s1, t)
                           /\ Entries(t) = (E \ {d}) \cup {[d EXCEPT !.done = TRUE]}
        BY <3>2
      <4>2. d.block.kind = "reasoning"
        BY <1>2, <4>1 DEF Sound, Owned, Owners, ThoughtsKnown
      <4>3. d.block.run = <<>> BY <2>1, <4>2 DEF Tidy
      <4>4. Still(d) BY <4>3 DEF Still, Range
      <4> DEFINE e == [d EXCEPT !.done = TRUE]
      <4>5. IsEntry(e, s.next_id) /\ Tidy(e) /\ e.done /\ e.id = d.id /\ e.block = d.block
        BY <2>1, <4>4, DoneTidy
      <4>6. Entries(t) = (E \ {d}) \cup {e} BY <4>1
      <4> HIDE DEF e
      <4> QED BY <4>1, <4>5, <4>6
    <3> QED BY <2>5, <3>1, <3>2
  <2>7. Owners(E, s.streams, s.tools, s.reasoning, s.open_group, s.plan_rows)
    BY DEF Sound, Owned
  <2>8. \A c \in E : c.block.kind = "reasoning" => c.block.run = <<>> BY <2>1 DEF Tidy
  <2> HIDE DEF E
  <2>9. Owners(Entries(t), s.streams, s.tools, less, s.open_group, s.plan_rows)
    BY <1>2, <2>1, <2>6, <2>7, <2>8, ThoughtEnds
  <2>10. /\ t.next_id = s.next_id /\ t.streams = s.streams /\ t.tools = s.tools
         /\ t.reasoning = less /\ t.open_group = s.open_group /\ t.plan_rows = s.plan_rows
         /\ SameTrail(s, t)
    BY <2>3, <2>6 DEF SameRest, SameMaps, SameTrail
  <2>11. DOMAIN less \subseteq DOMAIN s.reasoning /\ \A x \in DOMAIN less : less[x] = s.reasoning[x]
    BY DEF Without, Restrict
  <2> HIDE DEF less
  <2>12. Owned(t) BY <2>9, <2>10 DEF Owned
  <2>13. Keyed(t) BY <2>10, <2>11 DEF Sound, Keyed
  <2>14. Sound(t) BY <2>6, <2>10, <2>11, <2>12, <2>13, FewerSound DEF E
  <2> QED BY <2>10, <2>14 DEF t
<1> QED BY <1>1, <1>2

(* A stream is let go and its reply is done.                                *)
LEMMA ReplySound ==
  ASSUME NEW s, Sound(s), NEW sid \in DOMAIN s.streams, NEW prefix
  PROVE  LET t == finish([s EXCEPT !.streams = Without(s.streams, {sid}),
                                   !.printed_prefix = prefix], s.streams[sid])
         IN /\ Sound(t) /\ SameTrail(s, t)
            /\ DOMAIN t.streams = DOMAIN s.streams \ {sid} /\ t.tools = s.tools
<1> DEFINE less == Without(s.streams, {sid})
           s1 == [s EXCEPT !.streams = less, !.printed_prefix = prefix]
           id == s.streams[sid]
           t == finish(s1, id)
           E == Entries(s)
<1>1. /\ Listed(s) /\ OneId(E) /\ DOMAIN s = Fields
      /\ \A e \in E : IsEntry(e, s.next_id) /\ Tidy(e)
  BY SoundParts
<1>2. /\ DOMAIN s1 = Fields /\ s1.entries = s.entries /\ s1.next_id = s.next_id
      /\ s1.streams = less /\ s1.tools = s.tools /\ s1.reasoning = s.reasoning
      /\ s1.open_group = s.open_group /\ s1.plan_rows = s.plan_rows /\ SameTrail(s, s1)
  <2> HIDE DEF less
  <2> QED BY <1>1 DEF Fields, SameTrail
<1>3. Listed(s1) /\ Entries(s1) = E BY <1>1, <1>2 DEF Listed, Entries
<1>4. PICK c \in E : c.id = id /\ ~c.done /\ c.block.kind = "reply"
  BY DEF Sound, Owned, Owners, StreamsOpen
<1> HIDE DEF s1
<1>5. PICK d \in E : /\ d.id = id /\ Listed(t) /\ SameRest(s1, t)
                     /\ Entries(t) = (E \ {d}) \cup {[d EXCEPT !.done = TRUE]}
  BY <1>1, <1>2, <1>3, <1>4, FinishIs
<1> HIDE DEF t
<1>6. d = c BY <1>1, <1>4, <1>5 DEF OneId
<1>7. d.block.run = <<>> BY <1>1, <1>4, <1>6 DEF Tidy
<1>8. Still(d) BY <1>7 DEF Still, Range
<1> DEFINE e == [d EXCEPT !.done = TRUE]
<1>9. IsEntry(e, s.next_id) /\ Tidy(e) /\ e.done /\ e.id = d.id /\ e.block = d.block
  BY <1>1, <1>8, DoneTidy
<1>10. Entries(t) = (E \ {d}) \cup {e} BY <1>5
<1> HIDE DEF e
<1>11. Owners(E, s.streams, s.tools, s.reasoning, s.open_group, s.plan_rows)
  BY DEF Sound, Owned
<1> HIDE DEF E
<1>12. Owners((E \ {d}) \cup {e}, less, s.tools, s.reasoning, s.open_group, s.plan_rows)
  BY <1>1, <1>5, <1>7, <1>9, <1>11, ReplyEnds
<1>13. DOMAIN less = DOMAIN s.streams \ {sid} BY DEF Without, Restrict
<1> HIDE DEF less
<1>14. /\ t.next_id = s.next_id /\ t.streams = less /\ t.tools = s.tools
       /\ t.reasoning = s.reasoning /\ t.open_group = s.open_group /\ t.plan_rows = s.plan_rows
       /\ SameTrail(s, t)
  BY <1>2, <1>5 DEF SameRest, SameMaps, SameTrail
<1>15. Owned(t) BY <1>10, <1>12, <1>14 DEF Owned
<1>16. Keyed(t) BY <1>13, <1>14 DEF Sound, Keyed
<1>17. \A f \in Entries(t) : f \in Entries(s) \/ (IsEntry(f, s.next_id) /\ Tidy(f))
  BY <1>9, <1>10 DEF E
<1>18. Sound(t) BY <1>5, <1>14, <1>15, <1>16, <1>17, FewerSound
<1> QED BY <1>13, <1>14, <1>18 DEF t, s1, less

(* Finalize: the rest of the text replaces what is held.                    *)
LEMMA FinalizeSound ==
  ASSUME NEW s, Sound(s), NEW id, NEW text
  PROVE  LET t == Finalize(s, id, text) IN
         Sound(t) /\ SameTrail(s, t) /\ t.streams = s.streams /\ t.tools = s.tools
<1> DEFINE printed == Look(s.printed_prefix, id, <<>>)
           rest == Trimmed(SubSeq(text, Len(printed) + 1, Len(text)))
           u == Change(s, id, [EntryOf(s, id) EXCEPT !.block.text = rest])
           t == Finalize(s, id, text)
<1>1. CASE ~IsPrefix(printed, text) BY <1>1 DEF Finalize, SameTrail
<1>2. CASE IsPrefix(printed, text)
  <2> DEFINE v == [u.said EXCEPT ![id] = text]
  <2>1. t = [u EXCEPT !.said[id] = text] BY <1>2 DEF Finalize
  <2> HIDE DEF t, printed
  <2> HIDE DEF rest
  <2>2. Sound(u) /\ SameRest(s, u) BY RewordSound
  <2> HIDE DEF u
  <2>3. t = [u EXCEPT !.said = v] BY <2>1
  <2>5. DOMAIN u = Fields BY <2>2, SoundParts
  <2> HIDE DEF v
  <2>6. /\ DOMAIN t = DOMAIN u /\ t.entries = u.entries /\ t.next_id = u.next_id
        /\ SameMaps(u, t) /\ SameTrail(u, t) /\ t.streams = u.streams /\ t.tools = u.tools
    BY <2>3, <2>5 DEF Fields, SameMaps, SameTrail
  <2>4. Sound(t) BY <2>2, <2>6, SameSound
  <2> QED BY <2>2, <2>4, <2>6 DEF SameRest, SameMaps, SameTrail, t
<1> QED BY <1>1, <1>2

(* Complete: the stream is let go, whatever the text it ends with.          *)
LEMMA CompleteSound ==
  ASSUME NEW s, Sound(s), NEW sid, NEW texts
  PROVE  LET t == Complete(s, sid, texts) IN
         /\ Sound(t) /\ SameTrail(s, t)
         /\ DOMAIN t.streams = DOMAIN s.streams \ {sid} /\ t.tools = s.tools
<1> DEFINE t == Complete(s, sid, texts)
           r == finish_reasoning(s, sid)
           id == r.streams[sid]
           f == IF texts = {} THEN r ELSE Finalize(r, id, CHOOSE x \in texts : TRUE)
<1>1. Sound(r) /\ SameTrail(s, r) /\ r.streams = s.streams /\ r.tools = s.tools BY ThoughtSound
<1>2. t = IF sid \notin DOMAIN r.streams THEN r
          ELSE finish([f EXCEPT !.streams = Without(f.streams, {sid}),
                                !.printed_prefix = Without(f.printed_prefix, {id})], id)
  BY DEF Complete
<1> HIDE DEF r, t
<1>3. CASE sid \notin DOMAIN r.streams BY <1>1, <1>2, <1>3 DEF t
<1>4. CASE sid \in DOMAIN r.streams
  <2>1. Sound(f) /\ SameTrail(r, f) /\ f.streams = r.streams /\ f.tools = r.tools
    <3>1. CASE texts = {} BY <1>1, <3>1 DEF SameTrail
    <3>2. CASE texts # {} BY <1>1, <3>2, FinalizeSound
    <3> QED BY <3>1, <3>2
  <2> HIDE DEF f
  <2>2. id = f.streams[sid] /\ sid \in DOMAIN f.streams BY <1>4, <2>1
  <2> DEFINE prefix == Without(f.printed_prefix, {id})
             g == finish([f EXCEPT !.streams = Without(f.streams, {sid}),
                                   !.printed_prefix = prefix], f.streams[sid])
  <2>3. t = g BY <1>2, <1>4, <2>2
  <2> HIDE DEF prefix, id
  <2>4. Sound(g) /\ SameTrail(f, g)
        /\ DOMAIN g.streams = DOMAIN f.streams \ {sid} /\ g.tools = f.tools
    BY <2>1, <2>2, ReplySound
  <2> HIDE DEF g
  <2> QED BY <1>1, <2>1, <2>3, <2>4 DEF SameTrail, t
<1> QED BY <1>3, <1>4

(* The session a token of a stream leaves.                                  *)
Told(s, sid, token) ==
  LET busy  == IF Blank(token) THEN s ELSE close_group(became_busy(s))
      ready == finish_reasoning(busy, sid)
      open  == IF sid \in DOMAIN ready.streams THEN ready ELSE OpenReply(ready, sid)
      id    == open.streams[sid]
  IN [Change(open, id, [EntryOf(open, id) EXCEPT !.block.text = @ \o token])
        EXCEPT !.said[id] = @ \o token]

(* AssistantTokenDelta: the session stays sound, and the stream is there.   *)
LEMMA TokenSound ==
  ASSUME NEW s, Sound(s), Trailed(s), NEW sid \in StreamIds, NEW token
  PROVE  LET t == Told(s, sid, token)
         IN /\ Sound(t) /\ Trailed(t)
            /\ DOMAIN t.streams = DOMAIN s.streams \cup {sid} /\ t.tools = s.tools
<1> DEFINE busy  == IF Blank(token) THEN s ELSE close_group(became_busy(s))
           ready == finish_reasoning(busy, sid)
           open  == IF sid \in DOMAIN ready.streams THEN ready ELSE OpenReply(ready, sid)
           id    == open.streams[sid]
           text  == EntryOf(open, id).block.text \o token
           u == Change(open, id, [EntryOf(open, id) EXCEPT !.block.text = text])
           v == [u.said EXCEPT ![id] = u.said[id] \o token]
           t == [u EXCEPT !.said = v]
           w == Told(s, sid, token)
<1>1. Sound(busy) /\ Trailed(busy) /\ busy.streams = s.streams /\ busy.tools = s.tools
  <2>1. CASE Blank(token) BY <2>1
  <2>2. CASE ~Blank(token)
    <3> DEFINE b == became_busy(s)
    <3>1. Sound(b) /\ Trailed(b) /\ b.streams = s.streams /\ b.tools = s.tools
      BY BusySound DEF SameMaps
    <3> HIDE DEF b
    <3> DEFINE c == close_group(b)
    <3>2. Sound(c) /\ SameTrail(b, c) /\ c.streams = b.streams /\ c.tools = b.tools
      BY <3>1, CloseGroupSound DEF SameKeys
    <3> HIDE DEF c
    <3>3. Trailed(c) BY <3>1, <3>2, SameTrailed
    <3> QED BY <3>1, <3>2, <3>3, <2>2 DEF b, c
  <2> QED BY <2>1, <2>2
<1>9. w = t BY DEF Told
<1> HIDE DEF w
<1> HIDE DEF busy
<1>2. Sound(ready) /\ SameTrail(busy, ready) /\ ready.streams = busy.streams
      /\ ready.tools = busy.tools
  BY <1>1, ThoughtSound
<1> HIDE DEF ready
<1>3. Sound(open) /\ SameTrail(ready, open) /\ open.tools = ready.tools
      /\ DOMAIN open.streams = DOMAIN ready.streams \cup {sid}
  <2>1. CASE sid \in DOMAIN ready.streams BY <1>2, <2>1 DEF SameTrail
  <2>2. CASE sid \notin DOMAIN ready.streams BY <1>2, <2>2, OpenReplySound
  <2> QED BY <2>1, <2>2
<1> HIDE DEF open, id, text
<1>4. Sound(u) /\ SameRest(open, u) BY <1>3, RewordSound
<1> HIDE DEF u
<1>5. DOMAIN u = Fields BY <1>4, SoundParts
<1> HIDE DEF v
<1>6. /\ DOMAIN t = DOMAIN u /\ t.entries = u.entries /\ t.next_id = u.next_id
      /\ SameMaps(u, t) /\ SameTrail(u, t) /\ t.streams = u.streams /\ t.tools = u.tools
  BY <1>5 DEF Fields, SameMaps, SameTrail
<1> HIDE DEF t
<1>7. Sound(t) BY <1>4, <1>6, SameSound
<1>8. /\ Trailed(t) /\ t.tools = s.tools /\ DOMAIN t.streams = DOMAIN s.streams \cup {sid}
  <2>1. SameTrail(busy, t) BY <1>2, <1>3, <1>4, <1>6 DEF SameRest, SameTrail
  <2>2. Trailed(t) BY <1>1, <2>1, SameTrailed
  <2> QED BY <2>2, <1>1, <1>2, <1>3, <1>4, <1>6 DEF SameRest, SameMaps
<1>10. Sound(w) /\ Trailed(w) /\ DOMAIN w.streams = DOMAIN s.streams \cup {sid}
       /\ w.tools = s.tools
  BY <1>7, <1>8, <1>9
<1> QED BY <1>10 DEF w

(* Reasoning is put in, above its reply or at the end.                      *)
LEMMA ReasoningSound ==
  ASSUME NEW s, Sound(s), NEW sid \in StreamIds, sid \notin DOMAIN s.reasoning,
         NEW at \in 1..(Len(s.entries) + 1)
  PROVE  LET t == [s EXCEPT
                     !.entries = InsertAt(@, at, NewEntry(s, Block("reasoning"), FALSE)),
                     !.next_id = @ + 1,
                     !.reasoning = With(@, sid, s.next_id)]
         IN Sound(t) /\ SameTrail(s, t) /\ t.streams = s.streams /\ t.tools = s.tools
<1> DEFINE e == NewEntry(s, Block("reasoning"), FALSE)
           q == InsertAt(s.entries, at, e)
           x == With(s.reasoning, sid, s.next_id)
           n == s.next_id + 1
           t == [s EXCEPT !.entries = q, !.next_id = n, !.reasoning = x]
           E == Entries(s)
<1>0. "reasoning" \in BlockKinds BY DEF BlockKinds
<1>1. DOMAIN s = Fields /\ IsList(s.entries) /\ IdsApart(s.entries) BY SoundParts DEF Listed
<1>2. /\ DOMAIN e = {"id", "of", "done", "block"} /\ e.id = s.next_id /\ e.of = s.next_id
      /\ ~e.done /\ e.done \in BOOLEAN /\ e.block = Block("reasoning")
  BY DEF NewEntry
<1> HIDE DEF e
<1>3. IsNew(e, s) /\ e.block.kind = "reasoning" /\ e.block.run = <<>> BY <1>0, <1>2, BlankIsNew
<1>4. /\ IsEntry(e, n) /\ \A d \in E : d.id # e.id
      /\ e.id \notin s.plan_rows
  BY <1>3, NewIsEntry
<1>5. IsList(q) /\ IdsApart(q) /\ Range(q) = Range(s.entries) \cup {e}
  BY <1>1, <1>4, InsertList DEF Entries
<1> HIDE DEF q, x, n
<1>6. /\ DOMAIN t = Fields /\ t.entries = q /\ t.next_id = n /\ t.reasoning = x
      /\ t.streams = s.streams /\ t.tools = s.tools /\ t.open_group = s.open_group
      /\ t.plan_rows = s.plan_rows /\ SameTrail(s, t)
  BY <1>1 DEF Fields, SameTrail
<1> HIDE DEF t
<1>7. Listed(t) /\ Entries(t) = E \cup {e} BY <1>5, <1>6 DEF Listed, Entries
<1>8. Owned(t)
  <2>1. Owners(E, s.streams, s.tools, s.reasoning, s.open_group, s.plan_rows)
    BY DEF Sound, Owned
  <2> HIDE DEF E
  <2>2. Owners(E \cup {e}, s.streams, s.tools, With(s.reasoning, sid, e.id), s.open_group,
               s.plan_rows)
    BY <2>1, <1>2, <1>3, <1>4, ThoughtIsAdded
  <2> QED BY <2>2, <1>2, <1>6, <1>7 DEF Owned, x
<1>9. DOMAIN x = DOMAIN s.reasoning \cup {sid} /\ x[sid] = e.id
      /\ \A y \in DOMAIN s.reasoning : x[y] = IF y = sid THEN e.id ELSE s.reasoning[y]
  BY <1>2 DEF With, x
<1>10. Keyed(t) BY <1>6, <1>9 DEF Sound, Keyed
<1>11. Tidy(e) BY <1>3, PlainTidy
<1>12. \A y \in DOMAIN t.reasoning :
         \/ t.reasoning[y] = e.id
         \/ \E z \in DOMAIN s.reasoning : s.reasoning[z] = t.reasoning[y]
  BY <1>6, <1>9
<1>13. Sound(t) BY <1>4, <1>6, <1>7, <1>8, <1>10, <1>11, <1>12, GrownSound DEF n
<1>14. Sound(t) /\ SameTrail(s, t) /\ t.streams = s.streams /\ t.tools = s.tools
  BY <1>6, <1>13
<1> QED BY <1>14 DEF t, q, x, n, e

(* What the invariant says of all but the trail.                            *)
SameHeld(s, t) ==
  t.entries = s.entries /\ t.next_id = s.next_id /\ SameMaps(s, t)

(* The list without its first.                                              *)
LEMMA TailList ==
  ASSUME NEW q, IsList(q), Len(q) > 0
  PROVE  /\ IsList(Tail(q)) /\ Len(Tail(q)) = Len(q) - 1
         /\ \A i \in 1..(Len(q) - 1) : Tail(q)[i] = q[i + 1]
<1>1. q \in Seq(Range(q)) /\ q # <<>> BY DEF IsList
<1>2. Tail(q) \in Seq(Range(q)) BY <1>1
<1>3. IsList(Tail(q)) BY <1>2, SeqList
<1> QED BY <1>1, <1>3

(* push_bead: the oldest bead leaves a full trail, and by_tool follows.     *)
LEMMA BeadTrailed ==
  ASSUME NEW s, Sound(s), Trailed(s), NEW of
  PROVE  LET t == push_bead(s, of) IN
         /\ Sound(t) /\ Trailed(t) /\ SameHeld(s, t) /\ DOMAIN t = Fields
         /\ Len(t.beads) \in Nat \ {0} /\ t.beads[Len(t.beads)] = of
<1> DEFINE q == s.beads
           full == Len(q) = TrailCap
           kept == {k \in DOMAIN s.by_tool : s.by_tool[k] > 1}
           c == IF full THEN Tail(q) ELSE q
           r == Append(c, of)
           b == IF full THEN [k \in kept |-> s.by_tool[k] - 1] ELSE s.by_tool
           t == [s EXCEPT !.beads = r, !.by_tool = b]
<1>1. DOMAIN s = Fields BY SoundParts
<1>2. IsList(q) /\ Len(q) \in Nat /\ Len(q) <= TrailCap /\ TrailCap \in Nat \ {0}
  BY TurnAssumption, ListIs DEF Trailed
<1>3. push_bead(s, of) = t BY DEF push_bead
<1>4. IsList(c) /\ Len(c) \in Nat /\ Len(c) + 1 <= TrailCap
  <2>1. CASE full BY <1>2, <2>1, TailList
  <2>2. CASE ~full BY <1>2, <2>2
  <2> QED BY <2>1, <2>2
<1>5. /\ IsList(r) /\ Len(r) = Len(c) + 1 /\ r[Len(c) + 1] = of
      /\ \A i \in 1..Len(c) : r[i] = c[i]
  <2> HIDE DEF c
  <2> QED BY <1>4, AppendList
<1>6. \A k \in DOMAIN b : b[k] \in 1..Len(r) /\ r[b[k]] = k
  <2> SUFFICES ASSUME NEW k \in DOMAIN b PROVE b[k] \in 1..Len(r) /\ r[b[k]] = k
    OBVIOUS
  <2>0. k \in DOMAIN s.by_tool /\ s.by_tool[k] \in 1..Len(q) /\ q[s.by_tool[k]] = k
    BY DEF Trailed
  <2>1. CASE full
    <3>1. s.by_tool[k] > 1 /\ b[k] = s.by_tool[k] - 1 BY <2>1
    <3>2. Len(c) = Len(q) - 1 /\ \A i \in 1..(Len(q) - 1) : c[i] = q[i + 1]
      BY <1>2, <2>1, TailList
    <3> HIDE DEF b, c, r, full
    <3>3. b[k] \in 1..Len(c) /\ c[b[k]] = k BY <1>2, <2>0, <3>1, <3>2
    <3>4. r[b[k]] = k BY <1>5, <3>3
    <3>5. b[k] \in 1..Len(r) BY <1>4, <1>5, <3>3
    <3> QED BY <3>4, <3>5
  <2>2. CASE ~full
    <3>1. b[k] = s.by_tool[k] /\ c = q BY <2>2
    <3> HIDE DEF b, c, r, full
    <3> QED BY <1>4, <1>5, <2>0, <3>1
  <2> QED BY <2>1, <2>2
<1> HIDE DEF b, r, c
<1>7. /\ DOMAIN t = Fields /\ t.beads = r /\ t.by_tool = b /\ SameHeld(s, t)
  BY <1>1 DEF Fields, SameHeld, SameMaps
<1> HIDE DEF t
<1>8. Trailed(t) BY <1>4, <1>5, <1>6, <1>7 DEF Trailed
<1>9. Sound(t) BY <1>1, <1>7, SameSound DEF SameHeld
<1>10. Len(t.beads) \in Nat \ {0} /\ t.beads[Len(t.beads)] = of BY <1>4, <1>5, <1>7
<1> QED BY <1>3, <1>7, <1>8, <1>9, <1>10

(* A tool that starts has a bead of its own.                                *)
LEMMA ToolTrailed ==
  ASSUME NEW s, Sound(s), Trailed(s), NEW tid
  PROVE  LET t == TrailToolStarted(s, tid) IN Sound(t) /\ Trailed(t) /\ SameHeld(s, t)
<1> DEFINE p == push_bead(s, tid)
           b == With(p.by_tool, tid, Len(p.beads))
           t == [p EXCEPT !.by_tool = b]
<1>1. /\ Sound(p) /\ Trailed(p) /\ SameHeld(s, p) /\ DOMAIN p = Fields
      /\ Len(p.beads) \in Nat \ {0} /\ p.beads[Len(p.beads)] = tid
  BY BeadTrailed
<1>2. TrailToolStarted(s, tid) = t BY DEF TrailToolStarted
<1> HIDE DEF p
<1>3. \A k \in DOMAIN b : b[k] \in 1..Len(p.beads) /\ p.beads[b[k]] = k
  <2>1. Len(p.beads) \in 1..Len(p.beads) BY <1>1
  <2> QED BY <1>1, <2>1 DEF With, Trailed
<1> HIDE DEF b
<1>4. DOMAIN t = Fields /\ t.beads = p.beads /\ t.by_tool = b /\ SameHeld(p, t)
  BY <1>1 DEF Fields, SameHeld, SameMaps
<1> HIDE DEF t
<1>5. Trailed(t) BY <1>1, <1>3, <1>4 DEF Trailed
<1>6. Sound(t) BY <1>1, <1>4, SameSound DEF SameHeld
<1>7. SameHeld(s, t) BY <1>1, <1>4 DEF SameHeld, SameMaps
<1> QED BY <1>2, <1>5, <1>6, <1>7

(* An entry that is added for a tool.                                       *)
LEMMA AddedTool ==
  ASSUME NEW s, Sound(s), NEW tid \in ToolIds, tid \notin DOMAIN s.tools,
         NEW e, IsNew(e, s), ~e.done, e.block.run = <<"running">>, ~e.block.closed,
         NEW t, DOMAIN t = Fields, t.entries = Append(s.entries, e),
         t.next_id = s.next_id + 1,
         t.tools = With(s.tools, tid, [entry |-> s.next_id, at |-> 1]),
         t.streams = s.streams, t.reasoning = s.reasoning,
         \/ /\ e.block.kind = "tool" /\ t.open_group = s.open_group
            /\ t.plan_rows \in {s.plan_rows, s.plan_rows \cup {s.next_id}}
         \/ /\ e.block.kind = "group" /\ s.open_group = NoGroup
            /\ t.open_group = s.next_id /\ t.plan_rows = s.plan_rows
  PROVE  Sound(t)
<1> DEFINE E == Entries(s)
           x == [entry |-> s.next_id, at |-> 1]
<1>1. IsList(s.entries) /\ IdsApart(s.entries) BY SoundParts DEF Listed
<1>2. /\ IsEntry(e, s.next_id + 1) /\ e.id = s.next_id
      /\ \A d \in E : d.id # e.id /\ d.id # NoGroup
      /\ e.id \notin s.plan_rows
      /\ \A sid \in DOMAIN s.reasoning : s.reasoning[sid] # e.id
  BY NewIsEntry
<1>3. IsList(t.entries) /\ Range(t.entries) = Range(s.entries) \cup {e} BY <1>1, AppendList
<1>4. IdsApart(t.entries) BY <1>1, <1>2, AppendApart DEF Entries
<1>5. Listed(t) /\ Entries(t) = E \cup {e} BY <1>3, <1>4 DEF Listed, Entries
<1>6. Owners(E, s.streams, s.tools, s.reasoning, s.open_group, s.plan_rows)
  BY DEF Sound, Owned
<1>7. Owners(E \cup {e}, s.streams, With(s.tools, tid, [entry |-> e.id, at |-> 1]),
             s.reasoning, t.open_group, t.plan_rows)
  <2> HIDE DEF E
  <2> DEFINE og == t.open_group
             rows == t.plan_rows
  <2>1. \/ /\ e.block.kind = "tool" /\ og = s.open_group
           /\ rows \in {s.plan_rows, s.plan_rows \cup {e.id}}
        \/ /\ e.block.kind = "group" /\ ~e.block.closed /\ s.open_group = NoGroup
           /\ og = e.id /\ rows = s.plan_rows
    BY <1>2
  <2> HIDE DEF og, rows
  <2>2. Owners(E \cup {e}, s.streams, With(s.tools, tid, [entry |-> e.id, at |-> 1]),
               s.reasoning, og, rows)
    BY <1>2, <1>6, <2>1, ToolIsAdded
  <2> QED BY <2>2 DEF og, rows
<1>8. Owned(t) BY <1>2, <1>5, <1>7 DEF Owned
<1>9. Keyed(t)
  <2>1. DOMAIN With(s.tools, tid, x) = DOMAIN s.tools \cup {tid} BY DEF With
  <2> QED BY <2>1 DEF Sound, Keyed
<1>10. Tidy(e)
  <2>1. Len(<<"running">>) = 1 /\ <<"running">>[1] = "running" OBVIOUS
  <2> QED BY <2>1, <1>2 DEF Tidy
<1>11. t.plan_rows \subseteq s.plan_rows \cup {e.id} BY <1>2
<1>12. \A sid \in DOMAIN t.reasoning :
         \/ t.reasoning[sid] = e.id
         \/ \E y \in DOMAIN s.reasoning : s.reasoning[y] = t.reasoning[sid]
  OBVIOUS
<1> QED BY <1>2, <1>5, <1>8, <1>9, <1>10, <1>11, <1>12, GrownSound

(* The blocks of a tool and of a group that has just been opened.           *)
LEMMA ToolBlocks ==
  ASSUME NEW run \in Seq(Statuses), NEW label
  PROVE  /\ LET b == Tool(run) IN
              /\ DOMAIN b = {"kind", "text", "run", "closed", "label"}
              /\ b.kind = "tool" /\ b.run = run /\ ~b.closed /\ b.closed \in BOOLEAN
         /\ LET b == [Block("group") EXCEPT !.run = run, !.label = label] IN
              /\ DOMAIN b = {"kind", "text", "run", "closed", "label"}
              /\ b.kind = "group" /\ b.run = run /\ ~b.closed /\ b.closed \in BOOLEAN
BY DEF Tool, Block

(* The entry push_quiet adds for a block that is not done.                  *)
IsEntryOf(e, s, block) ==
  /\ DOMAIN e = {"id", "of", "done", "block"} /\ e.id = s.next_id /\ e.of = s.next_id
  /\ ~e.done /\ e.done \in BOOLEAN /\ e.block = block

Pushed(s, block) == push_quiet(s, block, FALSE)

(* push_quiet, by the block it puts.                                        *)
LEMMA RowIs ==
  ASSUME NEW s, Sound(s), NEW block
  PROVE  LET row == Pushed(s, block) IN
         /\ DOMAIN row = Fields /\ row.next_id = s.next_id + 1 /\ SameMaps(s, row)
         /\ SameTrail(s, row)
         /\ \E e : IsEntryOf(e, s, block) /\ row.entries = Append(s.entries, e)
<1> DEFINE row == Pushed(s, block)
           e == NewEntry(s, block, FALSE)
           q == Append(s.entries, e)
           n == s.next_id + 1
<1>1. IsEntryOf(e, s, block) BY DEF NewEntry, IsEntryOf
<1>2. DOMAIN s = Fields BY SoundParts
<1>3. row = [s EXCEPT !.entries = q, !.next_id = n] BY DEF Pushed, push_quiet
<1> HIDE DEF q, n, row
<1>4. DOMAIN row = Fields /\ row.entries = q /\ row.next_id = n /\ SameMaps(s, row)
      /\ SameTrail(s, row)
  BY <1>2, <1>3 DEF Fields, SameMaps, SameTrail
<1> QED BY <1>1, <1>4 DEF q, n, row

(* What pushing an entry for a tool, and naming it by the tool, does.       *)
IsToolBlock(block) ==
  /\ DOMAIN block = {"kind", "text", "run", "closed", "label"}
  /\ block.kind \in {"tool", "group"} /\ block.run = <<"running">>
  /\ ~block.closed /\ block.closed \in BOOLEAN

IsPushed(s, t, e, tid) ==
  /\ DOMAIN t = Fields /\ t.entries = Append(s.entries, e) /\ t.next_id = s.next_id + 1
  /\ t.tools = With(s.tools, tid, [entry |-> s.next_id, at |-> 1])
  /\ t.streams = s.streams /\ t.reasoning = s.reasoning

(* A row or a group with the tool that runs in it: each owns the other.     *)
LEMMA PushTool ==
  ASSUME NEW s, Sound(s), NEW tid \in ToolIds, tid \notin DOMAIN s.tools, NEW block,
         IsToolBlock(block), NEW e, IsEntryOf(e, s, block),
         NEW t, IsPushed(s, t, e, tid),
         \/ /\ block.kind = "tool" /\ t.open_group = s.open_group
            /\ t.plan_rows \in {s.plan_rows, s.plan_rows \cup {s.next_id}}
         \/ /\ block.kind = "group" /\ s.open_group = NoGroup
            /\ t.open_group = s.next_id /\ t.plan_rows = s.plan_rows
  PROVE  Sound(t) /\ DOMAIN t.tools = DOMAIN s.tools \cup {tid}
<1>4. <<"running">> \in Seq(Statuses) BY DEF Statuses
<1>5. IsNew(e, s) BY <1>4 DEF IsNew, IsEntryOf, BlockKinds, IsToolBlock
<1>6. ~e.block.closed /\ e.block.run = <<"running">> /\ e.block.kind = block.kind /\ ~e.done
  BY DEF IsEntryOf, IsToolBlock
<1>7. Sound(t) BY <1>5, <1>6, AddedTool DEF IsPushed
<1>8. DOMAIN t.tools = DOMAIN s.tools \cup {tid} BY DEF With, IsPushed
<1> QED BY <1>7, <1>8

At(t, tid, id, i) == [t EXCEPT !.tools = With(t.tools, tid, [entry |-> id, at |-> i])]

(* The four ways a tool starts.                                             *)
LEMMA ToolStartedIs ==
  ASSUME NEW s, NEW tid, NEW kind \in ToolKinds
  PROVE  LET busy  == became_busy(s)
             trail == TrailToolStarted(busy, tid)
             grown == Change(trail, trail.open_group,
                             [EntryOf(trail, trail.open_group)
                                EXCEPT !.block.run = Append(@, "running")])
             alone == close_group(trail)
             group == [Block("group") EXCEPT !.run = <<"running">>, !.label = Label(kind)]
             row   == push_quiet(busy, Tool(<<"running">>), FALSE)
             t == ToolStarted(s, tid, kind)
         IN \/ t = [At(row, tid, busy.next_id, 1)
                      EXCEPT !.plan_rows = row.plan_rows \cup {busy.next_id}]
            \/ t = At(push(trail, Tool(<<"running">>), FALSE), tid, trail.next_id, 1)
            \/ /\ JoinsGroup(trail, kind)
               /\ t = At(grown, tid, trail.open_group,
                         Len(EntryOf(grown, trail.open_group).block.run))
            \/ t = [At(push(alone, group, FALSE), tid, alone.next_id, 1)
                      EXCEPT !.open_group = alone.next_id]
<1>1. CASE kind = "plan" BY <1>1 DEF ToolStarted, At
<1>2. CASE kind = "plain" BY <1>2 DEF ToolStarted, At
<1>3. CASE kind \in {"read", "code"} BY <1>3 DEF ToolStarted, At
<1> QED BY <1>1, <1>2, <1>3 DEF ToolKinds

Gained(s, t, tid) ==
  /\ Sound(t) /\ SameTrail(s, t)
  /\ t.streams = s.streams /\ DOMAIN t.tools = DOMAIN s.tools \cup {tid}

(* A plan update has a row of its own.                                      *)
LEMMA PlanRowSound ==
  ASSUME NEW s, Sound(s), NEW tid \in ToolIds, tid \notin DOMAIN s.tools
  PROVE  LET row == push_quiet(s, Tool(<<"running">>), FALSE) IN
         Gained(s, [At(row, tid, s.next_id, 1) EXCEPT !.plan_rows = row.plan_rows \cup {s.next_id}],
                tid)
<1> DEFINE block == Tool(<<"running">>)
           row == Pushed(s, block)
           x == With(row.tools, tid, [entry |-> s.next_id, at |-> 1])
           rows == row.plan_rows \cup {s.next_id}
           t == [row EXCEPT !.tools = x, !.plan_rows = rows]
<1>1. <<"running">> \in Seq(Statuses) BY DEF Statuses
<1>2. /\ DOMAIN block = {"kind", "text", "run", "closed", "label"}
      /\ block.kind = "tool" /\ block.run = <<"running">> /\ ~block.closed
      /\ block.closed \in BOOLEAN
  BY <1>1, ToolBlocks
<1>b. IsToolBlock(block) BY <1>2 DEF IsToolBlock
<1>3. [At(row, tid, s.next_id, 1) EXCEPT !.plan_rows = row.plan_rows \cup {s.next_id}] = t
  BY DEF At, Pushed
<1> HIDE DEF block
<1>4. PICK e : /\ DOMAIN row = Fields /\ row.next_id = s.next_id + 1 /\ SameMaps(s, row)
               /\ SameTrail(s, row)
               /\ IsEntryOf(e, s, block) /\ row.entries = Append(s.entries, e)
  BY RowIs
<1> HIDE DEF row, x, rows
<1>5. /\ DOMAIN t = Fields /\ t.entries = Append(s.entries, e) /\ t.next_id = s.next_id + 1
      /\ t.tools = x /\ t.plan_rows = rows /\ SameTrail(s, t)
      /\ t.streams = s.streams /\ t.reasoning = s.reasoning /\ t.open_group = s.open_group
  BY <1>4 DEF Fields, SameMaps, SameTrail
<1>6. x = With(s.tools, tid, [entry |-> s.next_id, at |-> 1])
      /\ rows = s.plan_rows \cup {s.next_id}
  BY <1>4 DEF SameMaps, x, rows
<1> HIDE DEF t
<1>p. IsPushed(s, t, e, tid) BY <1>5, <1>6 DEF IsPushed
<1>7. Sound(t) /\ DOMAIN t.tools = DOMAIN s.tools \cup {tid}
  <2>1. block.kind = "tool" /\ t.open_group = s.open_group
        /\ t.plan_rows = s.plan_rows \cup {s.next_id}
    BY <1>2, <1>5, <1>6
  <2>2. IsEntryOf(e, s, block) BY <1>4
  <2> QED BY <1>b, <1>p, <2>1, <2>2, PushTool
<1>8. Gained(s, t, tid) BY <1>5, <1>7 DEF Gained
<1> QED BY <1>3, <1>8 DEF row, block, Pushed

(* A plain tool has a row, after the open group is closed.                  *)
LEMMA PlainSound ==
  ASSUME NEW s, Sound(s), NEW tid \in ToolIds, tid \notin DOMAIN s.tools
  PROVE  Gained(s, At(push(s, Tool(<<"running">>), FALSE), tid, s.next_id, 1), tid)
<1> DEFINE block == Tool(<<"running">>)
           c == close_group(s)
           row == Pushed(c, block)
           x == With(row.tools, tid, [entry |-> s.next_id, at |-> 1])
           t == [row EXCEPT !.tools = x]
<1>1. <<"running">> \in Seq(Statuses) BY DEF Statuses
<1>2. /\ DOMAIN block = {"kind", "text", "run", "closed", "label"}
      /\ block.kind = "tool" /\ block.run = <<"running">> /\ ~block.closed
      /\ block.closed \in BOOLEAN
  BY <1>1, ToolBlocks
<1>b. IsToolBlock(block) BY <1>2 DEF IsToolBlock
<1> HIDE DEF block
<1>3. At(push(s, block, FALSE), tid, s.next_id, 1) = t BY <1>2 DEF At, push, Pushed
<1>4. /\ Sound(c) /\ c.open_group = NoGroup /\ c.next_id = s.next_id
      /\ SameKeys(s, c) /\ c.plan_rows = s.plan_rows /\ SameTrail(s, c)
  BY CloseGroupSound
<1> HIDE DEF c
<1>5. PICK e : /\ DOMAIN row = Fields /\ row.next_id = c.next_id + 1 /\ SameMaps(c, row)
               /\ SameTrail(c, row)
               /\ IsEntryOf(e, c, block) /\ row.entries = Append(c.entries, e)
  BY <1>4, RowIs
<1> HIDE DEF row, x
<1>6. /\ DOMAIN t = Fields /\ t.entries = Append(c.entries, e) /\ t.next_id = c.next_id + 1
      /\ t.tools = x /\ t.plan_rows = c.plan_rows /\ SameTrail(s, t)
      /\ t.streams = c.streams /\ t.reasoning = c.reasoning /\ t.open_group = c.open_group
  BY <1>4, <1>5 DEF Fields, SameMaps, SameTrail
<1>7. x = With(c.tools, tid, [entry |-> c.next_id, at |-> 1])
  BY <1>4, <1>5 DEF SameMaps, x
<1>8. tid \notin DOMAIN c.tools /\ c.tools = s.tools /\ c.streams = s.streams
  BY <1>4 DEF SameKeys
<1> HIDE DEF t
<1>p. IsPushed(c, t, e, tid) BY <1>6, <1>7 DEF IsPushed
<1>9. Sound(t) /\ DOMAIN t.tools = DOMAIN c.tools \cup {tid}
  <2>1. block.kind = "tool" /\ t.open_group = c.open_group /\ t.plan_rows = c.plan_rows
    BY <1>2, <1>4, <1>6
  <2>2. IsEntryOf(e, c, block) BY <1>5
  <2>3. Sound(c) /\ tid \notin DOMAIN c.tools BY <1>4, <1>8
  <2> QED BY <1>b, <1>p, <2>1, <2>2, <2>3, PushTool
<1>10. Gained(s, t, tid) BY <1>6, <1>8, <1>9 DEF Gained
<1> QED BY <1>3, <1>10 DEF block

(* A read or a code step that joins no group opens one.                     *)
LEMMA GroupSound ==
  ASSUME NEW s, Sound(s), NEW tid \in ToolIds, tid \notin DOMAIN s.tools, NEW label
  PROVE  LET alone == close_group(s)
             group == [Block("group") EXCEPT !.run = <<"running">>, !.label = label]
         IN Gained(s, [At(push(alone, group, FALSE), tid, alone.next_id, 1)
                         EXCEPT !.open_group = alone.next_id], tid)
<1> DEFINE block == [Block("group") EXCEPT !.run = <<"running">>, !.label = label]
           c == close_group(s)
           row == Pushed(c, block)
           x == With(row.tools, tid, [entry |-> c.next_id, at |-> 1])
           t == [row EXCEPT !.tools = x, !.open_group = c.next_id]
<1>1. <<"running">> \in Seq(Statuses) BY DEF Statuses
<1>2. /\ DOMAIN block = {"kind", "text", "run", "closed", "label"}
      /\ block.kind = "group" /\ block.run = <<"running">> /\ ~block.closed
      /\ block.closed \in BOOLEAN
  BY <1>1, ToolBlocks
<1>b. IsToolBlock(block) BY <1>2 DEF IsToolBlock
<1> HIDE DEF block
<1>3. [At(push(c, block, FALSE), tid, c.next_id, 1) EXCEPT !.open_group = c.next_id] = t
  BY <1>2 DEF At, push, Pushed
<1>4. /\ Sound(c) /\ c.open_group = NoGroup /\ c.next_id = s.next_id
      /\ SameKeys(s, c) /\ c.plan_rows = s.plan_rows /\ SameTrail(s, c)
  BY CloseGroupSound
<1>x. c = close_group(s) OBVIOUS
<1> HIDE DEF c
<1>5. PICK e : /\ DOMAIN row = Fields /\ row.next_id = c.next_id + 1 /\ SameMaps(c, row)
               /\ SameTrail(c, row)
               /\ IsEntryOf(e, c, block) /\ row.entries = Append(c.entries, e)
  BY <1>4, RowIs
<1> HIDE DEF row, x
<1>6. /\ DOMAIN t = Fields /\ t.entries = Append(c.entries, e) /\ t.next_id = c.next_id + 1
      /\ t.tools = x /\ t.plan_rows = c.plan_rows /\ SameTrail(s, t)
      /\ t.streams = c.streams /\ t.reasoning = c.reasoning /\ t.open_group = c.next_id
  BY <1>4, <1>5 DEF Fields, SameMaps, SameTrail
<1>7. x = With(c.tools, tid, [entry |-> c.next_id, at |-> 1])
  BY <1>4, <1>5 DEF SameMaps, x
<1>8. tid \notin DOMAIN c.tools /\ c.tools = s.tools /\ c.streams = s.streams
  BY <1>4 DEF SameKeys
<1> HIDE DEF t
<1>p. IsPushed(c, t, e, tid) BY <1>6, <1>7 DEF IsPushed
<1>9. Sound(t) /\ DOMAIN t.tools = DOMAIN c.tools \cup {tid}
  <2>1. block.kind = "group" /\ c.open_group = NoGroup /\ t.open_group = c.next_id
        /\ t.plan_rows = c.plan_rows
    BY <1>2, <1>4, <1>6
  <2>2. IsEntryOf(e, c, block) BY <1>5
  <2>3. Sound(c) /\ tid \notin DOMAIN c.tools BY <1>4, <1>8
  <2> QED BY <1>b, <1>p, <2>1, <2>2, <2>3, PushTool
<1>10. Gained(s, t, tid) BY <1>6, <1>8, <1>9 DEF Gained
<1> QED BY <1>3, <1>10, <1>x DEF block

(* A tool joins the open group.                                             *)
LEMMA GrowSound ==
  ASSUME NEW s, Sound(s), NEW tid \in ToolIds, tid \notin DOMAIN s.tools,
         s.open_group # NoGroup
  PROVE  LET og == s.open_group
             grown == Change(s, og, [EntryOf(s, og) EXCEPT !.block.run = Append(@, "running")])
         IN Gained(s, At(grown, tid, og, Len(EntryOf(grown, og).block.run)), tid)
<1> DEFINE og == s.open_group
           E == Entries(s)
           n == s.next_id
<1>1. Listed(s) /\ OneId(E) /\ DOMAIN s = Fields /\ \A c \in E : IsEntry(c, n) /\ Tidy(c)
  BY SoundParts
<1>2. PICK d \in E : d.id = og /\ d.block.kind = "group" /\ ~d.block.closed /\ ~d.done
  BY DEF Sound, Owned, Owners, GroupOpen
<1>3. EntryOf(s, og) = d BY <1>1, <1>2, Found
<1> DEFINE run == Append(d.block.run, "running")
           e == [d EXCEPT !.block.run = run]
           g == Change(s, og, e)
           x == [entry |-> og, at |-> Len(EntryOf(g, og).block.run)]
           tools == With(g.tools, tid, x)
           t == [g EXCEPT !.tools = tools]
<1>4. LET grown == Change(s, og, [EntryOf(s, og) EXCEPT !.block.run = Append(@, "running")])
      IN At(grown, tid, og, Len(EntryOf(grown, og).block.run)) = t
  BY <1>3 DEF At
<1>5. IsEntry(d, n) /\ d.block.run \in Seq(Statuses) BY <1>1, <1>2 DEF IsEntry
<1>6. run \in Seq(Statuses) BY <1>5 DEF Statuses
<1> HIDE DEF run, n
<1>7. /\ IsEntry(e, n) /\ e.done = d.done /\ e.id = d.id /\ e.block.kind = d.block.kind
      /\ e.block.run = run /\ e.block.closed = d.block.closed
  BY <1>5, <1>6 DEF IsEntry
<1> HIDE DEF e
<1>8. Tidy(e) BY <1>2, <1>7 DEF Tidy
<1>9. /\ Listed(g) /\ SameRest(s, g) /\ Entries(g) = (E \ {d}) \cup {e}
      /\ EntryOf(g, og) = e
  BY <1>1, <1>2, <1>7, Changed
<1> HIDE DEF g
<1>10. x = [entry |-> og, at |-> Len(e.block.run)] BY <1>9
<1>11. tools = With(s.tools, tid, [entry |-> og, at |-> Len(e.block.run)])
  BY <1>9, <1>10 DEF SameRest, SameMaps
<1> HIDE DEF tools
<1>12. /\ DOMAIN t = Fields /\ t.entries = g.entries /\ t.next_id = n /\ t.tools = tools
       /\ t.streams = s.streams /\ t.reasoning = s.reasoning /\ t.open_group = og
       /\ t.plan_rows = s.plan_rows /\ SameTrail(s, t)
  BY <1>1, <1>9 DEF Fields, SameRest, SameMaps, SameTrail, n
<1> HIDE DEF t
<1>13. Listed(t) /\ Entries(t) = (E \ {d}) \cup {e} BY <1>9, <1>12 DEF Listed, Entries
<1>14. Owners(E, s.streams, s.tools, s.reasoning, og, s.plan_rows) BY DEF Sound, Owned
<1>15. Owners((E \ {d}) \cup {e}, s.streams, tools, s.reasoning, og, s.plan_rows)
  <2> HIDE DEF E
  <2>1. e.block.run = Append(d.block.run, "running") BY <1>7 DEF run
  <2>2. Owners((E \ {d}) \cup {e}, s.streams,
               With(s.tools, tid, [entry |-> og, at |-> Len(e.block.run)]),
               s.reasoning, og, s.plan_rows)
    BY <1>1, <1>2, <1>5, <1>7, <1>14, <2>1, GroupGrows
  <2> QED BY <1>11, <2>2
<1>16. Owned(t) BY <1>12, <1>13, <1>15 DEF Owned
<1>17. DOMAIN tools = DOMAIN s.tools \cup {tid} BY <1>11 DEF With
<1>18. Keyed(t) BY <1>12, <1>17 DEF Sound, Keyed
<1>19. \A c \in Entries(t) : c \in Entries(s) \/ (IsEntry(c, s.next_id) /\ Tidy(c))
  BY <1>7, <1>8, <1>13 DEF n
<1>20. Sound(t) BY <1>12, <1>13, <1>16, <1>18, <1>19, FewerSound DEF n
<1>21. Gained(s, t, tid) BY <1>12, <1>17, <1>20 DEF Gained
<1> QED BY <1>4, <1>21

(* ToolStarted: the tool is owned by a row, the open group, or a new one.   *)
LEMMA ToolStartedSound ==
  ASSUME NEW s, Sound(s), Trailed(s), NEW tid \in ToolIds, tid \notin DOMAIN s.tools,
         NEW kind \in ToolKinds
  PROVE  LET t == ToolStarted(s, tid, kind) IN
         /\ Sound(t) /\ Trailed(t)
         /\ t.streams = s.streams /\ DOMAIN t.tools = DOMAIN s.tools \cup {tid}
<1> DEFINE b == became_busy(s)
           r == TrailToolStarted(b, tid)
           t == ToolStarted(s, tid, kind)
           grown == Change(r, r.open_group,
                           [EntryOf(r, r.open_group) EXCEPT !.block.run = Append(@, "running")])
           alone == close_group(r)
           group == [Block("group") EXCEPT !.run = <<"running">>, !.label = Label(kind)]
           row   == push_quiet(b, Tool(<<"running">>), FALSE)
<1>1. Sound(b) /\ Trailed(b) /\ b.streams = s.streams /\ b.tools = s.tools
  BY BusySound DEF SameMaps
<1>2. \/ t = [At(row, tid, b.next_id, 1) EXCEPT !.plan_rows = row.plan_rows \cup {b.next_id}]
      \/ t = At(push(r, Tool(<<"running">>), FALSE), tid, r.next_id, 1)
      \/ /\ JoinsGroup(r, kind)
         /\ t = At(grown, tid, r.open_group, Len(EntryOf(grown, r.open_group).block.run))
      \/ t = [At(push(alone, group, FALSE), tid, alone.next_id, 1)
                EXCEPT !.open_group = alone.next_id]
  BY ToolStartedIs
<1> HIDE DEF t, b
<1>3. Sound(r) /\ Trailed(r) /\ r.streams = b.streams /\ r.tools = b.tools
  BY <1>1, ToolTrailed DEF SameHeld, SameMaps
<1> HIDE DEF r
<1>4. Gained(b, t, tid) \/ Gained(r, t, tid)
  <2>1. CASE t = [At(row, tid, b.next_id, 1) EXCEPT !.plan_rows = row.plan_rows \cup {b.next_id}]
    BY <1>1, <2>1, PlanRowSound
  <2>2. CASE t = At(push(r, Tool(<<"running">>), FALSE), tid, r.next_id, 1)
    BY <1>1, <1>3, <2>2, PlainSound
  <2>3. CASE /\ JoinsGroup(r, kind)
             /\ t = At(grown, tid, r.open_group, Len(EntryOf(grown, r.open_group).block.run))
    <3>1. r.open_group # NoGroup BY <2>3 DEF JoinsGroup
    <3> QED BY <1>1, <1>3, <2>3, <3>1, GrowSound
  <2>4. CASE t = [At(push(alone, group, FALSE), tid, alone.next_id, 1)
                    EXCEPT !.open_group = alone.next_id]
    BY <1>1, <1>3, <2>4, GroupSound
  <2> QED BY <1>2, <2>1, <2>2, <2>3, <2>4
<1>5. Trailed(t) BY <1>1, <1>3, <1>4, SameTrailed DEF Gained
<1> QED BY <1>1, <1>3, <1>4, <1>5 DEF Gained, t

(* One element of a sequence is replaced.                                   *)
LEMMA PutList ==
  ASSUME NEW S, NEW q \in Seq(S), NEW k \in DOMAIN q, NEW v \in S
  PROVE  [q EXCEPT ![k] = v] \in Seq(S) /\ Len([q EXCEPT ![k] = v]) = Len(q)
<1> DEFINE r == [q EXCEPT ![k] = v]
<1>1. DOMAIN q = 1..Len(q) /\ Len(q) \in Nat /\ \A i \in 1..Len(q) : q[i] \in S OBVIOUS
<1>2. r \in [1..Len(q) -> S] BY <1>1
<1>3. r \in Seq(S) /\ DOMAIN r = 1..Len(q) BY <1>1, <1>2
<1>4. Len(r) = Len(q) BY <1>1, <1>3
<1> QED BY <1>3, <1>4

(* The entry of a tool, and what it is once the tool has its status.        *)
Ran(d, at, status) == [d EXCEPT !.block.run[at] = status]

IsRan(s, tid, status, d, e) ==
  /\ d.id = s.tools[tid].entry /\ ~d.done
  /\ d.block.kind \in {"tool", "group"} /\ d.block.run \in Seq(Statuses)
  /\ IsEntry(e, s.next_id) /\ ~e.done /\ e.id = d.id
  /\ e.block.kind = d.block.kind /\ e.block.closed = d.block.closed
  /\ e.block.run = [d.block.run EXCEPT ![s.tools[tid].at] = status]
  /\ Len(e.block.run) = Len(d.block.run)
  /\ d.block.kind = "tool" => Len(d.block.run) = 1 /\ Still(e)

(* The tool's entry is there, and is one of the session's.                  *)
LEMMA RanIs ==
  ASSUME NEW s, Sound(s), NEW tid \in DOMAIN s.tools, NEW status \in {"ok", "error"}
  PROVE  \E d \in Entries(s) : IsRan(s, tid, status, d, Ran(d, s.tools[tid].at, status))
<1> DEFINE at == s.tools[tid].at
<1>1. \A c \in Entries(s) : IsEntry(c, s.next_id) /\ Tidy(c) BY SoundParts
<1>2. PICK d \in Entries(s) : /\ d.id = s.tools[tid].entry /\ ~d.done
                              /\ at \in DOMAIN d.block.run
                              /\ d.block.run[at] = "running"
  BY DEF Sound, Owned, Owners, ToolsRun
<1> DEFINE run == [d.block.run EXCEPT ![at] = status]
           e == [d EXCEPT !.block.run = run]
<1>3. IsEntry(d, s.next_id) /\ Tidy(d) BY <1>1, <1>2
<1>4. d.block.run \in Seq(Statuses) BY <1>3 DEF IsEntry
<1>5. d.block.run # <<>> BY <1>2
<1>6. d.block.kind \in {"tool", "group"} BY <1>3, <1>5 DEF Tidy
<1>7. status \in Statuses /\ status # "running" BY DEF Statuses
<1>8. run \in Seq(Statuses) /\ Len(run) = Len(d.block.run) BY <1>2, <1>4, <1>7, PutList
<1>9. d.block.kind = "tool" => Len(d.block.run) = 1 BY <1>3 DEF Tidy
<1>10. d.block.kind = "tool" => "running" \notin Range(run)
  <2> HAVE d.block.kind = "tool"
  <2>1. DOMAIN d.block.run = {1} BY <1>4, <1>9
  <2>2. at = 1 /\ DOMAIN run = {1} /\ run[1] = status BY <1>2, <2>1
  <2> QED BY <1>7, <2>2 DEF Range
<1> HIDE DEF run
<1>11. /\ IsEntry(e, s.next_id) /\ e.done = d.done /\ e.id = d.id
       /\ e.block.kind = d.block.kind /\ e.block.run = run /\ e.block.closed = d.block.closed
  BY <1>3, <1>8 DEF IsEntry
<1>12. e = Ran(d, at, status) BY DEF Ran, run
<1> HIDE DEF e
<1>13. d.block.kind = "tool" => Still(e) BY <1>10, <1>11 DEF Still
<1>14. IsRan(s, tid, status, d, e)
  BY <1>2, <1>4, <1>6, <1>8, <1>9, <1>11, <1>13 DEF IsRan, run
<1> QED BY <1>12, <1>14

(* The tool is let go, and its row is done, closes its group, or goes.      *)
Freed(s, k, tid) ==
  /\ DOMAIN k = Fields /\ k.next_id = s.next_id /\ k.streams = s.streams
  /\ k.tools = Without(s.tools, {tid}) /\ k.reasoning = s.reasoning
  /\ k.open_group = s.open_group /\ k.plan_rows = s.plan_rows \ {s.tools[tid].entry}

(* What a session that let go of a tool needs to be sound.                  *)
LEMMA FreedSound ==
  ASSUME NEW s, Sound(s), NEW tid \in DOMAIN s.tools, NEW k, Freed(s, k, tid), Listed(k),
         Owners(Entries(k), s.streams, Without(s.tools, {tid}), s.reasoning, s.open_group,
                s.plan_rows),
         \A e \in Entries(k) : e \in Entries(s) \/ (IsEntry(e, s.next_id) /\ Tidy(e))
  PROVE  /\ Sound(k) /\ k.streams = s.streams
         /\ DOMAIN k.tools = DOMAIN s.tools \ {tid}
<1>1. DOMAIN k.tools = DOMAIN s.tools \ {tid} BY DEF Freed, Without, Restrict
<1>2. Owners(Entries(k), s.streams, Without(s.tools, {tid}), s.reasoning, s.open_group,
             k.plan_rows)
  BY FewerRows DEF Freed
<1>3. Owned(k) BY <1>2 DEF Owned, Freed
<1>4. Keyed(k) BY <1>1 DEF Sound, Keyed, Freed
<1>5. Sound(k) BY <1>3, <1>4, FewerSound DEF Freed
<1> QED BY <1>1, <1>5 DEF Freed

IsSet(s, v, tid) ==
  /\ DOMAIN v = Fields /\ v.next_id = s.next_id /\ v.streams = s.streams
  /\ v.tools = Without(s.tools, {tid}) /\ v.reasoning = s.reasoning
  /\ v.open_group = s.open_group /\ v.plan_rows = s.plan_rows
  /\ v.beads = s.beads /\ v.by_tool = Without(s.by_tool, {tid})

SetOf(s, tid, status) ==
  LET id    == s.tools[tid].entry
      at    == s.tools[tid].at
      known == [s EXCEPT !.tools = Without(@, {tid})]
  IN TrailToolFinished(
       Change(known, id, [EntryOf(known, id) EXCEPT !.block.run[at] = status]), tid)

(* ToolFinished, up to the status: the tool's entry alone is changed.       *)
LEMMA SetIs ==
  ASSUME NEW s, Sound(s), NEW tid \in DOMAIN s.tools, NEW status,
         NEW d \in Entries(s), NEW e, e = Ran(d, s.tools[tid].at, status),
         d.id = s.tools[tid].entry, e.id = d.id
  PROVE  LET v == SetOf(s, tid, status)
         IN /\ IsSet(s, v, tid) /\ Listed(v)
            /\ Entries(v) = (Entries(s) \ {d}) \cup {e}
<1> DEFINE id    == s.tools[tid].entry
           at    == s.tools[tid].at
           less  == Without(s.tools, {tid})
           known == [s EXCEPT !.tools = less]
           E == Entries(s)
           g == Change(known, id, e)
           b == Without(g.by_tool, {tid})
           v == [g EXCEPT !.by_tool = b]
<1>1. Listed(s) /\ OneId(E) /\ DOMAIN s = Fields BY SoundParts
<1> HIDE DEF less
<1>2. /\ DOMAIN known = Fields /\ known.entries = s.entries /\ known.next_id = s.next_id
      /\ known.tools = less /\ known.streams = s.streams /\ known.reasoning = s.reasoning
      /\ known.open_group = s.open_group /\ known.plan_rows = s.plan_rows
      /\ SameTrail(s, known)
  BY <1>1 DEF Fields, SameTrail
<1>0. SetOf(s, tid, status)
      = TrailToolFinished(Change(known, id, [EntryOf(known, id) EXCEPT !.block.run[at] = status]),
                          tid)
  BY DEF SetOf, less
<1> HIDE DEF known
<1>3. Listed(known) /\ Entries(known) = E BY <1>1, <1>2 DEF Listed, Entries
<1>4. EntryOf(known, id) = d BY <1>3, Found
<1>5. TrailToolFinished(Change(known, id, [EntryOf(known, id) EXCEPT !.block.run[at] = status]),
                        tid) = v
  BY <1>4 DEF TrailToolFinished, Ran
<1>7. Listed(g) /\ SameRest(known, g) /\ Entries(g) = (E \ {d}) \cup {e}
  BY <1>3, Changed
<1> HIDE DEF g
<1>8. b = Without(s.by_tool, {tid}) BY <1>2, <1>7 DEF SameRest, SameTrail
<1> HIDE DEF b
<1>9. /\ DOMAIN v = Fields /\ v.entries = g.entries /\ SameMaps(g, v) /\ v.next_id = g.next_id
      /\ v.beads = g.beads /\ v.by_tool = b
  BY <1>2, <1>7 DEF Fields, SameRest, SameMaps
<1> HIDE DEF v
<1>10. Listed(v) /\ Entries(v) = (E \ {d}) \cup {e} BY <1>7, <1>9 DEF Listed, Entries
<1>11. IsSet(s, v, tid)
  BY <1>2, <1>7, <1>8, <1>9 DEF IsSet, SameRest, SameMaps, SameTrail, less
<1> QED BY <1>0, <1>5, <1>10, <1>11

(* A plan row goes.                                                         *)
LEMMA DropIs ==
  ASSUME NEW v, Listed(v), NEW id
  PROVE  LET t == Drop(v, {id}) IN
         /\ Listed(t) /\ SameRest(v, t)
         /\ Entries(t) = {e \in Entries(v) : e.id # id}
<1> DEFINE K == {e \in Range(v.entries) : e.id \notin {id}}
           q == Keeping(v.entries, K)
           t == [v EXCEPT !.entries = q]
<1>1. DOMAIN v = Fields /\ IsList(v.entries) /\ IdsApart(v.entries) BY DEF Listed
<1>2. IsList(q) /\ IdsApart(q) /\ Range(q) = Range(v.entries) \cap K
  <2> HIDE DEF K
  <2> QED BY <1>1, KeepList
<1>3. Drop(v, {id}) = t BY DEF Drop
<1>4. Range(v.entries) \cap K = {e \in Entries(v) : e.id # id} BY DEF Entries
<1> HIDE DEF q, K
<1>5. DOMAIN t = Fields /\ t.entries = q /\ SameRest(v, t)
  BY <1>1 DEF Fields, SameRest, SameMaps, SameTrail
<1> HIDE DEF t
<1>6. Listed(t) BY <1>2, <1>5 DEF Listed
<1>7. Entries(t) = {e \in Entries(v) : e.id # id} BY <1>2, <1>4, <1>5 DEF Entries
<1> QED BY <1>3, <1>5, <1>6, <1>7

(* A tool that ends leaves its bead in the trail without a name.            *)
LEMMA FinishedTrailed ==
  ASSUME NEW s, Trailed(s), NEW tid, NEW t, t.beads = s.beads,
         t.by_tool = Without(s.by_tool, {tid})
  PROVE  Trailed(t)
<1>1. \A k \in DOMAIN t.by_tool : t.by_tool[k] \in 1..Len(s.beads) /\ s.beads[t.by_tool[k]] = k
  BY DEF Without, Restrict, Trailed
<1> QED BY <1>1 DEF Trailed

Let(s, k, tid) ==
  /\ Freed(s, k, tid) /\ Listed(k)
  /\ k.beads = s.beads /\ k.by_tool = Without(s.by_tool, {tid})

(* The row is no longer a plan row.                                         *)
LEMMA KeptIs ==
  ASSUME NEW s, NEW tid, NEW v, IsSet(s, v, tid), NEW w, SameRest(v, w), Listed(w)
  PROVE  LET k == [w EXCEPT !.plan_rows = @ \ {s.tools[tid].entry}] IN
         Let(s, k, tid) /\ Entries(k) = Entries(w)
<1> DEFINE rows == w.plan_rows \ {s.tools[tid].entry}
           k == [w EXCEPT !.plan_rows = rows]
<1>1. DOMAIN w = Fields BY DEF Listed
<1>2. rows = s.plan_rows \ {s.tools[tid].entry} BY DEF IsSet, SameRest, SameMaps
<1> HIDE DEF rows
<1>3. /\ DOMAIN k = Fields /\ k.entries = w.entries /\ k.plan_rows = rows
      /\ k.next_id = w.next_id /\ k.streams = w.streams /\ k.tools = w.tools
      /\ k.reasoning = w.reasoning /\ k.open_group = w.open_group /\ SameTrail(w, k)
  BY <1>1 DEF Fields, SameTrail
<1>4. k = [w EXCEPT !.plan_rows = @ \ {s.tools[tid].entry}] BY DEF rows
<1> HIDE DEF k
<1>5. Listed(k) /\ Entries(k) = Entries(w) BY <1>1, <1>3 DEF Listed, Entries
<1>6. Freed(s, k, tid) BY <1>2, <1>3 DEF Freed, IsSet, SameRest, SameMaps
<1>7. k.beads = s.beads /\ k.by_tool = Without(s.by_tool, {tid})
  BY <1>3 DEF IsSet, SameRest, SameTrail
<1> QED BY <1>4, <1>5, <1>6, <1>7 DEF Let

(* finish, on a session whose tool is let go.                               *)
LEMMA LetFinish ==
  ASSUME NEW s, NEW tid, NEW k, Let(s, k, tid), NEW e \in Entries(k),
         [e EXCEPT !.done = TRUE].id = e.id
  PROVE  LET t == finish(k, e.id) IN
         Let(s, t, tid) /\ Entries(t) = (Entries(k) \ {e}) \cup {[e EXCEPT !.done = TRUE]}
<1> DEFINE f == [e EXCEPT !.done = TRUE]
           t == Change(k, e.id, f)
<1>1. Listed(k) /\ DOMAIN k = Fields BY DEF Let, Listed
<1>2. EntryOf(k, e.id) = e BY <1>1, Found
<1>3. finish(k, e.id) = t BY <1>2 DEF finish
<1>4. f.id = e.id OBVIOUS
<1> HIDE DEF f
<1>5. Listed(t) /\ SameRest(k, t) /\ Entries(t) = (Entries(k) \ {e}) \cup {f}
  BY <1>1, <1>4, Changed
<1> HIDE DEF t
<1>6. Let(s, t, tid) BY <1>5 DEF Let, Freed, SameRest, SameMaps, SameTrail
<1> QED BY <1>3, <1>5, <1>6 DEF f

(* ToolFinished: the session stays sound, without the tool.                 *)
LEMMA ToolFinishedSound ==
  ASSUME NEW s, Sound(s), Trailed(s), NEW tid \in DOMAIN s.tools, NEW status \in {"ok", "error"}
  PROVE  LET t == ToolFinished(s, tid, status) IN
         /\ Sound(t) /\ Trailed(t) /\ t.streams = s.streams
         /\ DOMAIN t.tools = DOMAIN s.tools \ {tid}
<1> DEFINE id    == s.tools[tid].entry
           at    == s.tools[tid].at
           v     == SetOf(s, tid, status)
           row   == id \in s.plan_rows /\ s.plan_seen /\ status # "error"
           w     == IF row THEN Drop(v, {id}) ELSE v
           k     == [w EXCEPT !.plan_rows = @ \ {id}]
           t     == ToolFinished(s, tid, status)
           E     == Entries(s)
           group == Index(k, id) # 0 /\ k.entries[Index(k, id)].block.kind = "group"
<1>1. t = IF group THEN finish_group_if_done(k, id) ELSE finish(k, id) BY DEF ToolFinished, SetOf
<1>2. Listed(s) /\ OneId(E) /\ \A c \in E : IsEntry(c, s.next_id) /\ Tidy(c) BY SoundParts
<1>3. PICK d \in E : IsRan(s, tid, status, d, Ran(d, at, status)) BY RanIs
<1> DEFINE e == Ran(d, at, status)
<1>4. /\ d.id = id /\ ~d.done
      /\ d.block.kind \in {"tool", "group"} /\ d.block.run \in Seq(Statuses)
      /\ IsEntry(e, s.next_id) /\ ~e.done /\ e.id = d.id
      /\ e.block.kind = d.block.kind /\ e.block.closed = d.block.closed
      /\ e.block.run = [d.block.run EXCEPT ![at] = status]
      /\ Len(e.block.run) = Len(d.block.run)
      /\ d.block.kind = "tool" => Len(d.block.run) = 1 /\ Still(e)
  BY <1>3 DEF IsRan
<1>5. IsSet(s, v, tid) /\ Listed(v) /\ Entries(v) = (E \ {d}) \cup {e}
  BY <1>4, SetIs
<1> HIDE DEF v, e, t
<1>6. Owners(E, s.streams, s.tools, s.reasoning, s.open_group, s.plan_rows)
  BY DEF Sound, Owned
<1>7. \A c \in E : c.block.kind \notin {"tool", "group"} => c.block.run = <<>> BY <1>2 DEF Tidy
<1>8. e \notin E \ {d} BY <1>2, <1>4 DEF OneId
<1> SUFFICES /\ Let(s, t, tid)
             /\ Owners(Entries(t), s.streams, Without(s.tools, {tid}), s.reasoning, s.open_group,
                       s.plan_rows)
             /\ \A c \in Entries(t) : c \in E \/ (IsEntry(c, s.next_id) /\ Tidy(c))
  <2>1. Trailed(t) BY FinishedTrailed DEF Let
  <2>2. Sound(t) /\ t.streams = s.streams /\ DOMAIN t.tools = DOMAIN s.tools \ {tid}
    BY FreedSound DEF Let
  <2> QED BY <2>1, <2>2 DEF t
<1>9. CASE row
  <2>1. d.block.kind = "tool" BY <1>4, <1>6, <1>9 DEF Owners, RowsAreTools
  <2>0. w = Drop(v, {id}) BY <1>9
  <2>2. Listed(w) /\ SameRest(v, w) /\ Entries(w) = {c \in Entries(v) : c.id # id}
    <3> HIDE DEF w, id
    <3> QED BY <1>5, <2>0, DropIs
  <2>3. {c \in Entries(v) : c.id # id} = E \ {d} BY <1>2, <1>4, <1>5 DEF OneId
  <2> HIDE DEF w
  <2>4. Let(s, k, tid) /\ Entries(k) = E \ {d} BY <1>5, <2>2, <2>3, KeptIs
  <2> HIDE DEF k
  <2>5. \A c \in Entries(k) : c.id # id BY <1>2, <1>4, <2>4 DEF OneId
  <2>6. Index(k, id) = 0 /\ \A c : Change(k, id, c) = k BY <2>4, <2>5, NotFound DEF Let
  <2>7. t = k BY <1>1, <2>6 DEF finish
  <2>8. Owners(E \ {d}, s.streams, Without(s.tools, {tid}), s.reasoning, s.open_group,
               s.plan_rows)
    <3> HIDE DEF E
    <3>1. Len(d.block.run) = 1 BY <1>4, <2>1
    <3> QED BY <1>2, <1>4, <1>6, <2>1, <3>1, RowGoes
  <2> QED BY <2>4, <2>7, <2>8
<1>10. CASE ~row
  <2>1. w = v BY <1>10
  <2>2. SameRest(v, w) /\ Listed(w) BY <1>5, <2>1 DEF SameRest, SameMaps, SameTrail
  <2>3. Entries(w) = (E \ {d}) \cup {e} BY <1>5, <2>1
  <2> HIDE DEF w
  <2>4. Let(s, k, tid) /\ Entries(k) = (E \ {d}) \cup {e} BY <1>5, <2>2, <2>3, KeptIs
  <2> HIDE DEF k
  <2>5. e \in Entries(k) /\ Listed(k) BY <2>4 DEF Let
  <2>6. Index(k, id) # 0 /\ EntryOf(k, id) = e BY <1>4, <2>5, Found
  <2>7. group <=> d.block.kind = "group" BY <1>4, <2>6 DEF EntryOf
  <2> DEFINE f == [e EXCEPT !.done = TRUE]
  <2>8. IsEntry(f, s.next_id) /\ f.done /\ f.id = e.id /\ f.block = e.block
    BY <1>4, FinishedEntry
  <2>9. \/ t = k /\ d.block.kind = "group" /\ ~(e.block.closed /\ Still(e))
        \/ t = finish(k, id) /\ Still(e) /\ (d.block.kind = "group" => e.block.closed)
    <3>1. CASE group
      BY <1>1, <2>6, <2>7, <3>1 DEF finish_group_if_done
    <3>2. CASE ~group
      BY <1>1, <1>4, <2>7, <3>2
    <3> QED BY <3>1, <3>2
  <2>10. \E c : /\ Let(s, t, tid) /\ Entries(t) = (E \ {d}) \cup {c}
                /\ IsEntry(c, s.next_id) /\ c.id = e.id /\ c.block = e.block
                /\ c.done => Still(e) /\ (d.block.kind = "group" => e.block.closed)
                /\ ~c.done => d.block.kind = "group" /\ ~(e.block.closed /\ Still(e))
    <3>1. CASE t = k /\ d.block.kind = "group" /\ ~(e.block.closed /\ Still(e))
      BY <1>4, <2>4, <3>1
    <3>2. CASE t = finish(k, id) /\ Still(e) /\ (d.block.kind = "group" => e.block.closed)
      <4>1. t = finish(k, e.id) BY <1>4, <3>2
      <4>2. Let(s, t, tid) /\ Entries(t) = (Entries(k) \ {e}) \cup {f}
        BY <2>4, <2>5, <2>8, <4>1, LetFinish
      <4>3. Entries(t) = (E \ {d}) \cup {f} BY <1>8, <2>4, <4>2
      <4> HIDE DEF f
      <4> QED BY <2>8, <3>2, <4>2, <4>3
    <3> QED BY <2>9, <3>1, <3>2
  <2>11. PICK c : /\ Let(s, t, tid) /\ Entries(t) = (E \ {d}) \cup {c}
                  /\ IsEntry(c, s.next_id) /\ c.id = e.id /\ c.block = e.block
                  /\ c.done => Still(e) /\ (d.block.kind = "group" => e.block.closed)
                  /\ ~c.done => d.block.kind = "group" /\ ~(e.block.closed /\ Still(e))
    BY <2>10
  <2>12. Still(c) <=> Still(e) BY <2>11 DEF Still
  <2>13. Tidy(c)
    <3>1. c.done => Still(c) BY <2>11, <2>12
    <3>2. c.block.kind \in {"tool", "group"} BY <1>4, <2>11
    <3>3. c.block.kind = "tool" => Len(c.block.run) = 1 /\ c.done BY <1>4, <2>11
    <3>4. c.block.kind = "group" /\ c.block.closed /\ Still(c) => c.done
      BY <1>4, <2>11, <2>12
    <3> QED BY <3>1, <3>2, <3>3, <3>4 DEF Tidy
  <2>14. Owners((E \ {d}) \cup {c}, s.streams, Without(s.tools, {tid}), s.reasoning, s.open_group,
                s.plan_rows)
    <3> HIDE DEF E
    <3>1. c.id = d.id /\ c.block.kind = d.block.kind /\ c.block.closed = d.block.closed
          /\ c.block.run = [d.block.run EXCEPT ![at] = status]
      BY <1>4, <2>11
    <3>2. c.done => Still(c) /\ (d.block.kind = "group" => d.block.closed)
      BY <1>4, <2>11, <2>12
    <3>3. status # "running" OBVIOUS
    <3> QED BY <1>2, <1>4, <1>6, <1>7, <3>1, <3>2, <3>3, ToolEnds
  <2> QED BY <2>11, <2>13, <2>14
<1> QED BY <1>9, <1>10

StoppedRun(run) == [i \in DOMAIN run |-> IF run[i] = "running" THEN "stopped" ELSE run[i]]

(* What ran is stopped, and nothing runs.                                   *)
LEMMA StoppedRunIs ==
  ASSUME NEW run \in Seq(Statuses)
  PROVE  /\ StoppedRun(run) \in Seq(Statuses) /\ Len(StoppedRun(run)) = Len(run)
         /\ "running" \notin Range(StoppedRun(run))
         /\ run = <<>> => StoppedRun(run) = <<>>
<1> DEFINE r == StoppedRun(run)
<1>1. Len(run) \in Nat /\ DOMAIN run = 1..Len(run) /\ \A i \in 1..Len(run) : run[i] \in Statuses
  OBVIOUS
<1>2. r = [i \in 1..Len(run) |-> IF run[i] = "running" THEN "stopped" ELSE run[i]]
  BY <1>1 DEF StoppedRun
<1>3. \A i \in 1..Len(run) : r[i] \in Statuses /\ r[i] # "running" BY <1>1, <1>2 DEF Statuses
<1>4. r \in [1..Len(run) -> Statuses] BY <1>2, <1>3
<1>5. r \in Seq(Statuses) /\ DOMAIN r = 1..Len(run) BY <1>1, <1>4
<1>6. Len(r) = Len(run) BY <1>1, <1>5
<1>7. "running" \notin Range(r) BY <1>3, <1>5 DEF Range
<1>8. run = <<>> => r = <<>>
  <2> HAVE run = <<>>
  <2>1. Len(r) = 0 BY <1>6
  <2> HIDE DEF r
  <2> QED BY <2>1, <1>5
<1> QED BY <1>5, <1>6, <1>7, <1>8

(* Stop: the entry is done and still.                                       *)
LEMMA StopIs ==
  ASSUME NEW n, NEW e, IsEntry(e, n), Tidy(e)
  PROVE  LET f == Stop(e) IN
         /\ IsEntry(f, n) /\ Tidy(f) /\ f.done /\ Still(f)
         /\ f.id = e.id /\ f.block.kind = e.block.kind
<1> DEFINE run == StoppedRun(e.block.run)
           closed == e.block.kind = "group"
           f == [e EXCEPT !.done = TRUE, !.block.closed = closed, !.block.run = run]
<1>1. Stop(e) = f BY DEF Stop, StoppedRun
<1>2. /\ run \in Seq(Statuses) /\ Len(run) = Len(e.block.run)
      /\ "running" \notin Range(run) /\ (e.block.run = <<>> => run = <<>>)
  BY StoppedRunIs DEF IsEntry
<1>3. closed \in BOOLEAN OBVIOUS
<1> HIDE DEF run, closed
<1>4. /\ DOMAIN f = {"id", "of", "done", "block"}
      /\ f.id = e.id /\ f.of = e.of /\ f.done
  BY DEF IsEntry
<1>5. DOMAIN f.block = {"kind", "text", "run", "closed", "label"}
      /\ f.block.run = run /\ f.block.kind = e.block.kind
  BY DEF IsEntry
<1>6. f.block.closed \in BOOLEAN BY <1>3 DEF IsEntry
<1>7. f.done \in BOOLEAN BY DEF IsEntry
<1> HIDE DEF f
<1>8. Still(f) BY <1>2, <1>5 DEF Still
<1>9. IsEntry(f, n) BY <1>2, <1>4, <1>5, <1>6, <1>7 DEF IsEntry
<1>10. Tidy(f)
  <2>1. f.block.kind \notin {"tool", "group"} => f.block.run = <<>> BY <1>2, <1>5 DEF Tidy
  <2>2. f.block.kind = "tool" => Len(f.block.run) = 1 BY <1>2, <1>5 DEF Tidy
  <2> QED BY <1>4, <1>8, <2>1, <2>2 DEF Tidy
<1> QED BY <1>1, <1>4, <1>5, <1>8, <1>9, <1>10

(* Drop: a part of the entries, still a list.                               *)
LEMMA DropAll ==
  ASSUME NEW v, Listed(v), NEW ids
  PROVE  LET t == Drop(v, ids) IN
         Listed(t) /\ SameRest(v, t) /\ Entries(t) \subseteq Entries(v)
<1> DEFINE K == {e \in Range(v.entries) : e.id \notin ids}
           q == Keeping(v.entries, K)
           t == [v EXCEPT !.entries = q]
<1>1. DOMAIN v = Fields /\ IsList(v.entries) /\ IdsApart(v.entries) BY DEF Listed
<1>3. Drop(v, ids) = t BY DEF Drop
<1> HIDE DEF K
<1>2. IsList(q) /\ IdsApart(q) /\ Range(q) = Range(v.entries) \cap K BY <1>1, KeepList
<1> HIDE DEF q
<1>5. DOMAIN t = Fields /\ t.entries = q /\ SameRest(v, t)
  BY <1>1 DEF Fields, SameRest, SameMaps, SameTrail
<1> HIDE DEF t
<1>6. Listed(t) BY <1>2, <1>5 DEF Listed
<1>7. Entries(t) \subseteq Entries(v) BY <1>2, <1>5 DEF Entries
<1> QED BY <1>3, <1>5, <1>6, <1>7

(* The turn's end: everything is stopped, and no map names an entry.        *)
Stilled(r) ==
  [r EXCEPT !.entries = [i \in DOMAIN @ |-> Stop(@[i])],
            !.plan_rows = {}, !.open_group = NoGroup,
            !.streams = <<>>, !.tools = <<>>, !.phase_busy = FALSE,
            !.plan = "none", !.beads = <<>>, !.by_tool = <<>>, !.busy_since = FALSE]

(* The fields of a session that was settled.                                *)
LEMMA StilledIs ==
  ASSUME NEW r, DOMAIN r = Fields
  PROVE  LET t == Stilled(r) IN
         /\ DOMAIN t = Fields /\ t.entries = [i \in DOMAIN r.entries |-> Stop(r.entries[i])]
         /\ t.plan_rows = {} /\ t.open_group = NoGroup
         /\ t.streams = <<>> /\ t.tools = <<>>
         /\ t.beads = <<>> /\ t.by_tool = <<>>
         /\ t.reasoning = r.reasoning /\ t.next_id = r.next_id
<1> DEFINE q == [i \in DOMAIN r.entries |-> Stop(r.entries[i])]
           t == Stilled(r)
<1>0. t = [r EXCEPT !.entries = q, !.plan_rows = {}, !.open_group = NoGroup,
                    !.streams = <<>>, !.tools = <<>>, !.phase_busy = FALSE,
                    !.plan = "none", !.beads = <<>>, !.by_tool = <<>>, !.busy_since = FALSE]
  BY DEF Stilled
<1> HIDE DEF q, t
<1>7. DOMAIN t = Fields /\ t.entries = q BY <1>0 DEF Fields
<1>8. t.plan_rows = {} /\ t.open_group = NoGroup BY <1>0 DEF Fields
<1>9. t.streams = <<>> /\ t.tools = <<>> BY <1>0 DEF Fields
<1>10. t.beads = <<>> /\ t.by_tool = <<>> BY <1>0 DEF Fields
<1>11. t.reasoning = r.reasoning BY <1>0 DEF Fields
<1>12. t.next_id = r.next_id BY <1>0 DEF Fields
<1> QED BY <1>7, <1>8, <1>9, <1>10, <1>11, <1>12 DEF q, t

(* ... so that no map names an entry, and every entry is done.              *)
LEMMA StillSound ==
  ASSUME NEW s, Sound(s)
  PROVE  LET t == Stilled(Drop(s, s.plan_rows)) IN
         Sound(t) /\ Trailed(t) /\ DOMAIN t.streams = {} /\ DOMAIN t.tools = {}
<1> DEFINE r == Drop(s, s.plan_rows)
           q == [i \in DOMAIN r.entries |-> Stop(r.entries[i])]
           t == Stilled(r)
<1>1. Listed(s) /\ DOMAIN s = Fields /\ \A e \in Entries(s) : IsEntry(e, s.next_id) /\ Tidy(e)
  BY SoundParts
<1>2. Listed(r) /\ SameRest(s, r) /\ Entries(r) \subseteq Entries(s) BY <1>1, DropAll
<1> HIDE DEF r
<1>3. \A e \in Entries(r) : LET f == Stop(e) IN
        /\ IsEntry(f, s.next_id) /\ Tidy(f) /\ f.done /\ Still(f)
        /\ f.id = e.id /\ f.block.kind = e.block.kind
  <2> SUFFICES ASSUME NEW e \in Entries(r)
               PROVE  LET f == Stop(e) IN
                      /\ IsEntry(f, s.next_id) /\ Tidy(f) /\ f.done /\ Still(f)
                      /\ f.id = e.id /\ f.block.kind = e.block.kind
    OBVIOUS
  <2>1. IsEntry(e, s.next_id) /\ Tidy(e) BY <1>1, <1>2
  <2> QED BY <2>1, StopIs
<1>4. IsList(r.entries) /\ IdsApart(r.entries) /\ DOMAIN r = Fields BY <1>2 DEF Listed
<1>5. \A e \in Range(r.entries) : Stop(e).id = e.id BY <1>3 DEF Entries
<1>6. IsList(q) /\ IdsApart(q) /\ Range(q) = {Stop(e) : e \in Entries(r)}
  BY <1>4, <1>5, StopList DEF Entries
<1> HIDE DEF q, t
<1>7. /\ DOMAIN t = Fields /\ t.entries = q
      /\ t.plan_rows = {} /\ t.open_group = NoGroup
      /\ t.streams = <<>> /\ t.tools = <<>>
      /\ t.beads = <<>> /\ t.by_tool = <<>>
      /\ t.reasoning = s.reasoning /\ t.next_id = s.next_id
  BY <1>2, <1>4, StilledIs DEF SameRest, SameMaps, t, q
<1>12. Listed(t) /\ Entries(t) = {Stop(e) : e \in Entries(r)}
  BY <1>6, <1>7 DEF Listed, Entries
<1>13. \A f \in Entries(t) : f.done /\ Still(f) /\ IsEntry(f, s.next_id) /\ Tidy(f)
  <2> SUFFICES ASSUME NEW f \in Entries(t)
               PROVE  f.done /\ Still(f) /\ IsEntry(f, s.next_id) /\ Tidy(f)
    OBVIOUS
  <2>1. PICK e \in Entries(r) : f = Stop(e) BY <1>12
  <2> QED BY <1>3, <2>1
<1>14. \A f \in Entries(t) : \E e \in Entries(s) : f.id = e.id /\ f.block.kind = e.block.kind
  <2> SUFFICES ASSUME NEW f \in Entries(t)
               PROVE  \E e \in Entries(s) : f.id = e.id /\ f.block.kind = e.block.kind
    OBVIOUS
  <2>1. PICK e \in Entries(r) : f = Stop(e) BY <1>12
  <2> QED BY <1>2, <1>3, <2>1
<1>15. Owners(Entries(t), <<>>, <<>>, s.reasoning, NoGroup, {})
  <2>1. Owners(Entries(s), s.streams, s.tools, s.reasoning, s.open_group, s.plan_rows)
    BY DEF Sound, Owned
  <2> QED BY <1>13, <1>14, <2>1, AllSettled
<1>16. Owned(t) BY <1>7, <1>15 DEF Owned
<1>17. DOMAIN t.streams = {} /\ DOMAIN t.tools = {} BY <1>7
<1>18. Keyed(t) BY <1>7, <1>17 DEF Sound, Keyed
<1>19. Sound(t) BY <1>7, <1>12, <1>13, <1>16, <1>18, FewerSound
<1>20. Trailed(t)
  <2>1. IsList(<<>>) /\ Len(<<>>) = 0 /\ DOMAIN <<>> = {} BY DEF IsList, Range
  <2> QED BY <1>7, <2>1, TurnAssumption DEF Trailed
<1> QED BY <1>17, <1>19, <1>20 DEF t, r

(* A block that is done is pushed on a session that has come to rest.       *)
AtRest(t) == Sound(t) /\ Trailed(t) /\ DOMAIN t.streams = {} /\ DOMAIN t.tools = {}

(* push, on a session at rest.                                              *)
LEMMA PushAtRest ==
  ASSUME NEW s, AtRest(s), NEW kind \in {"notice", "plan", "table"}
  PROVE  AtRest(push(s, Block(kind), TRUE))
<1> DEFINE t == push(s, Block(kind), TRUE)
<1>1. Sound(t) /\ SameKeys(s, t) /\ SameTrail(s, t) BY PushDoneSound DEF AtRest
<1> HIDE DEF t
<1>2. Trailed(t) BY <1>1, SameTrailed DEF AtRest
<1>3. AtRest(t) BY <1>1, <1>2 DEF AtRest, SameKeys
<1> QED BY <1>3 DEF t

(* settle: nothing is owned, whatever notices follow.                       *)
LEMMA SettleRests ==
  ASSUME NEW s, Sound(s)
  PROVE  AtRest(settle(s, TRUE)) /\ AtRest(settle(s, FALSE))
<1> DEFINE still == Stilled(Drop(s, s.plan_rows))
           row  == push(still, Block("plan"), TRUE)
           plan == IF s.plan = "unfinished" THEN row ELSE still
<1>1. AtRest(still) BY StillSound DEF AtRest
<1>2. settle(s, FALSE) = still BY DEF settle, Stilled
<1>3. settle(s, TRUE) = IF is_busy(s) THEN Notice(plan) ELSE plan BY DEF settle, Stilled
<1> HIDE DEF still
<1>4. AtRest(row) BY <1>1, PushAtRest
<1> HIDE DEF row
<1>5. AtRest(plan) BY <1>1, <1>4
<1> HIDE DEF plan
<1>6. AtRest(Notice(plan)) BY <1>5, PushAtRest DEF Notice
<1> QED BY <1>1, <1>2, <1>3, <1>5, <1>6

(* Entries that are done may go from a session.                             *)
LEMMA FewerEntries ==
  ASSUME NEW s, Sound(s), NEW t, DOMAIN t = Fields, IsList(t.entries), IdsApart(t.entries),
         Entries(t) \subseteq Entries(s), \A e \in Entries(s) : ~e.done => e \in Entries(t),
         t.next_id = s.next_id, SameMaps(s, t)
  PROVE  Sound(t)
<1>1. Owners(Entries(s), s.streams, s.tools, s.reasoning, s.open_group, s.plan_rows)
  BY DEF Sound, Owned
<1>2. Owners(Entries(t), s.streams, s.tools, s.reasoning, s.open_group, s.plan_rows)
  BY <1>1, DoneMayGo
<1>3. Owned(t) /\ Keyed(t) /\ t.plan_rows = s.plan_rows /\ t.reasoning = s.reasoning
  BY <1>2 DEF Owned, Sound, Keyed, SameMaps
<1>4. Listed(t) BY DEF Listed
<1> QED BY <1>3, <1>4, FewerSound

(* TranscriptCleared: what is not done stays, so every owner keeps its      *)
(* entry.                                                                   *)
LEMMA ClearedSound ==
  ASSUME NEW s, Sound(s), NEW t, NEW said, NEW printed,
         t = [s EXCEPT !.entries = Keeping(s.entries, {e \in Range(s.entries) : ~e.done}),
                       !.plan = "none", !.said = said, !.printed = printed]
  PROVE  Sound(t) /\ SameMaps(s, t) /\ SameTrail(s, t)
<1> DEFINE K == {e \in Range(s.entries) : ~e.done}
           q == Keeping(s.entries, K)
<1>1. DOMAIN s = Fields /\ IsList(s.entries) /\ IdsApart(s.entries) BY SoundParts DEF Listed
<1>2. t = [s EXCEPT !.entries = q, !.plan = "none", !.said = said, !.printed = printed] OBVIOUS
<1>k. \A e \in Range(s.entries) : e \in K <=> ~e.done OBVIOUS
<1> HIDE DEF K
<1>3. IsList(q) /\ IdsApart(q) /\ Range(q) = Range(s.entries) \cap K BY <1>1, KeepList
<1> HIDE DEF q
<1>4. DOMAIN t = Fields /\ t.entries = q /\ t.next_id = s.next_id
      /\ SameMaps(s, t) /\ SameTrail(s, t)
  BY <1>1, <1>2 DEF Fields, SameMaps, SameTrail
<1>5. Entries(t) \subseteq Entries(s) /\ \A e \in Entries(s) : ~e.done => e \in Entries(t)
  BY <1>3, <1>4, <1>k DEF Entries
<1>6. Sound(t) BY <1>3, <1>4, <1>5, FewerEntries
<1> QED BY <1>4, <1>6

SameSession(s, t) == Sound(t) /\ SameMaps(s, t) /\ SameTrail(s, t)

(* A reply is split: its head is a new entry that is done, its tail stays.  *)
IsHead(a, d, n) ==
  /\ DOMAIN a = {"id", "of", "done", "block"} /\ a.id = n /\ a.of = d.id
  /\ a.done /\ a.done \in BOOLEAN
  /\ DOMAIN a.block = {"kind", "text", "run", "closed", "label"}
  /\ a.block.kind = d.block.kind /\ a.block.run = d.block.run /\ a.block.closed \in BOOLEAN

IsTail(b, d, n) ==
  /\ IsEntry(b, n) /\ b.done = d.done /\ b.id = d.id /\ b.block.kind = d.block.kind
  /\ b.block.run = d.block.run /\ b.block.closed = d.block.closed

(* The head of a reply that is split, as an entry.                          *)
LEMMA HeadIs ==
  ASSUME NEW n, NEW d, IsEntry(d, n), NEW head
  PROVE  IsHead([id |-> n, of |-> d.id, done |-> TRUE, block |-> [d.block EXCEPT !.text = head]],
                d, n)
<1> DEFINE block == [d.block EXCEPT !.text = head]
           a == [id |-> n, of |-> d.id, done |-> TRUE, block |-> block]
<1>1. /\ DOMAIN block = {"kind", "text", "run", "closed", "label"}
      /\ block.kind = d.block.kind /\ block.run = d.block.run /\ block.closed \in BOOLEAN
  BY DEF IsEntry
<1> HIDE DEF block
<1>2. /\ DOMAIN a = {"id", "of", "done", "block"} /\ a.id = n /\ a.of = d.id /\ a.done
      /\ a.done \in BOOLEAN /\ a.block = block
  OBVIOUS
<1> HIDE DEF a
<1>3. IsHead(a, d, n) BY <1>1, <1>2 DEF IsHead
<1> QED BY <1>3 DEF a, block

(* The first entry gives way to its head, done, and its tail, open as it    *)
(* was.                                                                     *)
LEMMA HeadSound ==
  ASSUME NEW s, Sound(s), s.entries # <<>>, NEW d, d = s.entries[1], d.block.kind = "reply",
         NEW a, IsHead(a, d, s.next_id), NEW b, IsTail(b, d, s.next_id),
         NEW t, DOMAIN t = Fields, t.entries = <<a, b>> \o Tail(s.entries),
         t.next_id = s.next_id + 1, SameMaps(s, t), SameTrail(s, t)
  PROVE  SameSession(s, t)
<1> DEFINE q == s.entries
           n == s.next_id
           E == Entries(s)
           r == <<a, b>> \o Tail(q)
           m == n + 1
<1>1. /\ Listed(s) /\ OneId(E) /\ DOMAIN s = Fields /\ n \in Nat
      /\ \A c \in E : IsEntry(c, n) /\ Tidy(c)
  BY SoundParts
<1>2. IsList(q) /\ IdsApart(q) BY <1>1 DEF Listed
<1>3. d \in E
  <2>1. DOMAIN q = 1..Len(q) /\ Len(q) \in Nat /\ \A i \in 1..Len(q) : q[i] \in Range(q)
    BY <1>2, ListIs
  <2>2. Len(q) # 0 BY <1>2 DEF IsList
  <2>3. 1 \in 1..Len(q) BY <2>1, <2>2
  <2> QED BY <2>1, <2>3 DEF Entries
<1>4. IsEntry(d, n) /\ Tidy(d) BY <1>1, <1>3
<1>5. d.block.run = <<>> BY <1>4 DEF Tidy
<1>6. /\ IsEntry(b, n) /\ b.done = d.done /\ b.id = d.id /\ b.block.kind = d.block.kind
      /\ b.block.run = d.block.run /\ b.block.closed = d.block.closed
  BY DEF IsTail
<1>70. d.id \in 1..(n - 1) /\ d.block.kind \in BlockKinds /\ d.block.run \in Seq(Statuses)
  BY <1>4 DEF IsEntry
<1>71. a.id = n /\ a.done /\ a.block.kind = d.block.kind /\ a.block.run = d.block.run
  BY DEF IsHead
<1>72. n \in Nat \ {0} BY DEF Sound, Numbered
<1>73. n \in 1..(m - 1) /\ d.id \in 1..(m - 1) BY <1>70, <1>72
<1>8. IsEntry(a, m)
  <2> HIDE DEF m
  <2> QED BY <1>70, <1>73 DEF IsEntry, IsHead
<1>9. \A c \in E : c.id # a.id
  <2>1. \A c \in E : c.id \in 1..(n - 1) BY <1>1 DEF IsEntry
  <2> QED BY <1>71, <1>72, <2>1
<1>10. a.id \notin s.plan_rows /\ \A sid \in DOMAIN s.reasoning : s.reasoning[sid] # a.id
  <2>1. n \notin 1..(n - 1) BY <1>72
  <2> QED BY <1>71, <2>1 DEF Sound, Numbered
<1>11. IsList(r) /\ IdsApart(r) /\ Range(r) = (Range(q) \ {d}) \cup {a, b}
  <2>1. \A c \in Range(q) : c.id # a.id BY <1>9 DEF Entries
  <2>2. b.id = q[1].id BY <1>6
  <2> QED BY <1>2, <2>1, <2>2, SplitList
<1> HIDE DEF r, m
<1>12. /\ DOMAIN t = Fields /\ t.entries = r /\ t.next_id = m
       /\ SameMaps(s, t) /\ SameTrail(s, t)
  BY DEF r, m
<1>13. Listed(t) /\ Entries(t) = (E \ {d}) \cup {a, b} BY <1>11, <1>12 DEF Listed, Entries
<1>14. Owned(t)
  <2> HIDE DEF E
  <2>1. Owners(E, s.streams, s.tools, s.reasoning, s.open_group, s.plan_rows)
    BY DEF Sound, Owned, E
  <2>2. Owners((E \ {d}) \cup {b}, s.streams, s.tools, s.reasoning, s.open_group, s.plan_rows)
    BY <1>1, <1>3, <1>6, <2>1, SwapText
  <2> DEFINE F == (E \ {d}) \cup {b}
  <2>4. F \cup {a} = (E \ {d}) \cup {a, b} OBVIOUS
  <2>5. Owners(F, s.streams, s.tools, s.reasoning, s.open_group, s.plan_rows) BY <2>2
  <2>6. a.block.run = <<>> BY <1>5, <1>71
  <2> HIDE DEF F
  <2>3. Owners(F \cup {a}, s.streams, s.tools, s.reasoning, s.open_group, s.plan_rows)
    BY <1>10, <1>71, <2>5, <2>6, DoneIsAdded
  <2> QED BY <1>12, <1>13, <2>3, <2>4 DEF Owned, SameMaps, F
<1>15. \A c \in Entries(t) : IsEntry(c, m) /\ Tidy(c)
  <2>1. \A c \in E : IsEntry(c, m) /\ Tidy(c) BY <1>1, LaterEntry DEF m
  <2>2. IsEntry(b, m) BY <1>1, <1>6, LaterEntry DEF m
  <2>3. b.block.run = <<>> /\ b.block.kind = "reply" BY <1>5, <1>6
  <2>4. Tidy(b) BY <2>3, PlainTidy
  <2>5. a.block.run = <<>> /\ a.block.kind = "reply" BY <1>5, <1>71
  <2>6. Tidy(a) BY <2>5, PlainTidy
  <2> QED BY <1>8, <1>13, <2>1, <2>2, <2>4, <2>6
<1>16. Numbered(t)
  <2>1. m \in Nat \ {0} /\ 1..(n - 1) \subseteq 1..(m - 1) BY <1>72 DEF m
  <2> QED BY <1>12, <2>1 DEF Sound, Numbered, SameMaps
<1>17. Keyed(t) BY <1>12 DEF Sound, Keyed, SameMaps
<1>18. Sound(t) BY <1>12, <1>13, <1>14, <1>15, <1>16, <1>17 DEF Sound
<1> QED BY <1>12, <1>18 DEF SameSession

(* split_streaming_paragraphs: the session stays sound, and its maps the    *)
(* same.                                                                    *)
LEMMA SplitSound ==
  ASSUME NEW s, Sound(s)
  PROVE  SameSession(s, split_streaming_paragraphs(s))
<1> DEFINE t == split_streaming_paragraphs(s)
           first == Head(s.entries)
           text  == first.block.text
           at   == paragraph_split(text)
           head == SubSeq(text, 1, at)
           tail == Trimmed(SubSeq(text, at + 1, Len(text)))
           consumed == SubSeq(text, 1, Len(text) - Len(tail))
           prefix == With(s.printed_prefix, first.id,
                          Look(s.printed_prefix, first.id, <<>>) \o consumed)
           a == [id |-> s.next_id, of |-> first.id, done |-> TRUE,
                 block |-> [first.block EXCEPT !.text = head]]
           b == [first EXCEPT !.block.text = tail]
<1>1. CASE t = s BY <1>1 DEF SameSession, SameMaps, SameTrail
<1>2. CASE t # s
  <2>1. /\ s.entries # <<>> /\ ~first.done /\ first.block.kind = "reply"
        /\ t = [s EXCEPT !.entries = <<a, b>> \o Tail(s.entries), !.next_id = s.next_id + 1,
                         !.printed_prefix = prefix]
    BY <1>2 DEF split_streaming_paragraphs
  <2> DEFINE q == <<a, b>> \o Tail(s.entries)
             m == s.next_id + 1
  <2>2. t = [s EXCEPT !.entries = q, !.next_id = m, !.printed_prefix = prefix] BY <2>1
  <2>3. DOMAIN s = Fields /\ Listed(s) /\ \A e \in Entries(s) : IsEntry(e, s.next_id)
    BY SoundParts
  <2>4. IsEntry(first, s.next_id) /\ first = s.entries[1]
    <3>1. IsList(s.entries) BY <2>3 DEF Listed
    <3>2. DOMAIN s.entries = 1..Len(s.entries) /\ Len(s.entries) \in Nat
          /\ \A i \in 1..Len(s.entries) : s.entries[i] \in Range(s.entries)
      BY <3>1, ListIs
    <3>3. Len(s.entries) # 0 BY <2>1, <3>1 DEF IsList
    <3>4. 1 \in 1..Len(s.entries) BY <3>2, <3>3
    <3>5. first = s.entries[1] OBVIOUS
    <3> QED BY <2>3, <3>2, <3>4, <3>5 DEF Entries
  <2> HIDE DEF t, head, tail, prefix, first
  <2>5. IsHead(a, first, s.next_id) BY <2>4, HeadIs
  <2>6. IsTail(b, first, s.next_id) BY <2>4, RewordedEntry DEF IsTail
  <2> HIDE DEF a, b
  <2> HIDE DEF q, m
  <2>7. /\ DOMAIN t = Fields /\ t.entries = q /\ t.next_id = m
        /\ SameMaps(s, t) /\ SameTrail(s, t)
    BY <2>2, <2>3 DEF Fields, SameMaps, SameTrail
  <2>8. SameSession(s, t) BY <2>1, <2>4, <2>5, <2>6, <2>7, HeadSound DEF q, m
  <2> QED BY <2>8 DEF t
<1> QED BY <1>1, <1>2

(* Leading entries that are done go: what is not done stays.                *)
LEMMA ReadyIs ==
  ASSUME NEW q, IsList(q)
  PROVE  LET undone == {i \in DOMAIN q : ~q[i].done}
             ready == IF undone = {} THEN Len(q) ELSE Min(undone) - 1
         IN ready \in 0..Len(q) /\ \A i \in 1..ready : q[i].done
<1> DEFINE undone == {i \in DOMAIN q : ~q[i].done}
           ready == IF undone = {} THEN Len(q) ELSE Min(undone) - 1
<1>1. Len(q) \in Nat /\ DOMAIN q = 1..Len(q) BY ListIs
<1>2. CASE undone = {}
  <2>1. \A i \in 1..Len(q) : q[i].done BY <1>1, <1>2
  <2> QED BY <1>1, <1>2, <2>1
<1>3. CASE undone # {}
  <2>1. undone \in SUBSET Nat BY <1>1
  <2>2. \E m \in undone : \A x \in undone : m <= x
    <3> HIDE DEF undone
    <3> QED BY <1>3, <2>1, MinOf
  <2>3. Min(undone) \in undone /\ \A x \in undone : Min(undone) <= x BY <2>2 DEF Min
  <2> DEFINE m == Min(undone)
  <2>4. m \in 1..Len(q) /\ \A i \in 1..Len(q) : i < m => q[i].done
    <3> HIDE DEF m
    <3>1. m \in 1..Len(q) BY <1>1, <2>3 DEF m
    <3>2. ASSUME NEW i \in 1..Len(q), i < m PROVE q[i].done
      <4>1. i \notin undone
        <5>1. ~(m <= i) BY <3>1, <3>2
        <5> QED BY <2>3, <5>1 DEF m
      <4> QED BY <1>1, <4>1
    <3> QED BY <3>1, <3>2
  <2> HIDE DEF m, undone
  <2>5. ready = m - 1 BY <1>3 DEF m
  <2> HIDE DEF ready
  <2>6. m - 1 \in 0..Len(q) /\ \A i \in 1..(m - 1) : q[i].done
    <3>1. m \in Nat \ {0} /\ m <= Len(q) BY <1>1, <2>4
    <3>2. m - 1 \in 0..Len(q) BY <1>1, <3>1
    <3>3. ASSUME NEW i \in 1..(m - 1) PROVE q[i].done
      <4>1. i \in 1..Len(q) /\ i < m BY <1>1, <3>1, <3>3
      <4> QED BY <2>4, <4>1
    <3> QED BY <3>2, <3>3
  <2>7. ready \in 0..Len(q) /\ \A i \in 1..ready : q[i].done BY <2>5, <2>6
  <2> QED BY <2>7 DEF ready, undone
<1> QED BY <1>2, <1>3

(* take_history: only entries that are done leave.                          *)
LEMMA TakeSound ==
  ASSUME NEW s, Sound(s)
  PROVE  LET t == take_history(s) IN Sound(t) /\ SameMaps(s, t) /\ SameTrail(s, t)
<1> DEFINE u == split_streaming_paragraphs(s)
           q == u.entries
           undone == {i \in DOMAIN q : ~q[i].done}
           ready == IF undone = {} THEN Len(q) ELSE Min(undone) - 1
           printed == PrintEntries(u.printed, SubSeq(q, 1, ready))
           rest == SubSeq(q, ready + 1, Len(q))
           t == [u EXCEPT !.printed = printed, !.entries = rest]
<1>1. take_history(s) = t BY DEF take_history
<1>2. Sound(u) /\ SameMaps(s, u) /\ SameTrail(s, u) BY SplitSound DEF SameSession
<1> HIDE DEF u
<1>3. DOMAIN u = Fields /\ IsList(q) /\ IdsApart(q) BY <1>2, SoundParts DEF Listed
<1>4. ready \in 0..Len(q) /\ \A i \in 1..ready : q[i].done BY <1>3, ReadyIs
<1> HIDE DEF ready
<1>5. IsList(rest) /\ IdsApart(rest) /\ Range(rest) = {q[i] : i \in (ready + 1)..Len(q)}
  BY <1>3, <1>4, RestList
<1> HIDE DEF rest, printed
<1>6. /\ DOMAIN t = Fields /\ t.entries = rest /\ t.next_id = u.next_id
      /\ SameMaps(u, t) /\ SameTrail(u, t)
  BY <1>3 DEF Fields, SameMaps, SameTrail
<1> HIDE DEF t
<1>7. /\ Entries(t) \subseteq Entries(u)
      /\ \A e \in Entries(u) : ~e.done => e \in Entries(t)
  <2>1. DOMAIN q = 1..Len(q) /\ Len(q) \in Nat BY <1>3, ListIs
  <2>2. Range(rest) \subseteq Range(q)
    <3>1. \A i \in (ready + 1)..Len(q) : i \in DOMAIN q BY <1>4, <2>1
    <3> QED BY <1>5, <3>1 DEF Range
  <2>3. ASSUME NEW e \in Range(q), ~e.done PROVE e \in Range(rest)
    <3>1. PICK i \in DOMAIN q : q[i] = e BY DEF Range
    <3>2. i \notin 1..ready BY <1>4, <2>3, <3>1
    <3>3. i \in (ready + 1)..Len(q) BY <1>4, <2>1, <3>2
    <3> QED BY <1>5, <3>1, <3>3
  <2> QED BY <1>6, <2>2, <2>3 DEF Entries
<1>8. Sound(t) BY <1>2, <1>5, <1>6, <1>7, FewerEntries
<1>9. SameMaps(s, t) /\ SameTrail(s, t) BY <1>2, <1>6 DEF SameMaps, SameTrail
<1> QED BY <1>1, <1>8, <1>9

Sane(s, open) ==
  Sound(s) /\ Trailed(s) /\ DOMAIN s.streams \subseteq open /\ DOMAIN s.tools \subseteq open

(* The inductive invariant.                                                 *)
TurnInv ==
  /\ Sane(ses, host.open)
  /\ DOMAIN host = {"open", "over"}
  /\ host.open \subseteq StreamIds \cup ToolIds /\ host.over \in BOOLEAN

(* An event that leaves a sane session and a known host keeps the           *)
(* invariant.                                                               *)
LEMMA HostStep ==
  ASSUME NEW open, open \subseteq StreamIds \cup ToolIds, HostHas(open), Sane(ses', open)
  PROVE  TurnInv'
<1>1. DOMAIN host' = {"open", "over"} /\ host'.open = open /\ host'.over \in BOOLEAN
  BY DEF HostHas
<1> QED BY <1>1 DEF TurnInv

(* The maps are of streams and tools.                                       *)
LEMMA SaneKeyed ==
  ASSUME NEW s, NEW open, Sane(s, open)
  PROVE  DOMAIN s.streams \subseteq StreamIds /\ DOMAIN s.tools \subseteq ToolIds
BY DEF Sane, Sound, Keyed

(* A sound session with the same maps and trail is sane.                    *)
LEMMA SaneSame ==
  ASSUME NEW s, NEW open, Sane(s, open), NEW t, Sound(t), SameMaps(s, t), SameTrail(s, t)
  PROVE  Sane(t, open)
<1>1. Trailed(t) BY SameTrailed DEF Sane
<1> QED BY <1>1 DEF Sane, SameMaps

(* The other fields do not matter.                                          *)
LEMMA SaneOther ==
  ASSUME NEW s, NEW open, Sane(s, open), NEW t, DOMAIN t = DOMAIN s, t.entries = s.entries,
         t.next_id = s.next_id, SameMaps(s, t), SameTrail(s, t)
  PROVE  Sane(t, open)
<1>1. Sound(t) BY SameSound DEF Sane
<1> QED BY <1>1, SaneSame

(* became_busy leaves a sane session.                                       *)
LEMMA SaneBusy ==
  ASSUME NEW s, NEW open, Sane(s, open)
  PROVE  Sane(became_busy(s), open)
<1> DEFINE t == became_busy(s)
<1>1. Sound(t) /\ Trailed(t) /\ SameMaps(s, t) BY BusySound DEF Sane
<1> HIDE DEF t
<1>2. Sane(t, open) BY <1>1 DEF Sane, SameMaps
<1> QED BY <1>2 DEF t

(* A session at rest names nothing that could be missing from the host's.   *)
LEMMA SaneAtRest ==
  ASSUME NEW s, AtRest(s), NEW open
  PROVE  Sane(s, open)
BY DEF AtRest, Sane

-----------------------------------------------------------------------------
(* What each event leaves is sane.                                          *)
LEMMA StartedSane ==
  ASSUME NEW s, NEW open, Sane(s, open), NEW sid \in StreamIds, sid \notin open
  PROVE  Sane(became_busy(OpenReply(s, sid)), open \cup {sid})
<1> DEFINE t == OpenReply(s, sid)
<1>1. sid \notin DOMAIN s.streams BY DEF Sane
<1>2. /\ Sound(t) /\ DOMAIN t.streams = DOMAIN s.streams \cup {sid} /\ t.tools = s.tools
      /\ SameTrail(s, t)
  BY <1>1, OpenReplySound DEF Sane
<1> HIDE DEF t
<1>3. Trailed(t) BY <1>2, SameTrailed DEF Sane
<1>4. Sane(t, open \cup {sid}) BY <1>2, <1>3 DEF Sane
<1>5. Sane(became_busy(t), open \cup {sid}) BY <1>4, SaneBusy
<1> QED BY <1>5 DEF t

(* AssistantTokenDelta.                                                     *)
LEMMA TokenSane ==
  ASSUME TurnInv, NEW sid \in StreamIds, NEW token, AssistantTokenDelta(sid, token)
  PROVE  TurnInv'
<1> DEFINE open == host.open
<1>1. Sound(ses) /\ Trailed(ses) /\ DOMAIN ses.streams \subseteq open
      /\ DOMAIN ses.tools \subseteq open /\ open \subseteq StreamIds \cup ToolIds
  BY DEF TurnInv, Sane
<1>2. sid \in open /\ HostHas(open) BY DEF AssistantTokenDelta
<1>3. /\ Sound(ses') /\ Trailed(ses')
      /\ DOMAIN ses'.streams = DOMAIN ses.streams \cup {sid} /\ ses'.tools = ses.tools
  <2>1. ses' = Told(ses, sid, token) BY DEF AssistantTokenDelta, Event, Told
  <2> QED BY <1>1, <2>1, TokenSound
<1>4. Sane(ses', open) BY <1>1, <1>2, <1>3 DEF Sane
<1> QED BY <1>1, <1>2, <1>4, HostStep

(* AssistantReasoningDelta: it goes in above its reply, or at the end.      *)
LEMMA ReasoningSane ==
  ASSUME TurnInv, NEW sid \in StreamIds, AssistantReasoningDelta(sid)
  PROVE  TurnInv'
<1> DEFINE open == host.open
           at == IF sid \in DOMAIN ses.streams THEN Index(ses, ses.streams[sid])
                                                ELSE Len(ses.entries) + 1
           late == sid \in DOMAIN ses.streams
                     /\ (at = 0 \/ ses.entries[at].block.text # <<>>)
           t == [ses EXCEPT
                  !.entries = InsertAt(@, at, NewEntry(ses, Block("reasoning"), FALSE)),
                  !.next_id = @ + 1,
                  !.reasoning = With(@, sid, ses.next_id)]
<1>1. Sane(ses, open) /\ open \subseteq StreamIds \cup ToolIds BY DEF TurnInv
<1>2. /\ HostHas(open)
      /\ ses' = IF sid \in DOMAIN ses.reasoning \/ late THEN ses ELSE became_busy(t)
  BY DEF AssistantReasoningDelta, Event
<1>3. CASE sid \in DOMAIN ses.reasoning \/ late
  <2>1. ses' = ses BY <1>2, <1>3
  <2> QED BY <1>1, <1>2, <2>1, HostStep
<1>4. CASE ~(sid \in DOMAIN ses.reasoning \/ late)
  <2>1. Listed(ses) BY <1>1, SoundParts DEF Sane
  <2>2. Len(ses.entries) \in Nat BY <2>1, ListIs DEF Listed
  <2>3. at \in 1..(Len(ses.entries) + 1)
    <3>1. CASE sid \in DOMAIN ses.streams
      <4>1. at # 0 /\ at = Index(ses, ses.streams[sid]) BY <1>4, <3>1
      <4>2. at \in 0..Len(ses.entries) BY <2>1, <4>1, IndexIs DEF Listed
      <4> QED BY <2>2, <4>1, <4>2
    <3>2. CASE sid \notin DOMAIN ses.streams BY <2>2, <3>2
    <3> QED BY <3>1, <3>2
  <2> HIDE DEF at
  <2>4. Sound(t) /\ SameTrail(ses, t) /\ t.streams = ses.streams /\ t.tools = ses.tools
    BY <1>1, <1>4, <2>3, ReasoningSound DEF Sane
  <2>5. ses' = became_busy(t) BY <1>2, <1>4
  <2> HIDE DEF t
  <2>6. Trailed(t) BY <1>1, <2>4, SameTrailed DEF Sane
  <2>7. Sane(t, open) BY <1>1, <2>4, <2>6 DEF Sane
  <2>8. Sane(ses', open) BY <2>5, <2>7, SaneBusy
  <2> QED BY <1>1, <1>2, <2>8, HostStep
<1> QED BY <1>3, <1>4

(* AssistantMessageCompleted, whatever text the host ends with.             *)
LEMMA CompletedSane ==
  ASSUME TurnInv, NEW sid \in StreamIds, AssistantMessageCompleted(sid)
  PROVE  TurnInv'
<1> DEFINE open == host.open \ {sid}
<1>1. Sane(ses, host.open) /\ open \subseteq StreamIds \cup ToolIds BY DEF TurnInv
<1>2. HostHas(open) /\ \E texts : ses' = Complete(ses, sid, texts)
  BY DEF AssistantMessageCompleted, Event
<1>3. /\ Sound(ses') /\ SameTrail(ses, ses')
      /\ DOMAIN ses'.streams = DOMAIN ses.streams \ {sid} /\ ses'.tools = ses.tools
  BY <1>1, <1>2, CompleteSound DEF Sane
<1>4. Trailed(ses') BY <1>1, <1>3, SameTrailed DEF Sane
<1>5. sid \notin DOMAIN ses.tools BY <1>1, SaneKeyed, TurnAssumption
<1>6. Sane(ses', open) BY <1>1, <1>3, <1>4, <1>5 DEF Sane
<1> QED BY <1>1, <1>2, <1>6, HostStep

(* ToolExecutionStarted: the host has the id, so no tool of the session     *)
(* does.                                                                    *)
LEMMA ToolStartedSane ==
  ASSUME TurnInv, NEW tid \in ToolIds, NEW kind \in ToolKinds, ToolExecutionStarted(tid, kind)
  PROVE  TurnInv'
<1> DEFINE open == host.open \cup {tid}
<1>1. Sane(ses, host.open) /\ open \subseteq StreamIds \cup ToolIds BY DEF TurnInv
<1>2. HostHas(open) /\ ses' = ToolStarted(ses, tid, kind) /\ tid \notin host.open
  BY DEF ToolExecutionStarted, Event
<1>3. tid \notin DOMAIN ses.tools BY <1>1, <1>2 DEF Sane
<1>4. /\ Sound(ses') /\ Trailed(ses')
      /\ ses'.streams = ses.streams /\ DOMAIN ses'.tools = DOMAIN ses.tools \cup {tid}
  BY <1>1, <1>2, <1>3, ToolStartedSound DEF Sane
<1>5. Sane(ses', open) BY <1>1, <1>4 DEF Sane
<1> QED BY <1>1, <1>2, <1>5, HostStep

(* ToolExecutionFinished: a tool the session has forgotten changes nothing. *)
LEMMA ToolFinishedSane ==
  ASSUME TurnInv, NEW tid \in ToolIds, NEW status \in {"ok", "error"},
         ToolExecutionFinished(tid, status)
  PROVE  TurnInv'
<1> DEFINE open == host.open \ {tid}
<1>1. Sane(ses, host.open) /\ open \subseteq StreamIds \cup ToolIds BY DEF TurnInv
<1>2. HostHas(open)
      /\ ses' = IF tid \in DOMAIN ses.tools THEN ToolFinished(ses, tid, status) ELSE ses
  BY DEF ToolExecutionFinished, Event
<1>3. tid \notin DOMAIN ses.streams BY <1>1, SaneKeyed, TurnAssumption
<1>4. Sane(ses', open)
  <2>1. CASE tid \in DOMAIN ses.tools
    <3>1. /\ Sound(ses') /\ Trailed(ses') /\ ses'.streams = ses.streams
          /\ DOMAIN ses'.tools = DOMAIN ses.tools \ {tid}
      BY <1>1, <1>2, <2>1, ToolFinishedSound DEF Sane
    <3> QED BY <1>1, <1>3, <3>1 DEF Sane
  <2>2. CASE tid \notin DOMAIN ses.tools BY <1>1, <1>2, <1>3, <2>2 DEF Sane
  <2> QED BY <2>1, <2>2
<1> QED BY <1>1, <1>2, <1>4, HostStep

(* BlockPrinted: a block that is done is put last.                          *)
LEMMA PrintedSane ==
  ASSUME TurnInv, BlockPrinted
  PROVE  TurnInv'
<1>0. PICK kind \in {"notice", "table"} :
        HostHas(host.open) /\ ses' = push(ses, Block(kind), TRUE)
  BY DEF BlockPrinted, Event
<1> DEFINE open == host.open
           t == push(ses, Block(kind), TRUE)
<1>1. Sane(ses, open) /\ open \subseteq StreamIds \cup ToolIds BY DEF TurnInv
<1>2. HostHas(open) /\ ses' = t BY <1>0
<1>3. Sound(t) /\ SameKeys(ses, t) /\ SameTrail(ses, t) BY <1>1, PushDoneSound DEF Sane
<1> HIDE DEF t
<1>4. Trailed(t) BY <1>1, <1>3, SameTrailed DEF Sane
<1>5. Sane(ses', open) BY <1>1, <1>2, <1>3, <1>4 DEF Sane, SameKeys
<1> QED BY <1>1, <1>2, <1>5, HostStep

(* TodoListUpdate touches no entry.                                         *)
LEMMA PlanSane ==
  ASSUME TurnInv, NEW plan, TodoListUpdate(plan)
  PROVE  TurnInv'
<1> DEFINE open == host.open
           seen == ses.plan_seen \/ plan # "none"
<1>1. Sane(ses, open) /\ open \subseteq StreamIds \cup ToolIds BY DEF TurnInv
<1>2. HostHas(open) /\ ses' = [ses EXCEPT !.plan = plan, !.plan_seen = seen]
  BY DEF TodoListUpdate, Event
<1>3. DOMAIN ses = Fields BY <1>1, SoundParts DEF Sane
<1> HIDE DEF seen
<1>4. /\ DOMAIN ses' = DOMAIN ses /\ ses'.entries = ses.entries /\ ses'.next_id = ses.next_id
      /\ SameMaps(ses, ses') /\ SameTrail(ses, ses')
  BY <1>2, <1>3 DEF Fields, SameMaps, SameTrail
<1>5. Sane(ses', open) BY <1>1, <1>4, SaneOther
<1> QED BY <1>1, <1>2, <1>5, HostStep

(* StatusUpdate: the session becomes busy, settles, or stays.               *)
LEMMA StatusSane ==
  ASSUME TurnInv, NEW segment, StatusUpdate(segment)
  PROVE  TurnInv'
<1> DEFINE open == host.open
           phase == IF segment = "other" THEN ses.phase ELSE segment
           s == [ses EXCEPT !.phase = phase]
           b == [s EXCEPT !.phase_busy = TRUE]
           i == [s EXCEPT !.phase_busy = FALSE]
<1>1. Sane(ses, open) /\ DOMAIN host = {"open", "over"} BY DEF TurnInv
<1>2. ses' = IF s.phase = "busy" THEN became_busy(b)
             ELSE IF s.phase_busy THEN settle(i, FALSE) ELSE s
  BY DEF StatusUpdate, Event
<1>3. host' = [host EXCEPT !.over = (segment = "idle" /\ host.open = {})] BY DEF StatusUpdate
<1>4. DOMAIN ses = Fields BY <1>1, SoundParts DEF Sane
<1> HIDE DEF phase
<1>5. /\ DOMAIN s = DOMAIN ses /\ s.entries = ses.entries /\ s.next_id = ses.next_id
      /\ SameMaps(ses, s) /\ SameTrail(ses, s)
  BY <1>4 DEF Fields, SameMaps, SameTrail
<1> HIDE DEF s
<1>6. Sane(s, open) /\ DOMAIN s = Fields BY <1>1, <1>4, <1>5, SaneOther
<1>7. /\ DOMAIN b = DOMAIN s /\ b.entries = s.entries /\ b.next_id = s.next_id
      /\ SameMaps(s, b) /\ SameTrail(s, b)
  BY <1>6 DEF Fields, SameMaps, SameTrail
<1>8. /\ DOMAIN i = DOMAIN s /\ i.entries = s.entries /\ i.next_id = s.next_id
      /\ SameMaps(s, i) /\ SameTrail(s, i)
  BY <1>6 DEF Fields, SameMaps, SameTrail
<1> HIDE DEF b, i
<1>9. Sane(became_busy(b), open) BY <1>6, <1>7, SaneOther, SaneBusy
<1>10. Sane(i, open) BY <1>6, <1>8, SaneOther
<1>11. Sane(settle(i, FALSE), open) BY <1>10, SettleRests, SaneAtRest DEF Sane
<1>12. Sane(ses', open) BY <1>2, <1>6, <1>9, <1>11
<1>13. host'.open = open /\ DOMAIN host' = {"open", "over"} BY <1>1, <1>3
<1>14. host'.over \in BOOLEAN
  <2> DEFINE over == segment = "idle" /\ host.open = {}
  <2>1. over \in BOOLEAN OBVIOUS
  <2>2. host' = [host EXCEPT !.over = over] BY <1>3
  <2> HIDE DEF over
  <2> QED BY <1>1, <2>1, <2>2
<1>15. open \subseteq StreamIds \cup ToolIds BY DEF TurnInv
<1> QED BY <1>12, <1>13, <1>14, <1>15 DEF TurnInv

(* AgentStarted: a bead without a tool.                                     *)
LEMMA AgentSane ==
  ASSUME TurnInv, AgentStarted
  PROVE  TurnInv'
<1> DEFINE open == host.open
           t == push_bead(ses, "agent")
<1>1. Sane(ses, open) /\ open \subseteq StreamIds \cup ToolIds BY DEF TurnInv
<1>2. HostHas(open) /\ ses' = t BY DEF AgentStarted, Event
<1>3. Sound(t) /\ Trailed(t) /\ SameHeld(ses, t) BY <1>1, BeadTrailed DEF Sane
<1> HIDE DEF t
<1>4. Sane(ses', open) BY <1>1, <1>2, <1>3 DEF Sane, SameHeld, SameMaps
<1> QED BY <1>1, <1>2, <1>4, HostStep

(* TranscriptCleared.                                                       *)
LEMMA ClearedSane ==
  ASSUME TurnInv, TranscriptCleared
  PROVE  TurnInv'
<1> DEFINE open == host.open
<1>1. Sane(ses, open) /\ open \subseteq StreamIds \cup ToolIds BY DEF TurnInv
<1>2. HostHas(open) BY DEF TranscriptCleared
<1>3. \E said, printed :
        ses' = [ses EXCEPT !.entries = Keeping(ses.entries, {e \in Range(ses.entries) : ~e.done}),
                           !.plan = "none", !.said = said, !.printed = printed]
  BY DEF TranscriptCleared, Event
<1>4. Sound(ses') /\ SameMaps(ses, ses') /\ SameTrail(ses, ses')
  BY <1>1, <1>3, ClearedSound DEF Sane
<1>5. Sane(ses', open) BY <1>1, <1>4, SaneSame
<1> QED BY <1>1, <1>2, <1>5, HostStep

(* Interrupt and CancelRequested settle the session.                        *)
LEMMA SettledSane ==
  ASSUME TurnInv, Interrupt \/ CancelRequested
  PROVE  TurnInv'
<1> DEFINE open == host.open
<1>1. Sane(ses, open) /\ open \subseteq StreamIds \cup ToolIds BY DEF TurnInv
<1>2. ses' = settle(ses, TRUE) BY DEF Interrupt, CancelRequested, Event
<1>3. Sane(ses', open) BY <1>1, <1>2, SettleRests, SaneAtRest DEF Sane
<1>4. CASE Interrupt
  <2>1. host' = host BY <1>4 DEF Interrupt
  <2> QED BY <1>3, <2>1 DEF TurnInv
<1>5. CASE CancelRequested
  <2>1. HostHas(open) BY <1>5 DEF CancelRequested
  <2> QED BY <1>1, <1>3, <2>1, HostStep
<1> QED BY <1>4, <1>5

(* Draw: paragraphs are split off and what is done leaves.                  *)
LEMMA DrawSane ==
  ASSUME TurnInv, Draw
  PROVE  TurnInv'
<1> DEFINE open == host.open
           t == take_history(ses)
<1>1. Sane(ses, open) BY DEF TurnInv
<1>2. ses' = t /\ host' = host BY DEF Draw
<1>3. Sound(t) /\ SameMaps(ses, t) /\ SameTrail(ses, t) BY <1>1, TakeSound DEF Sane
<1> HIDE DEF t
<1>4. Sane(t, open) BY <1>1, <1>3, SaneSame
<1> QED BY <1>2, <1>4 DEF TurnInv

(* The invariant holds of a new session.                                    *)
LEMMA TurnInitInv == TurnInit => TurnInv
<1> SUFFICES ASSUME TurnInit PROVE TurnInv OBVIOUS
<1>1. DOMAIN ses = Fields BY DEF TurnInit, Fields
<1>2. ses.entries = <<>> /\ ses.next_id = 1 /\ ses.streams = <<>> /\ ses.tools = <<>>
  BY DEF TurnInit
<1>3. ses.reasoning = <<>> /\ ses.open_group = NoGroup /\ ses.plan_rows = {}
      /\ ses.beads = <<>> /\ ses.by_tool = <<>>
  BY DEF TurnInit
<1>4. DOMAIN host = {"open", "over"} /\ host.open = {} /\ host.over \in BOOLEAN BY DEF TurnInit
<1>5. IsList(<<>>) /\ Len(<<>>) = 0 /\ DOMAIN <<>> = {} /\ Range(<<>>) = {}
  BY DEF IsList, Range
<1>6. IdsApart(<<>>) BY <1>5 DEF IdsApart
<1>7. Listed(ses) /\ Entries(ses) = {} BY <1>1, <1>2, <1>5, <1>6 DEF Listed, Entries
<1>8. Owned(ses)
  <2>1. Owners({}, <<>>, <<>>, <<>>, NoGroup, {})
    BY <1>5 DEF Owners, StreamsOpen, OneStream, RepliesOwned, ToolsRun, OneTool, RunsOwned,
                ThoughtsOwned, ThoughtsKnown, GroupsOwned, GroupOpen, RowsAreTools
  <2> QED BY <1>2, <1>3, <1>7, <2>1 DEF Owned
<1>9. Numbered(ses) BY <1>2, <1>3, <1>5 DEF Numbered
<1>10. Keyed(ses) BY <1>2, <1>3, <1>5 DEF Keyed
<1>11. Sound(ses) BY <1>7, <1>8, <1>9, <1>10 DEF Sound
<1>12. Trailed(ses) BY <1>3, <1>5, TurnAssumption DEF Trailed
<1>13. Sane(ses, host.open) BY <1>2, <1>5, <1>11, <1>12 DEF Sane
<1> QED BY <1>4, <1>13 DEF TurnInv

(* Every step keeps the invariant.                                          *)
LEMMA TurnStepInv == TurnInv /\ [TurnNext]_turnVars => TurnInv'
<1> SUFFICES ASSUME TurnInv, [TurnNext]_turnVars PROVE TurnInv' OBVIOUS
<1>1. CASE UNCHANGED turnVars BY <1>1 DEF turnVars, TurnInv
<1>2. ASSUME NEW sid \in StreamIds, AssistantStreamStarted(sid) PROVE TurnInv'
  <2>1. Sane(ses, host.open) /\ host.open \subseteq StreamIds \cup ToolIds BY DEF TurnInv
  <2>2. /\ sid \notin host.open /\ HostHas(host.open \cup {sid})
        /\ ses' = became_busy(OpenReply(ses, sid))
    BY <1>2 DEF AssistantStreamStarted, Event
  <2>3. Sane(ses', host.open \cup {sid}) BY <2>1, <2>2, StartedSane
  <2>4. host.open \cup {sid} \subseteq StreamIds \cup ToolIds BY <2>1
  <2> QED BY <2>2, <2>3, <2>4, HostStep
<1>3. CASE ReplyStep
  BY <1>2, <1>3, TokenSane, ReasoningSane, CompletedSane DEF ReplyStep
<1>4. CASE ToolStep
  BY <1>4, ToolStartedSane, ToolFinishedSane, AgentSane, PlanSane DEF ToolStep
<1>5. CASE OtherStep
  BY <1>5, PrintedSane, ClearedSane, StatusSane, SettledSane DEF OtherStep
<1>6. CASE Draw BY <1>6, DrawSane
<1> QED BY <1>1, <1>3, <1>4, <1>5, <1>6 DEF TurnNext

(* The entries of a turn and the maps by which later events find them agree *)
(* in every state: each open reply, running tool, reasoning and group is    *)
(* owned by exactly the entry that shows it, and the other way round.       *)
THEOREM TurnInvHolds == TurnSpec => []TurnInv
BY TurnInitInv, TurnStepInv, PTL DEF TurnSpec

(* What the invariant says of the entry at a place of the list.            *)
LEMMA EntryAt ==
  ASSUME NEW s, Sound(s), NEW i \in DOMAIN s.entries
  PROVE  s.entries[i] \in Entries(s) /\ IsEntry(s.entries[i], s.next_id) /\ Tidy(s.entries[i])
<1>1. Listed(s) /\ \A e \in Entries(s) : IsEntry(e, s.next_id) /\ Tidy(e) BY SoundParts
<1>2. s.entries[i] \in Entries(s) BY DEF Entries, Range
<1> QED BY <1>1, <1>2

(* An entry that is not done has an owner, whatever its kind: a closed      *)
(* group by the tool that still runs in it.                                 *)
LEMMA UndoneOwned ==
  ASSUME NEW s, Sound(s), NEW e \in Entries(s), ~e.done
  PROVE  \/ e.id \in Range(s.streams) \cup Range(s.reasoning) \cup {s.open_group}
         \/ \E t \in DOMAIN s.tools : s.tools[t].entry = e.id
<1>1. IsEntry(e, s.next_id) /\ Tidy(e) BY SoundParts
<1>2. /\ RepliesOwned(Entries(s), s.streams) /\ ThoughtsOwned(Entries(s), s.reasoning)
      /\ GroupsOwned(Entries(s), s.open_group) /\ RunsOwned(Entries(s), s.tools)
  BY DEF Sound, Owned, Owners
<1>3. ASSUME NEW j \in DOMAIN e.block.run, e.block.run[j] = "running"
      PROVE  \E t \in DOMAIN s.tools : s.tools[t].entry = e.id
  BY <1>2, <1>3 DEF RunsOwned
<1>4. CASE e.block.kind = "reply"
  BY <1>2, <1>4 DEF RepliesOwned, Range
<1>5. CASE e.block.kind = "reasoning"
  BY <1>2, <1>5 DEF ThoughtsOwned, Range
<1>6. CASE e.block.kind = "group"
  <2>1. CASE e.id = s.open_group BY <2>1
  <2>2. CASE e.block.closed
    <3>1. ~Still(e) BY <1>1, <1>6, <2>2 DEF Tidy
    <3>2. PICK j \in DOMAIN e.block.run : e.block.run[j] = "running" BY <3>1 DEF Still, Range
    <3> QED BY <1>3, <3>2
  <2> QED BY <1>2, <1>6, <2>1, <2>2 DEF GroupsOwned
<1>7. CASE e.block.kind = "tool"
  <2>1. Len(e.block.run) = 1 /\ e.block.run[1] = "running" BY <1>1, <1>7 DEF Tidy
  <2>2. e.block.run \in Seq(Statuses) BY <1>1 DEF IsEntry
  <2>3. 1 \in DOMAIN e.block.run BY <2>1, <2>2
  <2> QED BY <1>3, <2>1, <2>3
<1>8. e.block.kind \notin {"notice", "plan", "table"} BY <1>1 DEF Tidy
<1>9. e.block.kind \in BlockKinds BY <1>1 DEF IsEntry
<1> QED BY <1>4, <1>5, <1>6, <1>7, <1>8, <1>9 DEF BlockKinds

(* What the maps name is there, is not done, and for a tool is running.    *)
LEMMA OwnerFinds ==
  ASSUME NEW s, Sound(s)
  PROVE  /\ \A id \in Range(s.streams) \cup {s.tools[t].entry : t \in DOMAIN s.tools} :
              Index(s, id) # 0 /\ ~s.entries[Index(s, id)].done
         /\ \A t \in DOMAIN s.tools :
              s.entries[Index(s, s.tools[t].entry)].block.run[s.tools[t].at] = "running"
<1>1. Listed(s) BY SoundParts
<1>2. StreamsOpen(Entries(s), s.streams) /\ ToolsRun(Entries(s), s.tools)
  BY DEF Sound, Owned, Owners
<1>3. ASSUME NEW e \in Entries(s), ~e.done
      PROVE  Index(s, e.id) # 0 /\ s.entries[Index(s, e.id)] = e
  BY <1>1, Found DEF EntryOf
<1>4. \A id \in Range(s.streams) : Index(s, id) # 0 /\ ~s.entries[Index(s, id)].done
  BY <1>2, <1>3 DEF StreamsOpen, Range
<1>5. ASSUME NEW t \in DOMAIN s.tools
      PROVE  /\ Index(s, s.tools[t].entry) # 0
             /\ ~s.entries[Index(s, s.tools[t].entry)].done
             /\ s.entries[Index(s, s.tools[t].entry)].block.run[s.tools[t].at] = "running"
  <2>1. PICK e \in Entries(s) : /\ e.id = s.tools[t].entry /\ ~e.done
                                /\ e.block.run[s.tools[t].at] = "running"
    BY <1>2 DEF ToolsRun
  <2> QED BY <1>3, <2>1
<1> QED BY <1>4, <1>5

(* What moves has an owner, and what the maps name moves.                   *)
LEMMA OwnedMotion == TurnInv => MotionHasOwner
<1> SUFFICES ASSUME TurnInv PROVE MotionHasOwner OBVIOUS
<1>1. Sound(ses) /\ Trailed(ses) BY DEF TurnInv, Sane
<1>2. TrailNamesItsTool
  <2>1. IsList(ses.beads) /\ DOMAIN ses.beads = 1..Len(ses.beads) BY <1>1, ListIs DEF Trailed
  <2> QED BY <1>1, <2>1 DEF Trailed, TrailNamesItsTool
<1>3. ASSUME NEW i \in DOMAIN ses.entries
      PROVE  LET e == ses.entries[i] IN
             /\ e.done => Still(e)
             /\ ~e.done => \/ e.id \in Range(ses.streams) \cup Range(ses.reasoning)
                                         \cup {ses.open_group}
                           \/ \E t \in DOMAIN ses.tools : ses.tools[t].entry = e.id
  <2> DEFINE e == ses.entries[i]
  <2>1. e \in Entries(ses) /\ Tidy(e) BY <1>1, EntryAt
  <2>2. e.done => Still(e) BY <2>1 DEF Tidy
  <2>3. ~e.done => \/ e.id \in Range(ses.streams) \cup Range(ses.reasoning) \cup {ses.open_group}
                   \/ \E t \in DOMAIN ses.tools : ses.tools[t].entry = e.id
    BY <1>1, <2>1, UndoneOwned
  <2> QED BY <2>2, <2>3
<1>4. /\ \A id \in Range(ses.streams) \cup {ses.tools[t].entry : t \in DOMAIN ses.tools} :
           Index(ses, id) # 0 /\ ~ses.entries[Index(ses, id)].done
      /\ \A t \in DOMAIN ses.tools :
           ses.entries[Index(ses, ses.tools[t].entry)].block.run[ses.tools[t].at] = "running"
  BY <1>1, OwnerFinds
<1> QED BY <1>2, <1>3, <1>4 DEF MotionHasOwner

(* The invariant gives every variable its type.                             *)
LEMMA TypedTurn == TurnInv => TurnTypeOK
<1> SUFFICES ASSUME TurnInv PROVE TurnTypeOK OBVIOUS
<1>1. Sound(ses) /\ Trailed(ses) BY DEF TurnInv, Sane
<1>2. ASSUME NEW i \in DOMAIN ses.entries
      PROVE  /\ ses.entries[i].id \in EntryIds /\ ses.entries[i].of \in EntryIds
             /\ ses.entries[i].done \in BOOLEAN
             /\ Range(ses.entries[i].block.run) \subseteq {"running", "stopped", "ok", "error"}
  <2>1. IsEntry(ses.entries[i], ses.next_id) BY <1>1, EntryAt
  <2>2. ses.entries[i].block.run \in Seq(Statuses) BY <2>1 DEF IsEntry
  <2>3. Range(ses.entries[i].block.run) \subseteq Statuses BY <2>2, SeqList
  <2> QED BY <2>1, <2>3 DEF IsEntry, EntryIds, Statuses
<1>3. \A e \in Entries(ses) : e.id \in EntryIds BY <1>1, SoundParts DEF IsEntry, EntryIds
<1>4. /\ StreamsOpen(Entries(ses), ses.streams) /\ GroupOpen(Entries(ses), ses.open_group)
      /\ Keyed(ses) /\ Numbered(ses)
  BY <1>1 DEF Sound, Owned, Owners
<1>5. Range(ses.streams) \subseteq EntryIds BY <1>3, <1>4 DEF StreamsOpen, Range
<1>6. ses.open_group \in EntryIds \cup {NoGroup} BY <1>3, <1>4 DEF GroupOpen
<1>7. /\ DOMAIN ses.streams \subseteq StreamIds /\ DOMAIN ses.tools \subseteq ToolIds
      /\ DOMAIN ses.reasoning \subseteq StreamIds /\ ses.plan_rows \subseteq EntryIds
  BY <1>4 DEF Keyed, Numbered, EntryIds
<1>8. Len(ses.beads) <= TrailCap BY <1>1 DEF Trailed
<1>9. host.open \subseteq StreamIds \cup ToolIds /\ host.over \in BOOLEAN BY DEF TurnInv
<1> QED BY <1>2, <1>5, <1>6, <1>7, <1>8, <1>9 DEF TurnTypeOK

(* Every variable of the turn has its type in every state, whatever the     *)
(* host sends and in whatever order: no map or plan row holds an id that    *)
(* was never given out, and the trail keeps to MAX_TRAIL_BEADS.             *)
THEOREM TurnTypeCorrect == TurnSpec => []TurnTypeOK
BY TurnInvHolds, TypedTurn, PTL

(* Whatever moves on the screen can be stopped by an event to come (settle, *)
(* finish and their maps in session.rs): an entry that is not done has an   *)
(* owner in the maps, every stream and tool finds its entry, not done and   *)
(* running, and a tool that ends finds its own bead.                        *)
THEOREM MotionOwned == TurnSpec => []MotionHasOwner
BY TurnInvHolds, OwnedMotion, PTL
=============================================================================
