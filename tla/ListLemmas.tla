----------------------------- MODULE ListLemmas -----------------------------
(***************************************************************************)
(* What an insertion at the front and a removal do to a list without       *)
(* duplicates.                                                             *)
(***************************************************************************)
EXTENDS Lists, SequenceTheorems, FiniteSetTheorems, TLAPS

\* A removal from a list moves up what is behind the member.
LEMMA WithoutShifts ==
  ASSUME NEW S, NEW list \in Seq(S), NEW t, Contains(list, t)
  PROVE  /\ Without(list, t) \in Seq(S)
         /\ Len(Without(list, t)) = Len(list) - 1
         /\ \E k \in 1 .. Len(list) :
              /\ list[k] = t
              /\ \A i \in 1 .. Len(list) - 1 :
                   Without(list, t)[i] = IF i < k THEN list[i] ELSE list[i + 1]
  <1>. USE DEF Contains
  <1>. DEFINE k == CHOOSE k \in DOMAIN list : list[k] = t
              rest == Without(list, t)
              left == SubSeq(list, 1, k - 1)
              right == SubSeq(list, k + 1, Len(list))
  <1>1. k \in 1 .. Len(list) /\ list[k] = t
    OBVIOUS
  <1>. HIDE DEF k
  <1>2. /\ left \in Seq(S) /\ Len(left) = k - 1
        /\ \A i \in 1 .. k - 1 : left[i] = list[i]
    BY <1>1
  <1>3. /\ right \in Seq(S) /\ Len(right) = Len(list) - k
        /\ \A i \in 1 .. Len(list) - k : right[i] = list[i + k]
    BY <1>1
  <1>4. rest = left \o right
    <2>1. \E j \in DOMAIN list : list[j] = t
      OBVIOUS
    <2>2. rest = RemoveAt(list, k)
      BY <2>1 DEF Without, k
    <2>. QED
      BY <2>2 DEF RemoveAt
  <1>. HIDE DEF left, right, rest
  <1>5. rest \in Seq(S) /\ Len(rest) = Len(list) - 1
    <2>1. rest \in Seq(S) /\ Len(rest) = Len(left) + Len(right)
      BY <1>2, <1>3, <1>4, ConcatProperties
    <2>. QED
      BY <2>1, <1>1, <1>2, <1>3
  <1>6. \A i \in 1 .. Len(list) - 1 : rest[i] = IF i < k THEN list[i] ELSE list[i + 1]
    <2>1. \A i \in 1 .. Len(left) + Len(right) :
            rest[i] = IF i <= Len(left) THEN left[i] ELSE right[i - Len(left)]
      BY <1>2, <1>3, <1>4, ConcatProperties
    <2>2. Len(left) = k - 1 /\ Len(right) = Len(list) - k
      BY <1>2, <1>3
    <2>3. ASSUME NEW i \in 1 .. Len(list) - 1, i < k
          PROVE  rest[i] = list[i]
      <3>1. i \in 1 .. k - 1 /\ i \in 1 .. Len(left) + Len(right) /\ i <= Len(left)
        BY <2>2, <2>3, <1>1
      <3>. QED
        BY <3>1, <2>1, <1>2
    <2>4. ASSUME NEW i \in 1 .. Len(list) - 1, ~(i < k)
          PROVE  rest[i] = list[i + 1]
      <3>1. i \in 1 .. Len(left) + Len(right) /\ ~(i <= Len(left)) /\ i - Len(left) = i - (k - 1)
        BY <2>2, <2>4, <1>1
      <3>2. i - (k - 1) \in 1 .. Len(list) - k /\ i - (k - 1) + k = i + 1
        BY <2>4, <1>1
      <3>3. rest[i] = right[i - (k - 1)]
        BY <3>1, <2>1
      <3>. QED
        BY <3>2, <3>3, <1>3
    <2>. QED
      BY <2>3, <2>4
  <1>. QED
    BY <1>1, <1>5, <1>6 DEF rest

\* A removal from a list without duplicates takes out what it should, and nothing else.
LEMMA WithoutRemoves ==
  ASSUME NEW S, NEW list \in Seq(S), NEW t, Contains(list, t), IsInjective(list)
  PROVE  /\ Without(list, t) \in Seq(S)
         /\ Len(Without(list, t)) = Len(list) - 1
         /\ \A u : Contains(Without(list, t), u) <=> u # t /\ Contains(list, u)
         /\ IsInjective(Without(list, t))
  <1>. DEFINE rest == Without(list, t)
  <1>1. PICK k \in 1 .. Len(list) :
          /\ list[k] = t
          /\ \A i \in 1 .. Len(list) - 1 : rest[i] = IF i < k THEN list[i] ELSE list[i + 1]
    BY WithoutShifts
  <1>2. rest \in Seq(S) /\ Len(rest) = Len(list) - 1
    BY WithoutShifts
  <1>. USE DEF Contains, IsInjective
  <1>. HIDE DEF rest
  <1>3. ASSUME NEW u, NEW i \in 1 .. Len(list), list[i] = u, u # t
        PROVE  \E j \in 1 .. Len(rest) : rest[j] = u
    <2>1. CASE i < k
      BY <2>1, <1>1, <1>2, <1>3
    <2>2. CASE i > k
      <3>1. i - 1 \in 1 .. Len(rest) /\ rest[i - 1] = u
        BY <2>2, <1>1, <1>2, <1>3
      <3>. QED
        BY <3>1
    <2>. QED
      BY <2>1, <2>2, <1>1, <1>3
  <1>4. ASSUME NEW i \in 1 .. Len(rest)
        PROVE  rest[i] # t /\ \E j \in 1 .. Len(list) : list[j] = rest[i]
    <2>1. PICK j \in 1 .. Len(list) : j # k /\ rest[i] = list[j]
      <3>1. CASE i < k
        BY <3>1, <1>1, <1>2
      <3>2. CASE ~(i < k)
        <4>1. i + 1 \in 1 .. Len(list) /\ i + 1 # k /\ rest[i] = list[i + 1]
          BY <3>2, <1>1, <1>2
        <4>. QED
          BY <4>1
      <3>. QED
        BY <3>1, <3>2
    <2>. QED
      BY <2>1, <1>1
  <1>5. ASSUME NEW i \in 1 .. Len(rest), NEW j \in 1 .. Len(rest), rest[i] = rest[j]
        PROVE  i = j
    <2>1. PICK m \in 1 .. Len(list) : list[m] = rest[i] /\ m = IF i < k THEN i ELSE i + 1
      BY <1>1, <1>2
    <2>2. PICK n \in 1 .. Len(list) : list[n] = rest[j] /\ n = IF j < k THEN j ELSE j + 1
      BY <1>1, <1>2
    <2>3. m = n
      BY <2>1, <2>2, <1>5
    <2>. QED
      BY <2>1, <2>2, <2>3, <1>1
  <1>6. ASSUME NEW u
         PROVE  Contains(rest, u) <=> u # t /\ Contains(list, u)
    BY <1>3, <1>4
  <1>7. IsInjective(rest)
    BY <1>2, <1>5
  <1>. QED
    BY <1>2, <1>6, <1>7 DEF rest

LEMMA FrontAdds ==
  ASSUME NEW S, NEW list \in Seq(S), NEW t \in S, ~Contains(list, t), IsInjective(list)
  PROVE  /\ <<t>> \o list \in Seq(S)
         /\ Len(<<t>> \o list) = Len(list) + 1
         /\ \A u : Contains(<<t>> \o list, u) <=> u = t \/ Contains(list, u)
         /\ IsInjective(<<t>> \o list)
  <1>. USE DEF Contains, IsInjective
  <1>. DEFINE all == <<t>> \o list
  <1>1. all \in Seq(S) /\ Len(all) = Len(list) + 1
    OBVIOUS
  <1>2. \A i \in 1 .. Len(list) + 1 : all[i] = IF i = 1 THEN t ELSE list[i - 1]
    OBVIOUS
  <1>. HIDE DEF all
  <1>3. ASSUME NEW i \in 1 .. Len(list)
        PROVE  i + 1 \in 1 .. Len(all) /\ all[i + 1] = list[i]
    BY <1>1, <1>2
  <1>4. 1 \in 1 .. Len(all) /\ all[1] = t
    BY <1>1, <1>2
  <1>5. ASSUME NEW i \in 1 .. Len(all), NEW j \in 1 .. Len(all), all[i] = all[j]
        PROVE  i = j
    <2>1. ASSUME NEW m \in 1 .. Len(all), m # 1
          PROVE  all[m] # t
      <3>1. m - 1 \in 1 .. Len(list) /\ all[m] = list[m - 1]
        BY <2>1, <1>1, <1>2
      <3>. QED
        BY <3>1
    <2>2. CASE i # 1 /\ j # 1
      <3>1. /\ i - 1 \in 1 .. Len(list) /\ j - 1 \in 1 .. Len(list)
            /\ list[i - 1] = list[j - 1]
        BY <2>2, <1>1, <1>2, <1>5
      <3>2. i - 1 = j - 1
        BY <3>1
      <3>. QED
        BY <3>2, <1>1
    <2>. QED
      BY <2>1, <2>2, <1>4, <1>5
  <1>6. ASSUME NEW u
        PROVE  Contains(all, u) <=> u = t \/ Contains(list, u)
    <2>1. ASSUME NEW i \in 1 .. Len(all), all[i] = u, u # t
          PROVE  \E j \in 1 .. Len(list) : list[j] = u
      <3>1. i - 1 \in 1 .. Len(list) /\ list[i - 1] = u
        BY <2>1, <1>1, <1>2
      <3>. QED
        BY <3>1
    <2>. QED
      BY <2>1, <1>3, <1>4
  <1>7. IsInjective(all)
    BY <1>1, <1>5
  <1>. QED
    BY <1>1, <1>6, <1>7 DEF all

\* What is picked out of a list, in any order, is on it once.
LEMMA PickedOut ==
  ASSUME NEW S, NEW s \in Seq(S), IsInjective(s), NEW places \in SUBSET DOMAIN s,
         NEW at \in Bijection(1 .. Cardinality(places), places)
  PROVE  LET picked == [k \in DOMAIN at |-> s[at[k]]] IN
         /\ picked \in Seq(S) /\ IsInjective(picked)
         /\ Range(picked) = {s[k] : k \in places}
  <1>. DEFINE picked == [k \in DOMAIN at |-> s[at[k]]]
              n == Cardinality(places)
  <1>1. n \in Nat
    <2>1. DOMAIN s = 1 .. Len(s) /\ Len(s) \in Nat
      OBVIOUS
    <2>2. IsFiniteSet(DOMAIN s)
      BY <2>1, FS_Interval
    <2>. QED
      BY <2>2, FS_Subset, FS_CardinalityType
  <1>2. /\ at \in [1 .. n -> places]
        /\ \A i, j \in 1 .. n : at[i] = at[j] => i = j
        /\ \A p \in places : \E i \in 1 .. n : at[i] = p
    BY DEF Bijection, Injection, Surjection, IsInjective
  <1>. HIDE DEF n
  <1>3. DOMAIN picked = 1 .. n /\ \A k \in 1 .. n : picked[k] = s[at[k]] /\ at[k] \in DOMAIN s
    BY <1>2
  <1>. HIDE DEF picked
  <1>4. picked \in Seq(S)
    <2>1. \A k \in 1 .. n : picked[k] \in S
      BY <1>3
    <2>2. picked = [k \in 1 .. n |-> picked[k]]
      BY <1>2 DEF picked
    <2>3. picked \in [1 .. n -> S]
      BY <2>1, <2>2
    <2>. QED
      BY <1>1, <2>3, SeqDef
  <1>5. IsInjective(picked)
    BY <1>2, <1>3 DEF IsInjective
  <1>6. Range(picked) = {s[k] : k \in places}
    BY <1>2, <1>3 DEF Range
  <1>. QED
    BY <1>4, <1>5, <1>6 DEF picked

LEMMA TailLeaves ==
  ASSUME NEW S, NEW s \in Seq(S), s # <<>>, IsInjective(s)
  PROVE  /\ Head(s) \in S /\ Tail(s) \in Seq(S) /\ IsInjective(Tail(s))
         /\ Head(s) \in Range(s)
         /\ Range(Tail(s)) = Range(s) \ {Head(s)}
  <1>1. /\ DOMAIN s = 1 .. Len(s) /\ Len(s) \in Nat \ {0} /\ Head(s) = s[1]
        /\ Tail(s) \in Seq(S) /\ DOMAIN Tail(s) = 1 .. Len(s) - 1
        /\ \A k \in 1 .. Len(s) - 1 : Tail(s)[k] = s[k + 1]
    OBVIOUS
  <1>2. \A k \in 1 .. Len(s) - 1 : k + 1 \in 1 .. Len(s) /\ k + 1 # 1
    BY <1>1
  <1>3. \A k \in 1 .. Len(s) : k # 1 => k - 1 \in 1 .. Len(s) - 1 /\ (k - 1) + 1 = k
    BY <1>1
  <1>4. IsInjective(Tail(s))
    BY <1>1, <1>2 DEF IsInjective
  <1>5. Range(Tail(s)) = Range(s) \ {Head(s)}
    <2>1. ASSUME NEW k \in 1 .. Len(s) - 1
          PROVE  Tail(s)[k] \in Range(s) \ {Head(s)}
      BY <1>1, <1>2 DEF IsInjective, Range
    <2>2. ASSUME NEW k \in 1 .. Len(s), s[k] # Head(s)
          PROVE  s[k] \in Range(Tail(s))
      <3>1. k - 1 \in DOMAIN Tail(s) /\ Tail(s)[k - 1] = s[k]
        BY <1>1, <1>3, <2>2
      <3>. QED
        BY <3>1 DEF Range
    <2>. QED
      BY <1>1, <2>1, <2>2 DEF Range
  <1>. QED
    BY <1>1, <1>4, <1>5 DEF Range

\* p is nearer to the front of the list than q.
Before(list, p, q) == \E i, j \in 1 .. Len(list) : i < j /\ list[i] = p /\ list[j] = q

LEMMA FrontBefore ==
  ASSUME NEW S, NEW list \in Seq(S), NEW t \in S, NEW p, NEW q
  PROVE  Before(<<t>> \o list, p, q) <=> (p = t /\ Contains(list, q)) \/ Before(list, p, q)
  <1>. USE DEF Contains, Before
  <1>. DEFINE all == <<t>> \o list
  <1>1. all \in Seq(S) /\ Len(all) = Len(list) + 1
    OBVIOUS
  <1>2. \A i \in 1 .. Len(list) + 1 : all[i] = IF i = 1 THEN t ELSE list[i - 1]
    OBVIOUS
  <1>. HIDE DEF all
  <1>3. ASSUME NEW i \in 1 .. Len(list)
        PROVE  i + 1 \in 1 .. Len(all) /\ i + 1 > 1 /\ all[i + 1] = list[i]
    BY <1>1, <1>2
  <1>4. 1 \in 1 .. Len(all) /\ all[1] = t
    BY <1>1, <1>2
  <1>5. ASSUME NEW i \in 1 .. Len(all), i # 1
        PROVE  i - 1 \in 1 .. Len(list) /\ all[i] = list[i - 1]
    BY <1>1, <1>2, <1>5
  <1>6. ASSUME NEW i \in 1 .. Len(all), NEW j \in 1 .. Len(all), i < j, all[i] = p, all[j] = q
        PROVE  (p = t /\ Contains(list, q)) \/ Before(list, p, q)
    <2>1. j # 1
      BY <1>1, <1>6
    <2>2. j - 1 \in 1 .. Len(list) /\ list[j - 1] = q
      BY <1>5, <1>6, <2>1
    <2>3. CASE i = 1
      BY <1>4, <1>6, <2>2, <2>3
    <2>4. CASE i # 1
      <3>1. i - 1 \in 1 .. Len(list) /\ list[i - 1] = p /\ i - 1 < j - 1
        BY <1>1, <1>5, <1>6, <2>4
      <3>. QED
        BY <2>2, <3>1
    <2>. QED
      BY <2>3, <2>4
  <1>7. ASSUME p = t, NEW j \in 1 .. Len(list), list[j] = q
        PROVE  Before(all, p, q)
    <2>1. j + 1 \in 1 .. Len(all) /\ 1 < j + 1 /\ all[j + 1] = q
      BY <1>1, <1>3, <1>7
    <2>. QED
      BY <1>4, <1>7, <2>1
  <1>8. ASSUME NEW i \in 1 .. Len(list), NEW j \in 1 .. Len(list), i < j, list[i] = p, list[j] = q
        PROVE  Before(all, p, q)
    <2>1. /\ i + 1 \in 1 .. Len(all) /\ all[i + 1] = p
          /\ j + 1 \in 1 .. Len(all) /\ all[j + 1] = q
          /\ i + 1 < j + 1
      BY <1>1, <1>3, <1>8
    <2>. QED
      BY <2>1
  <1>. QED
    BY <1>6, <1>7, <1>8 DEF all

\* A removal keeps the order of what is left.
LEMMA WithoutBefore ==
  ASSUME NEW S, NEW list \in Seq(S), NEW t, Contains(list, t), IsInjective(list), NEW p, NEW q
  PROVE  Before(Without(list, t), p, q) <=> p # t /\ q # t /\ Before(list, p, q)
  <1>. DEFINE rest == Without(list, t)
  <1>1. PICK k \in 1 .. Len(list) :
          /\ list[k] = t
          /\ \A i \in 1 .. Len(list) - 1 : rest[i] = IF i < k THEN list[i] ELSE list[i + 1]
    BY WithoutShifts
  <1>2. rest \in Seq(S) /\ Len(rest) = Len(list) - 1 /\ Len(list) \in Nat
    BY WithoutShifts
  <1>. USE DEF Before
  <1>. HIDE DEF rest
  <1>3. ASSUME NEW i \in 1 .. Len(rest)
        PROVE  /\ (IF i < k THEN i ELSE i + 1) \in 1 .. Len(list) \ {k}
               /\ rest[i] = list[IF i < k THEN i ELSE i + 1]
    BY <1>1, <1>2
  <1>4. ASSUME NEW i \in 1 .. Len(list), i # k
        PROVE  /\ (IF i < k THEN i ELSE i - 1) \in 1 .. Len(rest)
               /\ rest[IF i < k THEN i ELSE i - 1] = list[i]
    <2>1. CASE i < k
      BY <2>1, <1>1, <1>2
    <2>2. CASE i > k
      <3>1. i - 1 \in 1 .. Len(rest) /\ ~(i - 1 < k) /\ i - 1 + 1 = i
        BY <2>2, <1>1, <1>2
      <3>. QED
        BY <3>1, <2>2, <1>1, <1>2
    <2>. QED
      BY <2>1, <2>2, <1>4
  <1>5. ASSUME NEW i \in 1 .. Len(rest), NEW j \in 1 .. Len(rest), i < j
        PROVE  Before(list, rest[i], rest[j]) /\ rest[i] # t /\ rest[j] # t
    <2>. DEFINE a == IF i < k THEN i ELSE i + 1
                b == IF j < k THEN j ELSE j + 1
    <2>1. a < b
      BY <1>5
    <2>2. a \in 1 .. Len(list) \ {k} /\ b \in 1 .. Len(list) \ {k} /\ rest[i] = list[a] /\ rest[j] = list[b]
      BY <1>3
    <2>. HIDE DEF a, b
    <2>3. list[a] # t /\ list[b] # t
      BY <1>1, <2>2 DEF IsInjective
    <2>. QED
      BY <2>1, <2>2, <2>3
  <1>6. ASSUME NEW i \in 1 .. Len(list), NEW j \in 1 .. Len(list), i < j, list[i] # t, list[j] # t
        PROVE  Before(rest, list[i], list[j])
    <2>. DEFINE a == IF i < k THEN i ELSE i - 1
                b == IF j < k THEN j ELSE j - 1
    <2>1. i # k /\ j # k
      BY <1>1, <1>6
    <2>2. a < b
      BY <1>6, <2>1
    <2>3. a \in 1 .. Len(rest) /\ b \in 1 .. Len(rest) /\ rest[a] = list[i] /\ rest[b] = list[j]
      BY <1>4, <2>1
    <2>. HIDE DEF a, b
    <2>. QED
      BY <2>2, <2>3
  <1>7. ASSUME Before(rest, p, q)
        PROVE  p # t /\ q # t /\ Before(list, p, q)
    <2>1. PICK i \in 1 .. Len(rest), j \in 1 .. Len(rest) : i < j /\ rest[i] = p /\ rest[j] = q
      BY <1>7
    <2>. HIDE DEF Before
    <2>. QED
      BY <1>5, <2>1
  <1>8. ASSUME p # t, q # t, Before(list, p, q)
        PROVE  Before(rest, p, q)
    <2>1. PICK i \in 1 .. Len(list), j \in 1 .. Len(list) : i < j /\ list[i] = p /\ list[j] = q
      BY <1>8
    <2>. HIDE DEF Before
    <2>. QED
      BY <1>6, <1>8, <2>1
  <1>. QED
    BY <1>7, <1>8 DEF rest

LEMMA MoreFollow ==
  ASSUME NEW S, NEW s \in Seq(S), s # <<>>, Len(s) # 1
  PROVE  Tail(s) \in Seq(S) /\ Tail(s) # <<>>
  <1>1. Len(s) \in Nat \ {0} /\ Tail(s) \in Seq(S) /\ Len(Tail(s)) = Len(s) - 1
    OBVIOUS
  <1>2. Len(Tail(s)) # 0
    BY <1>1
  <1>. QED
    BY <1>1, <1>2
=============================================================================
