--------------------------- MODULE TestRun_proofs ---------------------------
(***************************************************************************)
(* Proofs about TestRun, for any arguments, paths, threads and calls.      *)
(***************************************************************************)
EXTENDS TestRunInv, FiniteSetTheorems, SequenceTheorems, TLAPS

-----------------------------------------------------------------------------
(* What the library finds in the strings the tool composes.                 *)

\* What such a string is made of.
Pieces ==
  Marks \union STRING \union {"=", "LD_NEXT", "Count", "Log", "Mmap"}
        \union {Decimal(n) : n \in Nat}

LEMMA Joined ==
  ASSUME NEW s \in Seq(Pieces), NEW t \in Seq(Pieces)
  PROVE  /\ s \o t \in Seq(Pieces) /\ Len(s \o t) = Len(s) + Len(t)
         /\ \A i \in 1 .. Len(s) : (s \o t)[i] = s[i]
         /\ \A i \in 1 .. Len(t) : (s \o t)[Len(s) + i] = t[i]
<1> DEFINE r == s \o t
<1>1. /\ r \in Seq(Pieces) /\ Len(r) = Len(s) + Len(t)
      /\ \A i \in 1 .. Len(s) + Len(t) : r[i] = IF i <= Len(s) THEN s[i] ELSE t[i - Len(s)]
  BY ConcatProperties, Zenon
<1>2. Len(s) \in Nat /\ Len(t) \in Nat
  OBVIOUS
<1> HIDE DEF r
<1>3. ASSUME NEW i \in 1 .. Len(t) PROVE r[Len(s) + i] = t[i]
  <2>1. Len(s) + i \in 1 .. Len(s) + Len(t) /\ ~ (Len(s) + i <= Len(s)) /\ Len(s) + i - Len(s) = i
    BY <1>2
  <2> QED
    BY <1>1, <2>1
<1>4. ASSUME NEW i \in 1 .. Len(s) PROVE r[i] = s[i]
  BY <1>1, <1>2
<1>5. /\ r \in Seq(Pieces) /\ Len(r) = Len(s) + Len(t)
      /\ \A i \in 1 .. Len(s) : r[i] = s[i]
      /\ \A i \in 1 .. Len(t) : r[Len(s) + i] = t[i]
  BY <1>1, <1>3, <1>4
<1> QED
  BY <1>5 DEF r

\* A text with a path in quotes behind it.
LEMMA QuotedAtEnd ==
  ASSUME NEW front \in Seq(Pieces), NEW path \in Seq(Pieces)
  PROVE  LET s == front \o Quoted(path)
         IN  /\ s \in Seq(Pieces) /\ Len(s) = Len(front) + Len(path) + 2
             /\ \A i \in 1 .. Len(front) : s[i] = front[i]
             /\ s[Len(front) + 1] = "'" /\ s[Len(s)] = "'"
             /\ \A i \in 1 .. Len(path) : s[Len(front) + 1 + i] = path[i]
<1> DEFINE s == front \o Quoted(path)
<1> DEFINE a == <<"'">>
           q == a \o path
           r == q \o a
<1>1. a \in Seq(Pieces) /\ Len(a) = 1 /\ a[1] = "'"
  <2>1. "'" \in Pieces
    BY DEF Pieces, Marks, Quotes
  <2> QED
    BY <2>1
<1>2. s = front \o r
  BY DEF Quoted
<1> HIDE DEF a, s
<1>3. /\ q \in Seq(Pieces) /\ Len(q) = Len(a) + Len(path)
      /\ \A i \in 1 .. Len(a) : q[i] = a[i]
      /\ \A i \in 1 .. Len(path) : q[Len(a) + i] = path[i]
  BY <1>1, Joined, Zenon
<1> HIDE DEF q
<1>4. /\ r \in Seq(Pieces) /\ Len(r) = Len(q) + Len(a)
      /\ \A i \in 1 .. Len(q) : r[i] = q[i]
      /\ \A i \in 1 .. Len(a) : r[Len(q) + i] = a[i]
  BY <1>1, <1>3, Joined, Zenon
<1> HIDE DEF r
<1>5. /\ s \in Seq(Pieces) /\ Len(s) = Len(front) + Len(r)
      /\ \A i \in 1 .. Len(front) : s[i] = front[i]
      /\ \A i \in 1 .. Len(r) : s[Len(front) + i] = r[i]
  <2>1. /\ front \o r \in Seq(Pieces) /\ Len(front \o r) = Len(front) + Len(r)
        /\ \A i \in 1 .. Len(front) : (front \o r)[i] = front[i]
        /\ \A i \in 1 .. Len(r) : (front \o r)[Len(front) + i] = r[i]
    BY <1>4, Joined, Zenon
  <2> QED
    BY <1>2, <2>1
<1>6. Len(front) \in Nat /\ Len(path) \in Nat
  OBVIOUS
<1>7. /\ Len(r) = Len(path) + 2 /\ r[1] = "'" /\ r[Len(path) + 2] = "'"
      /\ \A i \in 1 .. Len(path) : r[1 + i] = path[i]
  BY <1>1, <1>3, <1>4, <1>6
<1>8. s[Len(front) + 1] = r[1] /\ s[Len(front) + (Len(path) + 2)] = r[Len(path) + 2]
  BY <1>5, <1>6, <1>7
<1>9. ASSUME NEW i \in 1 .. Len(path) PROVE s[Len(front) + 1 + i] = path[i]
  <2>1. 1 + i \in 1 .. Len(r) /\ Len(front) + 1 + i = Len(front) + (1 + i)
    BY <1>6, <1>7
  <2> QED
    BY <1>5, <1>7, <2>1
<1>10. /\ s \in Seq(Pieces) /\ Len(s) = Len(front) + Len(path) + 2
       /\ \A i \in 1 .. Len(front) : s[i] = front[i]
       /\ s[Len(front) + 1] = "'" /\ s[Len(s)] = "'"
       /\ \A i \in 1 .. Len(path) : s[Len(front) + 1 + i] = path[i]
  BY <1>5, <1>6, <1>7, <1>8, <1>9
<1> QED
  BY <1>10 DEF s

\* The two configurations, piece by piece.
IsCountConf(s, path) ==
  /\ s \in Seq(Pieces) /\ path \in Seq(Pieces) /\ Len(s) = Len(path) + 12
  /\ s[1] = "INIT" /\ s[2] = "=" /\ s[3] = "LD_NEXT" /\ s[4] = Space
  /\ s[5] = "MODE" /\ s[6] = "=" /\ s[7] = "Count" /\ s[8] = Space
  /\ s[9] = "COUNTS_PATH" /\ s[10] = "=" /\ s[11] = "'" /\ s[Len(s)] = "'"
  /\ \A i \in 1 .. Len(path) : s[i + 11] = path[i]

IsLogConf(s, path, n) ==
  /\ s \in Seq(Pieces) /\ path \in Seq(Pieces) /\ Len(s) = Len(path) + 21
  /\ s[1] = "INIT" /\ s[2] = "=" /\ s[3] = "LD_NEXT" /\ s[4] = Space
  /\ s[5] = "MODE" /\ s[6] = "=" /\ s[7] = "Log" /\ s[8] = "Mmap" /\ s[9] = Space
  /\ s[10] = "LOG_QTY" /\ s[11] = "=" /\ s[12] = Decimal(n) /\ s[13] = Space
  /\ s[14] = "CACHE_QTY" /\ s[15] = "=" /\ s[16] = Decimal(CacheQty) /\ s[17] = Space
  /\ s[18] = "LOG_PATH" /\ s[19] = "=" /\ s[20] = "'" /\ s[Len(s)] = "'"
  /\ \A i \in 1 .. Len(path) : s[i + 20] = path[i]

LEMMA CountConfFacts ==
  ASSUME NEW path \in Seq(Pieces), NEW s, s = CountConf(path)
  PROVE  IsCountConf(s, path)
<1> DEFINE front == <<"INIT", "=", "LD_NEXT", Space, "MODE", "=", "Count", Space,
                      "COUNTS_PATH", "=">>
<1>1. /\ front[1] = "INIT" /\ front[2] = "=" /\ front[3] = "LD_NEXT" /\ front[4] = Space
      /\ front[5] = "MODE" /\ front[6] = "=" /\ front[7] = "Count" /\ front[8] = Space
      /\ front[9] = "COUNTS_PATH" /\ front[10] = "="
  OBVIOUS
<1>2. front \in Seq(Pieces) /\ Len(front) = 10
  BY DEF Pieces, Marks
<1>3. s = front \o Quoted(path)
  BY DEF CountConf
<1> HIDE DEF front
<1>4. Len(path) \in Nat
  OBVIOUS
<1>5. /\ s \in Seq(Pieces) /\ Len(s) = Len(front) + Len(path) + 2
      /\ \A i \in 1 .. Len(front) : s[i] = front[i]
      /\ s[Len(front) + 1] = "'" /\ s[Len(s)] = "'"
      /\ \A i \in 1 .. Len(path) : s[Len(front) + 1 + i] = path[i]
  <2> DEFINE q == front \o Quoted(path)
  <2>1. /\ q \in Seq(Pieces) /\ Len(q) = Len(front) + Len(path) + 2
        /\ \A i \in 1 .. Len(front) : q[i] = front[i]
        /\ q[Len(front) + 1] = "'" /\ q[Len(q)] = "'"
        /\ \A i \in 1 .. Len(path) : q[Len(front) + 1 + i] = path[i]
    BY <1>2, QuotedAtEnd
  <2> QED
    BY <1>3, <2>1
<1>6. ASSUME NEW i \in 1 .. Len(path) PROVE s[i + 11] = path[i]
  <2>1. i + 11 = Len(front) + 1 + i
    BY <1>2
  <2> QED
    BY <1>5, <2>1
<1> QED
  BY <1>1, <1>2, <1>4, <1>5, <1>6 DEF IsCountConf

LEMMA LeastIs ==
  ASSUME NEW S \in SUBSET Int, NEW m \in S, \A j \in S : m <= j
  PROVE  Least(S) = m
<1>1. \A i \in S : (\A j \in S : i <= j) => i = m
  OBVIOUS
<1> QED
  BY <1>1 DEF Least

\* findKey returns the first place.
LEMMA FirstKey ==
  ASSUME NEW s \in Seq(Pieces), NEW i \in 1 .. Len(s), \A j \in 1 .. i - 1 : s[j] # s[i]
  PROVE  FindKey(s, s[i]) = i
<1> DEFINE found == {j \in DOMAIN s : s[j] = s[i]}
<1>1. DOMAIN s = 1 .. Len(s) /\ Len(s) \in Nat
  OBVIOUS
<1>2. found \in SUBSET Int /\ i \in found /\ \A j \in found : i <= j
  BY <1>1
<1>3. Least(found) = i
  <2> HIDE DEF found
  <2> QED
    BY <1>2, LeastIs
<1> QED
  BY <1>2, <1>3 DEF FindKey

\* A value without quotes ends before the next space.
LEMMA BareValue ==
  ASSUME NEW s \in Seq(Pieces), NEW i \in 1 .. Len(s), NEW k \in i + 1 .. Len(s),
         s[i] = "=", s[i + 1] \notin Quotes,
         s[k] = Space, \A j \in i + 1 .. k - 1 : s[j] # Space
  PROVE  GetValue(s, i) = [at |-> i + 1, size |-> k - (i + 1)]
<1> DEFINE ends == {j \in DOMAIN s : j >= i + 1 /\ s[j] = Space} \union {Len(s) + 1}
<1>1. DOMAIN s = 1 .. Len(s) /\ Len(s) \in Nat /\ i \in DOMAIN s /\ i + 1 \in DOMAIN s
  OBVIOUS
<1>2. ends \in SUBSET Int /\ k \in ends /\ \A j \in ends : k <= j
  BY <1>1
<1>3. Least(ends) = k
  <2> HIDE DEF ends
  <2> QED
    BY <1>2, LeastIs
<1>4. PieceAt(s, i) = "=" /\ PieceAt(s, i + 1) \notin Quotes
  BY <1>1 DEF PieceAt
<1>5. ends # {}
  BY <1>2
<1> QED
  BY <1>3, <1>4, <1>5 DEF GetValue

\* A value in quotes ends before the next quote.
LEMMA ValueInQuotes ==
  ASSUME NEW s \in Seq(Pieces), NEW i \in 1 .. Len(s), NEW k \in i + 2 .. Len(s),
         s[i] = "=", s[i + 1] = "'",
         s[k] = "'", \A j \in i + 2 .. k - 1 : s[j] # "'"
  PROVE  GetValue(s, i) = [at |-> i + 2, size |-> k - (i + 2)]
<1> DEFINE ends == {j \in DOMAIN s : j >= i + 2 /\ s[j] = s[i + 1]}
<1>1. DOMAIN s = 1 .. Len(s) /\ Len(s) \in Nat /\ i \in DOMAIN s /\ i + 1 \in DOMAIN s
  OBVIOUS
<1>2. ends \in SUBSET Int /\ k \in ends /\ \A j \in ends : k <= j
  BY <1>1
<1>3. Least(ends) = k
  <2> HIDE DEF ends
  <2> QED
    BY <1>2, LeastIs
<1>4. PieceAt(s, i) = "=" /\ PieceAt(s, i + 1) = "'" /\ PieceAt(s, i + 1) \in Quotes
  BY <1>1 DEF PieceAt, Quotes
<1>5. ends # {} /\ i + 1 + 1 = i + 2
  BY <1>2
<1> QED
  BY <1>3, <1>4, <1>5 DEF GetValue

\* What the modules are found by.
LEMMA Names ==
  /\ LookupVtable(<<"Count">>, ModeNames) = 2
  /\ LookupVtable(<<"Log", "Mmap">>, ModeNames) = 3
  /\ LookupVtable(<<"LD_NEXT">>, InitNames) = 1
<1> DEFINE Begins(name, value) ==
             Len(value) <= Len(name) /\ SubSeq(name, 1, Len(value)) = value
           Found(value, names) == {i \in DOMAIN names : Begins(names[i], value)}
<1>1. /\ DOMAIN ModeNames = 1 .. 3 /\ ModeNames[1] = <<"Log", "FD">>
      /\ ModeNames[2] = <<"Count">> /\ ModeNames[3] = <<"Log", "Mmap">>
      /\ DOMAIN InitNames = 1 .. 1 /\ InitNames[1] = <<"LD_NEXT">>
  BY DEF ModeNames, InitNames
<1>2. /\ SubSeq(<<"Log", "FD">>, 1, 1)[1] = "Log" /\ SubSeq(<<"Log", "Mmap">>, 1, 1)[1] = "Log"
      /\ SubSeq(<<"Log", "FD">>, 1, 2)[2] = "FD"
  OBVIOUS
<1>3. /\ SubSeq(<<"Log", "Mmap">>, 1, 2) = <<"Log", "Mmap">>
      /\ SubSeq(<<"Count">>, 1, 1) = <<"Count">> /\ SubSeq(<<"LD_NEXT">>, 1, 1) = <<"LD_NEXT">>
  <2>1. ASSUME NEW S, NEW s \in Seq(S) PROVE SubSeq(s, 1, Len(s)) = s
    OBVIOUS
  <2>2. /\ <<"Log", "Mmap">> \in Seq({"Log", "Mmap"}) /\ Len(<<"Log", "Mmap">>) = 2
        /\ <<"Count">> \in Seq({"Count"}) /\ Len(<<"Count">>) = 1
        /\ <<"LD_NEXT">> \in Seq({"LD_NEXT"}) /\ Len(<<"LD_NEXT">>) = 1
    OBVIOUS
  <2> QED
    BY <2>1, <2>2
<1>4. /\ Len(<<"Count">>) = 1 /\ Len(<<"LD_NEXT">>) = 1
      /\ Len(<<"Log", "FD">>) = 2 /\ Len(<<"Log", "Mmap">>) = 2
      /\ <<"Count">>[1] = "Count" /\ <<"Log", "Mmap">>[2] = "Mmap"
  OBVIOUS
<1>5. /\ ~ Begins(<<"Log", "FD">>, <<"Count">>) /\ ~ Begins(<<"Log", "Mmap">>, <<"Count">>)
      /\ ~ Begins(<<"Log", "FD">>, <<"Log", "Mmap">>) /\ ~ Begins(<<"Count">>, <<"Log", "Mmap">>)
  <2>1. "Log" # "Count" /\ "FD" # "Mmap"
    OBVIOUS
  <2>2. ~ Begins(<<"Log", "FD">>, <<"Count">>) /\ ~ Begins(<<"Log", "Mmap">>, <<"Count">>)
    BY <1>2, <1>4, <2>1
  <2>3. ~ Begins(<<"Log", "FD">>, <<"Log", "Mmap">>)
    BY <1>2, <1>4, <2>1
  <2>4. ~ Begins(<<"Count">>, <<"Log", "Mmap">>)
    BY <1>4
  <2> QED
    BY <2>2, <2>3, <2>4
<1>6. /\ Begins(<<"Count">>, <<"Count">>) /\ Begins(<<"Log", "Mmap">>, <<"Log", "Mmap">>)
      /\ Begins(<<"LD_NEXT">>, <<"LD_NEXT">>)
  BY <1>3, <1>4
<1> HIDE DEF Begins
<1>7. /\ Found(<<"Count">>, ModeNames) = {2} /\ Found(<<"Log", "Mmap">>, ModeNames) = {3}
      /\ Found(<<"LD_NEXT">>, InitNames) = {1}
  BY <1>1, <1>5, <1>6
<1>8. Least({1}) = 1 /\ Least({2}) = 2 /\ Least({3}) = 3
  BY LeastIs
<1> QED
  BY <1>7, <1>8 DEF LookupVtable, Begins

\* In s there is key at i, behind b pieces, "=" at e, a value without quotes
\* from v to z, and a space at k.
BareAt(s, key, b, i, e, v, z, k) ==
  /\ s \in Seq(Pieces) /\ b \in Nat /\ i \in 1 .. Len(s) /\ z \in Nat /\ k \in v .. Len(s)
  /\ i = b + 1 /\ e = i + 1 /\ v = i + 2 /\ k = z + 1
  /\ s[i] = key /\ s[e] = "=" /\ s[v] \notin Quotes /\ s[k] = Space
  /\ \A j \in 1 .. b : s[j] # key
  /\ \A j \in v .. z : s[j] # Space

\* The pieces from v to z.
Between(s, v, z) == SubSeq(s, v, z)

\* findArg of such a key.
LEMMA BareArg ==
  ASSUME NEW s, NEW key, NEW b, NEW i, NEW e, NEW v, NEW z, NEW k,
         BareAt(s, key, b, i, e, v, z, k)
  PROVE  HasArg(s, key) /\ Arg(s, key) = Between(s, v, z)
<1> USE DEF BareAt
<1>1. FindKey(s, key) = i
  <2>1. b = i - 1
    OBVIOUS
  <2> QED
    BY <2>1, FirstKey
<1>2. GetValue(s, e) = [at |-> v, size |-> k - v]
  <2>1. /\ e \in 1 .. Len(s) /\ k \in e + 1 .. Len(s) /\ s[e + 1] \notin Quotes
        /\ \A j \in e + 1 .. k - 1 : s[j] # Space
    OBVIOUS
  <2>2. GetValue(s, e) = [at |-> e + 1, size |-> k - (e + 1)]
    BY <2>1, BareValue, Zenon
  <2>3. e + 1 = v
    OBVIOUS
  <2> QED
    BY <2>2, <2>3
<1>3. FindArg(s, key) = [at |-> v, size |-> k - v]
  BY <1>1, <1>2 DEF FindArg
<1>4. v + (k - v) - 1 = z /\ v # 0
  OBVIOUS
<1>5. FindArg(s, key).at = v /\ FindArg(s, key).size = k - v /\ NoValue.at = 0
  BY <1>3 DEF NoValue
<1> QED
  BY <1>4, <1>5 DEF HasArg, Arg, Text, Between

\* ... with a quote at q, and from v a value up to the quote at k.
QuotedAt(s, key, b, i, e, q, v, k) ==
  /\ s \in Seq(Pieces) /\ b \in Nat /\ i \in 1 .. Len(s) /\ k \in v .. Len(s)
  /\ i = b + 1 /\ e = i + 1 /\ q = i + 2 /\ v = i + 3
  /\ s[i] = key /\ s[e] = "=" /\ s[q] = "'" /\ s[k] = "'"
  /\ \A j \in 1 .. b : s[j] # key
  /\ \A j \in v .. k - 1 : s[j] # "'"

LEMMA QuotedArg ==
  ASSUME NEW s, NEW key, NEW b, NEW i, NEW e, NEW q, NEW v, NEW k,
         QuotedAt(s, key, b, i, e, q, v, k)
  PROVE  Arg(s, key) = Between(s, v, k - 1)
<1> USE DEF QuotedAt
<1>1. FindKey(s, key) = i
  <2>1. b = i - 1
    OBVIOUS
  <2> QED
    BY <2>1, FirstKey
<1>2. GetValue(s, e) = [at |-> v, size |-> k - v]
  <2>1. /\ e \in 1 .. Len(s) /\ k \in e + 2 .. Len(s) /\ s[e + 1] = "'"
        /\ \A j \in e + 2 .. k - 1 : s[j] # "'"
    OBVIOUS
  <2>2. GetValue(s, e) = [at |-> e + 2, size |-> k - (e + 2)]
    BY <2>1, ValueInQuotes, Zenon
  <2>3. e + 2 = v
    OBVIOUS
  <2> QED
    BY <2>2, <2>3
<1>3. FindArg(s, key) = [at |-> v, size |-> k - v]
  BY <1>1, <1>2 DEF FindArg
<1>4. v + (k - v) - 1 = k - 1
  OBVIOUS
<1>5. FindArg(s, key).at = v /\ FindArg(s, key).size = k - v
  BY <1>3
<1> QED
  BY <1>4, <1>5 DEF Arg, Text, Between

\* The places a configuration's keys are behind.
LEMMA Places ==
  /\ \A j \in 1 .. 0 : FALSE
  /\ \A j \in 1 .. 4 : j \in {1, 2, 3, 4}
  /\ \A j \in 1 .. 8 : j \in {1, 2, 3, 4, 5, 6, 7, 8}
  /\ \A j \in 1 .. 9 : j \in {1, 2, 3, 4, 5, 6, 7, 8, 9}
  /\ \A j \in 1 .. 13 : j \in {1, 2, 3, 4, 5, 6, 7, 8, 9, 10, 11, 12, 13}
  /\ \A j \in 1 .. 17 : j \in {1, 2, 3, 4, 5, 6, 7, 8, 9, 10, 11, 12, 13, 14, 15, 16, 17}
  /\ \A j \in 7 .. 8 : j \in {7, 8}
OBVIOUS

LEMMA SameSeq ==
  ASSUME NEW S, NEW r \in Seq(S), NEW q \in Seq(S), Len(r) = Len(q),
         \A i \in 1 .. Len(q) : r[i] = q[i]
  PROVE  r = q
OBVIOUS

LEMMA OnePiece ==
  ASSUME NEW s \in Seq(Pieces), NEW i \in 1 .. Len(s)
  PROVE  Between(s, i, i) = <<s[i]>>
<1> DEFINE r == SubSeq(s, i, i)
           q == <<s[i]>>
<1>1. r \in Seq(Pieces) /\ Len(r) = 1 /\ r[1] = s[i]
  OBVIOUS
<1>2. s[i] \in Pieces
  OBVIOUS
<1>3. q \in Seq(Pieces) /\ Len(q) = 1 /\ q[1] = s[i]
  BY <1>2
<1> HIDE DEF r, q
<1>4. Len(r) = Len(q) /\ \A j \in 1 .. Len(q) : r[j] = q[j]
  BY <1>1, <1>3
<1>5. r = q
  BY <1>1, <1>3, <1>4, SameSeq, Zenon
<1> QED
  BY <1>5 DEF r, q, Between

LEMMA TwoPieces ==
  ASSUME NEW s \in Seq(Pieces), NEW i \in 1 .. Len(s), i + 1 \in 1 .. Len(s)
  PROVE  Between(s, i, i + 1) = <<s[i], s[i + 1]>>
<1> DEFINE r == SubSeq(s, i, i + 1)
           q == <<s[i], s[i + 1]>>
<1>1. r \in Seq(Pieces) /\ Len(r) = 2 /\ r[1] = s[i] /\ r[2] = s[i + 1]
  OBVIOUS
<1>2. s[i] \in Pieces /\ s[i + 1] \in Pieces
  OBVIOUS
<1>3. q \in Seq(Pieces) /\ Len(q) = 2 /\ q[1] = s[i] /\ q[2] = s[i + 1]
  BY <1>2
<1> HIDE DEF r, q
<1>4. Len(r) = Len(q) /\ \A j \in 1 .. Len(q) : r[j] = q[j]
  BY <1>1, <1>3
<1>5. r = q
  BY <1>1, <1>3, <1>4, SameSeq, Zenon
<1> QED
  BY <1>5 DEF r, q, Between

\* What is behind k pieces in front of a path.
LEMMA PathIn ==
  ASSUME NEW s \in Seq(Pieces), NEW path \in Seq(Pieces), NEW k \in Nat,
         Len(s) = Len(path) + k + 1, \A i \in 1 .. Len(path) : s[i + k] = path[i]
  PROVE  Between(s, k + 1, Len(s) - 1) = path
<1> DEFINE r == SubSeq(s, k + 1, Len(s) - 1)
<1>1. Len(path) \in Nat /\ Len(s) - 1 = Len(path) + k
  OBVIOUS
<1>2. r \in Seq(Pieces) /\ Len(r) = Len(path)
  BY <1>1
<1>3. ASSUME NEW i \in 1 .. Len(path) PROVE r[i] = path[i]
  <2>1. r[i] = s[k + 1 + i - 1] /\ k + 1 + i - 1 = i + k
    BY <1>1
  <2> QED
    BY <2>1
<1> HIDE DEF r
<1>4. r = path
  BY <1>2, <1>3
<1> QED
  BY <1>4 DEF r, Between

LEMMA LogConfFacts ==
  ASSUME NEW path \in Seq(Pieces), NEW n \in Nat, CacheQty \in Nat, NEW s, s = LogConf(path, n)
  PROVE  IsLogConf(s, path, n)
<1> DEFINE front == <<"INIT", "=", "LD_NEXT", Space, "MODE", "=", "Log", "Mmap", Space,
                      "LOG_QTY", "=", Decimal(n), Space, "CACHE_QTY", "=", Decimal(CacheQty),
                      Space, "LOG_PATH", "=">>
<1>1. /\ front[1] = "INIT" /\ front[2] = "=" /\ front[3] = "LD_NEXT" /\ front[4] = Space
      /\ front[5] = "MODE" /\ front[6] = "=" /\ front[7] = "Log" /\ front[8] = "Mmap"
      /\ front[9] = Space /\ front[10] = "LOG_QTY" /\ front[11] = "="
      /\ front[12] = Decimal(n) /\ front[13] = Space /\ front[14] = "CACHE_QTY"
      /\ front[15] = "=" /\ front[16] = Decimal(CacheQty) /\ front[17] = Space
      /\ front[18] = "LOG_PATH" /\ front[19] = "="
  OBVIOUS
<1>2. front \in Seq(Pieces) /\ Len(front) = 19
  <2>1. {"INIT", "=", "LD_NEXT", Space, "MODE", "Log", "Mmap", "LOG_QTY", Decimal(n),
         "CACHE_QTY", Decimal(CacheQty), "LOG_PATH"} \subseteq Pieces
    BY DEF Pieces, Marks
  <2> QED
    BY <2>1
<1>3. s = front \o Quoted(path)
  BY DEF LogConf
<1> HIDE DEF front
<1>4. Len(path) \in Nat
  OBVIOUS
<1>5. /\ s \in Seq(Pieces) /\ Len(s) = Len(front) + Len(path) + 2
      /\ \A i \in 1 .. Len(front) : s[i] = front[i]
      /\ s[Len(front) + 1] = "'" /\ s[Len(s)] = "'"
      /\ \A i \in 1 .. Len(path) : s[Len(front) + 1 + i] = path[i]
  <2> DEFINE q == front \o Quoted(path)
  <2>1. /\ q \in Seq(Pieces) /\ Len(q) = Len(front) + Len(path) + 2
        /\ \A i \in 1 .. Len(front) : q[i] = front[i]
        /\ q[Len(front) + 1] = "'" /\ q[Len(q)] = "'"
        /\ \A i \in 1 .. Len(path) : q[Len(front) + 1 + i] = path[i]
    BY <1>2, QuotedAtEnd
  <2> QED
    BY <1>3, <2>1
<1>6. ASSUME NEW i \in 1 .. Len(path) PROVE s[i + 20] = path[i]
  <2>1. i + 20 = Len(front) + 1 + i
    BY <1>2
  <2> QED
    BY <1>5, <2>1
<1>7. \A i \in 1 .. 19 : s[i] = front[i]
  BY <1>2, <1>5
<1>8. /\ s[1] = front[1] /\ s[2] = front[2] /\ s[3] = front[3] /\ s[4] = front[4]
      /\ s[5] = front[5] /\ s[6] = front[6] /\ s[7] = front[7] /\ s[8] = front[8]
      /\ s[9] = front[9]
  BY <1>7
<1>9. /\ s[10] = front[10] /\ s[11] = front[11] /\ s[12] = front[12] /\ s[13] = front[13]
      /\ s[14] = front[14] /\ s[15] = front[15] /\ s[16] = front[16] /\ s[17] = front[17]
      /\ s[18] = front[18] /\ s[19] = front[19]
  BY <1>7
<1>10. s[20] = "'" /\ s[Len(s)] = "'" /\ s \in Seq(Pieces) /\ Len(s) = Len(path) + 21
  BY <1>2, <1>4, <1>5
<1>11. /\ s[1] = "INIT" /\ s[2] = "=" /\ s[3] = "LD_NEXT" /\ s[4] = Space
       /\ s[5] = "MODE" /\ s[6] = "=" /\ s[7] = "Log" /\ s[8] = "Mmap" /\ s[9] = Space
  BY <1>1, <1>8
<1>12. /\ s[10] = "LOG_QTY" /\ s[11] = "=" /\ s[12] = Decimal(n) /\ s[13] = Space
       /\ s[14] = "CACHE_QTY" /\ s[15] = "=" /\ s[16] = Decimal(CacheQty) /\ s[17] = Space
       /\ s[18] = "LOG_PATH" /\ s[19] = "="
  BY <1>1, <1>9
<1> QED
  BY <1>6, <1>10, <1>11, <1>12 DEF IsLogConf

\* What libmprof makes of them, whatever the path.
LEMMA ParsedCount ==
  ASSUME NEW path, NEW s, IsCountConf(s, path)
  PROVE  /\ Parsed(s).mode = <<"Count">> /\ Parsed(s).init
         /\ Parsed(s).first = 1 /\ Parsed(s).grow = 0 /\ Parsed(s).block = 1
         /\ Plain(path) => Parsed(s).path = path
<1>1. /\ s \in Seq(Pieces) /\ path \in Seq(Pieces) /\ Len(s) = Len(path) + 12
      /\ s[1] = "INIT" /\ s[2] = "=" /\ s[3] = "LD_NEXT" /\ s[4] = Space
      /\ s[5] = "MODE" /\ s[6] = "=" /\ s[7] = "Count" /\ s[8] = Space
      /\ s[9] = "COUNTS_PATH" /\ s[10] = "=" /\ s[11] = "'" /\ s[Len(s)] = "'"
      /\ \A i \in 1 .. Len(path) : s[i + 11] = path[i]
  BY DEF IsCountConf
<1>2. Len(path) \in Nat
  BY <1>1
<1>3. HasArg(s, "INIT") /\ Arg(s, "INIT") = <<"LD_NEXT">>
  <2>1. 1 \in 1 .. Len(s) /\ 4 \in 3 .. Len(s) /\ 3 \in 1 .. Len(s)
    BY <1>1, <1>2
  <2>2. s[3] \notin Quotes /\ s[3] # Space
    <3>1. s[3] = "LD_NEXT"
      BY <1>1
    <3> QED
      BY <3>1 DEF Quotes, Space
  <2>3. \A j \in 3 .. 3 : s[j] # Space
    BY <2>2
  <2>4. BareAt(s, "INIT", 0, 1, 2, 3, 3, 4)
    BY <1>1, <2>1, <2>2, <2>3 DEF BareAt
  <2>5. HasArg(s, "INIT") /\ Arg(s, "INIT") = Between(s, 3, 3)
    BY <2>4, BareArg
  <2>6. Between(s, 3, 3) = <<s[3]>>
    BY <1>1, <2>1, OnePiece
  <2> QED
    BY <1>1, <2>5, <2>6
<1>4. HasArg(s, "MODE") /\ Arg(s, "MODE") = <<"Count">>
  <2>1. 5 \in 1 .. Len(s) /\ 8 \in 7 .. Len(s) /\ 7 \in 1 .. Len(s)
    BY <1>1, <1>2
  <2>2. s[7] \notin Quotes /\ s[7] # Space
    <3>1. s[7] = "Count"
      BY <1>1
    <3> QED
      BY <3>1 DEF Quotes, Space
  <2>3. \A j \in 7 .. 7 : s[j] # Space
    BY <2>2
  <2>4. \A j \in 1 .. 4 : s[j] # "MODE"
    BY <1>1, Places DEF Space
  <2>5. BareAt(s, "MODE", 4, 5, 6, 7, 7, 8)
    BY <1>1, <2>1, <2>2, <2>3, <2>4 DEF BareAt
  <2>6. HasArg(s, "MODE") /\ Arg(s, "MODE") = Between(s, 7, 7)
    BY <2>5, BareArg
  <2>7. Between(s, 7, 7) = <<s[7]>>
    BY <1>1, <2>1, OnePiece
  <2> QED
    BY <1>1, <2>6, <2>7
<1>5. Plain(path) => Arg(s, "COUNTS_PATH") = path
  <2> HAVE Plain(path)
  <2>1. \A i \in 1 .. Len(path) : path[i] # "'"
    BY DEF Plain, ToSet
  <2>2. ASSUME NEW j \in 12 .. Len(s) - 1 PROVE s[j] # "'"
    <3>1. j - 11 \in 1 .. Len(path) /\ j - 11 + 11 = j
      BY <1>1, <1>2
    <3> QED
      BY <1>1, <2>1, <3>1
  <2>3. 9 \in 1 .. Len(s) /\ Len(s) \in 12 .. Len(s)
    BY <1>1, <1>2
  <2>4. \A j \in 1 .. 8 : s[j] # "COUNTS_PATH"
    BY <1>1, Places DEF Space
  <2>5. QuotedAt(s, "COUNTS_PATH", 8, 9, 10, 11, 12, Len(s))
    BY <1>1, <2>2, <2>3, <2>4 DEF QuotedAt
  <2>6. Arg(s, "COUNTS_PATH") = Between(s, 12, Len(s) - 1)
    BY <2>5, QuotedArg
  <2>7. Between(s, 11 + 1, Len(s) - 1) = path
    <3>1. 11 \in Nat /\ Len(s) = Len(path) + 11 + 1
      BY <1>1, <1>2
    <3> QED
      BY <1>1, <3>1, PathIn
  <2>8. 11 + 1 = 12
    OBVIOUS
  <2> QED
    BY <2>6, <2>7, <2>8
<1>6. ModeOf(s) = <<"Count">> /\ InitFound(s)
  BY <1>3, <1>4, Names DEF ModeOf, InitFound, ModeNames
<1> QED
  BY <1>5, <1>6 DEF Parsed

LEMMA ParsedLog ==
  ASSUME NEW path, NEW n \in Nat, NEW s, IsLogConf(s, path, n), CacheQty \in Nat, Decimals
  PROVE  /\ Parsed(s).mode = <<"Log", "Mmap">> /\ Parsed(s).init
         /\ Parsed(s).first = n /\ Parsed(s).grow = n /\ Parsed(s).block = CacheQty
         /\ Plain(path) => Parsed(s).path = path
<1>1. /\ s \in Seq(Pieces) /\ path \in Seq(Pieces) /\ Len(s) = Len(path) + 21
      /\ s[1] = "INIT" /\ s[2] = "=" /\ s[3] = "LD_NEXT" /\ s[4] = Space
      /\ s[5] = "MODE" /\ s[6] = "=" /\ s[7] = "Log" /\ s[8] = "Mmap" /\ s[9] = Space
      /\ s[10] = "LOG_QTY" /\ s[11] = "=" /\ s[12] = Decimal(n) /\ s[13] = Space
      /\ s[14] = "CACHE_QTY" /\ s[15] = "=" /\ s[16] = Decimal(CacheQty) /\ s[17] = Space
      /\ s[18] = "LOG_PATH" /\ s[19] = "=" /\ s[20] = "'" /\ s[Len(s)] = "'"
      /\ \A i \in 1 .. Len(path) : s[i + 20] = path[i]
  BY DEF IsLogConf
<1>2. Len(path) \in Nat
  BY <1>1
<1>3. \A m \in {n, CacheQty} :
        /\ Decimal(m) \notin Quotes /\ Decimal(m) # Space /\ Strtol(<<Decimal(m)>>) = m
        /\ Decimal(m) # "CACHE_QTY" /\ Decimal(m) # "LOG_PATH"
  BY DEF Decimals, Marks
<1>4. HasArg(s, "INIT") /\ Arg(s, "INIT") = <<"LD_NEXT">>
  <2>1. 1 \in 1 .. Len(s) /\ 4 \in 3 .. Len(s) /\ 3 \in 1 .. Len(s)
    BY <1>1, <1>2
  <2>2. s[3] \notin Quotes /\ s[3] # Space
    <3>1. s[3] = "LD_NEXT"
      BY <1>1
    <3> QED
      BY <3>1 DEF Quotes, Space
  <2>3. \A j \in 3 .. 3 : s[j] # Space
    BY <2>2
  <2>4. BareAt(s, "INIT", 0, 1, 2, 3, 3, 4)
    BY <1>1, <2>1, <2>2, <2>3 DEF BareAt
  <2>5. HasArg(s, "INIT") /\ Arg(s, "INIT") = Between(s, 3, 3)
    BY <2>4, BareArg
  <2>6. Between(s, 3, 3) = <<s[3]>>
    BY <1>1, <2>1, OnePiece
  <2> QED
    BY <1>1, <2>5, <2>6
<1>5. HasArg(s, "MODE") /\ Arg(s, "MODE") = <<"Log", "Mmap">>
  <2>1. /\ 5 \in 1 .. Len(s) /\ 9 \in 7 .. Len(s) /\ 7 \in 1 .. Len(s)
        /\ 7 + 1 = 8 /\ 7 + 1 \in 1 .. Len(s)
    BY <1>1, <1>2
  <2>2. s[7] \notin Quotes /\ s[7] # Space /\ s[8] # Space
    <3>1. s[7] = "Log" /\ s[8] = "Mmap"
      BY <1>1
    <3> QED
      BY <3>1 DEF Quotes, Space
  <2>3. \A j \in 7 .. 8 : s[j] # Space
    BY <2>2, Places
  <2>4. \A j \in 1 .. 4 : s[j] # "MODE"
    BY <1>1, Places DEF Space
  <2>5. BareAt(s, "MODE", 4, 5, 6, 7, 8, 9)
    BY <1>1, <2>1, <2>2, <2>3, <2>4 DEF BareAt
  <2>6. HasArg(s, "MODE") /\ Arg(s, "MODE") = Between(s, 7, 8)
    BY <2>5, BareArg
  <2>7. Between(s, 7, 7 + 1) = <<s[7], s[7 + 1]>>
    BY <1>1, <2>1, TwoPieces
  <2>8. Between(s, 7, 8) = <<s[7], s[8]>>
    BY <2>1, <2>7
  <2> QED
    BY <1>1, <2>6, <2>8
<1>6. HasArg(s, "LOG_QTY") /\ Arg(s, "LOG_QTY") = <<Decimal(n)>>
  <2>1. 10 \in 1 .. Len(s) /\ 13 \in 12 .. Len(s) /\ 12 \in 1 .. Len(s)
    BY <1>1, <1>2
  <2>2. s[12] \notin Quotes /\ s[12] # Space
    BY <1>1, <1>3
  <2>3. \A j \in 12 .. 12 : s[j] # Space
    BY <2>2
  <2>4. \A j \in 1 .. 9 : s[j] # "LOG_QTY"
    BY <1>1, Places DEF Space
  <2>5. BareAt(s, "LOG_QTY", 9, 10, 11, 12, 12, 13)
    BY <1>1, <2>1, <2>2, <2>3, <2>4 DEF BareAt
  <2>6. HasArg(s, "LOG_QTY") /\ Arg(s, "LOG_QTY") = Between(s, 12, 12)
    BY <2>5, BareArg
  <2>7. Between(s, 12, 12) = <<s[12]>>
    BY <1>1, <2>1, OnePiece
  <2> QED
    BY <1>1, <2>6, <2>7
<1>7. HasArg(s, "CACHE_QTY") /\ Arg(s, "CACHE_QTY") = <<Decimal(CacheQty)>>
  <2>1. 14 \in 1 .. Len(s) /\ 17 \in 16 .. Len(s) /\ 16 \in 1 .. Len(s)
    BY <1>1, <1>2
  <2>2. s[16] \notin Quotes /\ s[16] # Space /\ s[12] # "CACHE_QTY"
    BY <1>1, <1>3
  <2>3. \A j \in 16 .. 16 : s[j] # Space
    BY <2>2
  <2>4. \A j \in 1 .. 13 : s[j] # "CACHE_QTY"
    BY <1>1, <2>2, Places DEF Space
  <2>5. BareAt(s, "CACHE_QTY", 13, 14, 15, 16, 16, 17)
    BY <1>1, <2>1, <2>2, <2>3, <2>4 DEF BareAt
  <2>6. HasArg(s, "CACHE_QTY") /\ Arg(s, "CACHE_QTY") = Between(s, 16, 16)
    BY <2>5, BareArg
  <2>7. Between(s, 16, 16) = <<s[16]>>
    BY <1>1, <2>1, OnePiece
  <2> QED
    BY <1>1, <2>6, <2>7
<1>8. Plain(path) => Arg(s, "LOG_PATH") = path
  <2> HAVE Plain(path)
  <2>1. \A i \in 1 .. Len(path) : path[i] # "'"
    <3>1. path \in Seq(Pieces)
      BY <1>1
    <3> QED
      BY <3>1 DEF Plain, ToSet
  <2>2. ASSUME NEW j \in 21 .. Len(s) - 1 PROVE s[j] # "'"
    <3>1. j - 20 \in 1 .. Len(path) /\ j - 20 + 20 = j
      BY <1>1, <1>2
    <3>2. \A i \in 1 .. Len(path) : s[i + 20] = path[i]
      BY <1>1
    <3>3. s[j - 20 + 20] = path[j - 20]
      BY <3>1, <3>2
    <3> QED
      BY <2>1, <3>1, <3>3
  <2>3. 18 \in 1 .. Len(s) /\ Len(s) \in 21 .. Len(s)
    BY <1>1, <1>2
  <2>4. \A j \in 1 .. 17 : s[j] # "LOG_PATH"
    <3>1. s[12] # "LOG_PATH" /\ s[16] # "LOG_PATH"
      BY <1>1, <1>3
    <3> QED
      BY <1>1, <3>1, Places DEF Space
  <2>5. QuotedAt(s, "LOG_PATH", 17, 18, 19, 20, 21, Len(s))
    BY <1>1, <2>2, <2>3, <2>4 DEF QuotedAt
  <2>6. Arg(s, "LOG_PATH") = Between(s, 21, Len(s) - 1)
    BY <2>5, QuotedArg
  <2>7. Between(s, 20 + 1, Len(s) - 1) = path
    <3>1. 20 \in Nat /\ Len(s) = Len(path) + 20 + 1
      BY <1>1, <1>2
    <3> QED
      BY <1>1, <3>1, PathIn
  <2>8. 20 + 1 = 21
    OBVIOUS
  <2> QED
    BY <2>6, <2>7, <2>8
<1>9. ModeOf(s) = <<"Log", "Mmap">> /\ InitFound(s)
  BY <1>4, <1>5, Names DEF ModeOf, InitFound, ModeNames
<1>10. <<"Log", "Mmap">> # <<"Count">>
  OBVIOUS
<1> QED
  BY <1>3, <1>6, <1>7, <1>8, <1>9, <1>10 DEF Parsed, Number

\* ... and of defaultConfig, in a process that no run has started.
LEMMA ParsedDefault == Parsed(DefaultConfig).block = 1
<1> DEFINE d == DefaultConfig
<1>1. /\ d[1] = "INIT" /\ d[2] = "=" /\ d[3] = "LD_NEXT" /\ d[4] = Space
      /\ d[5] = "MODE" /\ d[6] = "=" /\ d[7] = "Count" /\ Len(d) = 7
  BY DEF DefaultConfig
<1>2. d \in Seq(Pieces)
  BY DEF DefaultConfig, Pieces, Marks
<1> HIDE DEF d
<1>3. DOMAIN d = 1 .. 7
  BY <1>1, <1>2
<1>4. FindKey(d, "MODE") = 5
  <2>1. \A j \in 1 .. 4 : d[j] # "MODE"
    BY <1>1, Places DEF Space
  <2>2. 5 \in 1 .. Len(d) /\ 5 - 1 = 4
    BY <1>1
  <2> QED
    BY <1>1, <1>2, <2>1, <2>2, FirstKey
<1>5. GetValue(d, 6) = [at |-> 7, size |-> 1]
  <2> DEFINE ends == {k \in DOMAIN d : k >= 7 /\ d[k] = Space} \union {Len(d) + 1}
  <2>1. d[7] # Space /\ d[7] \notin Quotes
    <3>1. d[7] = "Count"
      BY <1>1
    <3> QED
      BY <3>1 DEF Quotes, Space
  <2>2. ends = {8}
    BY <1>1, <1>3, <2>1
  <2>3. Least(ends) = 8
    BY <2>2, LeastIs
  <2>4. PieceAt(d, 6) = "=" /\ PieceAt(d, 7) \notin Quotes
    BY <1>1, <1>3, <2>1 DEF PieceAt
  <2>5. 6 + 1 = 7 /\ 8 - 7 = 1
    OBVIOUS
  <2> QED
    BY <2>2, <2>3, <2>4, <2>5 DEF GetValue
<1>6. HasArg(d, "MODE") /\ Arg(d, "MODE") = <<"Count">>
  <2>1. FindArg(d, "MODE") = [at |-> 7, size |-> 1] /\ NoValue.at = 0
    <3>1. 5 + 1 = 6 /\ 5 # 0
      OBVIOUS
    <3> QED
      BY <1>4, <1>5, <3>1 DEF FindArg, NoValue
  <2>2. FindArg(d, "MODE").at = 7 /\ FindArg(d, "MODE").size = 1 /\ 7 + 1 - 1 = 7
    BY <2>1
  <2>3. HasArg(d, "MODE")
    BY <2>1, <2>2 DEF HasArg
  <2>4. Arg(d, "MODE") = Between(d, 7, 7)
    BY <2>2 DEF Arg, Text, Between
  <2>5. Between(d, 7, 7) = <<d[7]>>
    <3>1. 7 \in 1 .. Len(d)
      BY <1>1
    <3> QED
      BY <1>2, <3>1, OnePiece
  <2> QED
    BY <1>1, <2>3, <2>4, <2>5
<1>7. ModeOf(d) = <<"Count">>
  BY <1>6, Names DEF ModeOf, ModeNames
<1> QED
  BY <1>7 DEF Parsed, d

-----------------------------------------------------------------------------
(* What holds of every process, file and stage.                             *)

\* What libmprof finds in run k, and how many records a thread claims.
LEMMA ConfFacts ==
  ASSUME StageOK, Decimals, NEW k \in Runs
  PROVE  /\ k = 1 => /\ ConfOf(k).mode = <<"Count">> /\ ConfOf(k).init
                     /\ ConfOf(k).first = 1 /\ ConfOf(k).grow = 0 /\ ConfOf(k).block = 1
                     /\ Plain(options.counts) => ConfOf(k).path = options.counts
         /\ k = 2 => /\ ConfOf(k).mode = <<"Log", "Mmap">> /\ ConfOf(k).init
                     /\ ConfOf(k).first = qty /\ ConfOf(k).grow = qty
                     /\ ConfOf(k).block = CacheQty
                     /\ Plain(options.log) => ConfOf(k).path = options.log
<1>1. options.counts \in Seq(Pieces) /\ options.log \in Seq(Pieces)
  <2>1. {options.counts, options.log} \subseteq Seq(STRING)
    BY OptionsAssumption DEF StageOK
  <2>2. STRING \subseteq Pieces
    BY DEF Pieces
  <2>3. ASSUME NEW q \in Seq(STRING) PROVE q \in Seq(Pieces)
    <3>1. Len(q) \in Nat /\ q = [i \in 1 .. Len(q) |-> q[i]] /\ \A i \in 1 .. Len(q) : q[i] \in STRING
      OBVIOUS
    <3>2. q \in [1 .. Len(q) -> Pieces]
      BY <2>2, <3>1
    <3> QED
      BY <3>1, <3>2, SeqDef
  <2> QED
    BY <2>1, <2>3
<1>2. IsCountConf(CountConf(options.counts), options.counts)
  BY <1>1, CountConfFacts
<1>3. CacheQty \in Nat /\ qty \in Nat
  BY TestRunAssumption DEF StageOK
<1>4. IsLogConf(LogConf(options.log, qty), options.log, qty)
  BY <1>1, <1>3, LogConfFacts
<1>5. CASE k = 1
  <2> DEFINE s == CountConf(options.counts)
  <2>1. /\ Parsed(s).mode = <<"Count">> /\ Parsed(s).init
        /\ Parsed(s).first = 1 /\ Parsed(s).grow = 0 /\ Parsed(s).block = 1
        /\ Plain(options.counts) => Parsed(s).path = options.counts
    BY <1>2, ParsedCount
  <2>2. ConfOf(k) = Parsed(s)
    BY <1>5 DEF ConfOf
  <2> HIDE DEF s
  <2> QED
    BY <1>5, <2>1, <2>2
<1>6. CASE k = 2
  <2> DEFINE s == LogConf(options.log, qty)
  <2>1. /\ Parsed(s).mode = <<"Log", "Mmap">> /\ Parsed(s).init
        /\ Parsed(s).first = qty /\ Parsed(s).grow = qty /\ Parsed(s).block = CacheQty
        /\ Plain(options.log) => Parsed(s).path = options.log
    BY <1>3, <1>4, ParsedLog
  <2>2. ConfOf(k) = Parsed(s)
    BY <1>6 DEF ConfOf
  <2> HIDE DEF s
  <2> QED
    BY <1>6, <2>1, <2>2
<1> QED
  BY <1>5, <1>6 DEF Runs

LEMMA Blocks ==
  ASSUME StageOK, Decimals, NEW k \in Runs
  PROVE  /\ ConfOf(k).block \in 1 .. CacheQty /\ ConfOf(k).first \in Nat /\ ConfOf(k).grow \in Nat
         /\ ConfOf(k).mode = <<"Count">> => ConfOf(k).block = 1
<1>1. <<"Count">> # <<"Log", "Mmap">> /\ (k = 1 \/ k = 2)
  BY DEF Runs
<1>2. CacheQty \in Nat /\ CacheQty >= 1 /\ qty \in Nat
  BY TestRunAssumption DEF StageOK
<1> QED
  BY <1>1, <1>2, ConfFacts

\* NoProcess fits any run, and so does a new image.
LEMMA NoProcessOK ==
  ASSUME NEW k \in Runs
  PROVE  ProcOK(k, NoProcess)
<1>1. NoProcess \in Processes(k)
  BY DEF NoProcess, Processes, NULL
<1>2. /\ NoProcess.life = "none" /\ NoProcess.lib = "absent" /\ NoProcess.opt.block = 1
  BY ParsedDefault DEF NoProcess
<1>3. NoProcess.size = 0 /\ NoProcess.next = 0 /\ NoProcess.resize = 0 /\ \A t \in Threads : NoProcess.at[t] = NULL
  BY DEF NoProcess
<1>4. \A t \in Threads : PlaceOK(NoProcess, t)
  BY <1>2, <1>3 DEF PlaceOK, NoProcess
<1> QED
  BY <1>1, <1>2, <1>3, <1>4 DEF ProcOK

LEMMA ImageOK ==
  ASSUME StageOK, Decimals, NEW k \in Runs, k \in started,
         NEW prog \in {"sh", "cmd"}, NEW lib \in {"absent", "fresh"}, NEW most \in [Threads -> Nat]
  PROVE  ProcOK(k, Image(prog, ConfOf(k), lib, most))
<1> DEFINE r == Image(prog, ConfOf(k), lib, most)
           q == NoProcess
<1>1. /\ q \in Processes(k) /\ q.size = 0 /\ q.next = 0 /\ q.resize = 0
      /\ \A t \in Threads : q.at[t] = NULL /\ q.left[t] = 1
  BY NoProcessOK DEF ProcOK, NoProcess
<1>2. r = [q EXCEPT !.life = "up", !.prog = prog, !.opt = ConfOf(k), !.lib = lib, !.most = most]
  BY DEF Image
<1> HIDE DEF q, r
<1>3. r \in Processes(k)
  BY <1>1, <1>2 DEF Processes
<1>4. /\ r.life = "up" /\ r.opt = ConfOf(k) /\ r.lib = lib /\ r.size = q.size
      /\ r.next = q.next /\ r.at = q.at /\ r.left = q.left /\ r.resize = q.resize
  BY <1>1, <1>2 DEF Processes
<1>5. ConfOf(k).block \in 1 .. CacheQty /\ CacheQty \in Nat
  BY Blocks, TestRunAssumption
<1>6. \A t \in Threads : PlaceOK(r, t)
  BY <1>1, <1>4, <1>5 DEF PlaceOK
<1>7. ProcOK(k, r)
  BY <1>1, <1>3, <1>4, <1>6 DEF ProcOK
<1> QED
  BY <1>7 DEF r

\* What the steps of a process do to a file.
LEMMA FileSized ==
  ASSUME NEW f, FileOK(f), NEW n \in Nat
  PROVE  FileOK(Resized(f, n))
<1> DEFINE g == Resized(f, n)
<1>1. /\ DOMAIN g = {"len", "at"} /\ g.len = n
      /\ g.at = [s \in 0 .. n - 1 |-> IF s < f.len THEN f.at[s] ELSE EmptySlot]
  BY DEF Resized
<1>2. IsFiniteSet(EmptySlot.calls)
  BY FS_EmptySet DEF EmptySlot
<1>3. \A s \in 0 .. f.len - 1 : IsFiniteSet(f.at[s].calls)
  BY DEF FileOK
<1> HIDE DEF g
<1>4. ASSUME NEW s \in 0 .. n - 1 PROVE IsFiniteSet(g.at[s].calls)
  <2>1. s < f.len => s \in 0 .. f.len - 1
    BY DEF FileOK
  <2> QED
    BY <1>1, <1>2, <1>3, <2>1
<1>5. FileOK(g)
  BY <1>1, <1>4 DEF FileOK
<1> QED
  BY <1>5 DEF g

LEMMA NoFileOK == FileOK(NoFile)
BY DEF FileOK, NoFile

LEMMA FilePut ==
  ASSUME NEW f, FileOK(f), NEW s \in 0 .. f.len - 1, NEW r, NEW c
  PROVE  FileOK([f EXCEPT !.at[s] = Put(r, @, c)])
<1> DEFINE new == Put(r, f.at[s], c)
           g == [f EXCEPT !.at[s] = Put(r, @, c)]
<1>1. IsFiniteSet(new.calls)
  <2>1. IsFiniteSet(f.at[s].calls) /\ IsFiniteSet({c})
    BY FS_Singleton DEF FileOK
  <2>2. IsFiniteSet(f.at[s].calls \union {c})
    BY <2>1, FS_Union
  <2> QED
    BY <2>1, <2>2 DEF Put
<1>2. g.len = f.len /\ g.at = [f.at EXCEPT ![s] = new] /\ DOMAIN g = {"len", "at"}
  <2>1. DOMAIN f = {"len", "at"}
    BY DEF FileOK
  <2>2. DOMAIN g = {"len", "at"} /\ g.len = f.len
    BY <2>1
  <2>3. g.at = [f.at EXCEPT ![s] = Put(r, f.at[s], c)]
    BY <2>1
  <2> QED
    BY <2>2, <2>3
<1> HIDE DEF g, new
<1>3. /\ f.len \in Nat /\ f.at = [i \in 0 .. f.len - 1 |-> f.at[i]]
      /\ \A i \in 0 .. f.len - 1 : IsFiniteSet(f.at[i].calls)
  BY DEF FileOK
<1>4. g.at = [i \in 0 .. g.len - 1 |-> g.at[i]]
  BY <1>2, <1>3
<1>5. \A i \in 0 .. g.len - 1 : g.at[i] = IF i = s THEN new ELSE f.at[i]
  BY <1>2, <1>3
<1>6. FileOK(g)
  BY <1>1, <1>2, <1>3, <1>4, <1>5 DEF FileOK
<1> QED
  BY <1>6 DEF g

LEMMA WithOK ==
  ASSUME \A q \in DOMAIN files : FileOK(files[q]), NEW path, NEW f, FileOK(f),
         files' = With(path, f)
  PROVE  /\ DOMAIN files' = DOMAIN files \union {path} /\ files'[path] = f
         /\ \A q \in DOMAIN files' : FileOK(files'[q])
         /\ \A q \in DOMAIN files \ {path} : files'[q] = files[q]
BY DEF With

LEMMA SafeInit ==
  ASSUME Init
  PROVE  SafeInv
<1>1. StageOK
  BY TestRunAssumption DEF Init, StageOK, NoArea, Runs, Ended
<1>2. Released
  BY DEF Init, Released
<1>3. procs = [k \in Runs |-> [p \in Pids |-> procs[k][p]]] /\ \A k \in Runs, p \in Pids : procs[k][p] = NoProcess
  BY DEF Init, ProcsInit
<1>4. \A k \in Runs, p \in Pids : ProcOK(k, procs[k][p])
  BY <1>3, NoProcessOK
<1>5. ASSUME NEW q \in DOMAIN files PROVE FileOK(files[q])
  <2>1. CASE files = << >>
    BY <2>1
  <2>2. CASE files # << >>
    <3>1. ASSUME NEW mode PROVE FileOK(StaleFile(mode))
      <4> DEFINE f == StaleFile(mode)
                 c == Call(0, MainPid, "old", CHOOSE t \in Threads : TRUE, 1)
      <4>1. IsFiniteSet({c})
        BY FS_Singleton
      <4>2. /\ f.len = 1 /\ DOMAIN f = {"len", "at"}
            /\ f.at = [s \in 0 .. 0 |-> [mode |-> mode, calls |-> {c}]]
        BY DEF StaleFile
      <4> HIDE DEF f, c
      <4>3. f.at = [s \in 0 .. f.len - 1 |-> f.at[s]] /\ \A s \in 0 .. f.len - 1 : f.at[s].calls = {c}
        BY <4>2
      <4>4. FileOK(f)
        BY <4>1, <4>2, <4>3 DEF FileOK
      <4> QED
        BY <4>4 DEF f
    <3>2. files = [p \in {options.counts, options.log} |->
                     StaleFile(IF p = options.counts THEN "counts" ELSE "alloc")]
      BY <2>2 DEF Init
    <3> QED
      BY <3>1, <3>2
  <2> QED
    BY <2>1, <2>2
<1> QED
  BY <1>1, <1>2, <1>3, <1>4, <1>5 DEF SafeInv

\* A process that does nothing keeps what holds of it.
LEMMA KeepsProc ==
  ASSUME NEW k \in Runs, NEW r, ProcOK(k, r), DOMAIN files \subseteq DOMAIN files',
         r.life # "none" => ConfOf(k)' = ConfOf(k) /\ k \in started'
  PROVE  ProcOK(k, r)'
<1>1. CASE r.life = "none"
  <2>1. ProcOK(k, NoProcess)'
    BY NoProcessOK, PTL
  <2> QED
    BY <1>1, <2>1 DEF ProcOK
<1>2. CASE r.life # "none"
  <2>1. r \in Processes(k)'
    BY <1>2 DEF ProcOK, Processes
  <2> QED
    BY <1>2, <2>1 DEF ProcOK, PlaceOK
<1> QED
  BY <1>1, <1>2

\* One process changes.
LEMMA BecomeShape ==
  ASSUME NEW k \in Runs, NEW p \in Pids, NEW r, Become(k, p, r),
         procs = [i \in Runs |-> [q \in Pids |-> procs[i][q]]]
  PROVE  procs' = [i \in Runs |-> [q \in Pids |-> IF i = k /\ q = p THEN r ELSE procs[i][q]]]
<1>1. DOMAIN procs = Runs /\ \A i \in Runs : DOMAIN procs[i] = Pids
  OBVIOUS
<1>2. \A i \in Runs : procs'[i] = IF i = k THEN [procs[i] EXCEPT ![p] = r] ELSE procs[i]
  BY <1>1 DEF Become
<1>3. ASSUME NEW i \in Runs
      PROVE  procs'[i] = [q \in Pids |-> IF i = k /\ q = p THEN r ELSE procs[i][q]]
  <2>1. procs[i] = [q \in Pids |-> procs[i][q]]
    OBVIOUS
  <2>2. CASE i = k
    BY <1>1, <1>2, <2>1, <2>2
  <2>3. CASE i # k
    BY <1>2, <2>1, <2>3
  <2> QED
    BY <2>2, <2>3
<1>4. procs' = [i \in Runs |-> procs'[i]]
  BY <1>1 DEF Become
<1> QED
  BY <1>3, <1>4, Zenon

\* A step of one process.
LEMMA BecomeSafe ==
  ASSUME SafeInv, NEW k \in Runs, NEW p \in Pids, NEW r, Become(k, p, r),
         UNCHANGED <<job, tool>>, DOMAIN files \subseteq DOMAIN files',
         \A q \in DOMAIN files' : FileOK(files'[q]), ProcOK(k, r)'
  PROVE  SafeInv'
<1>1. StageOK' /\ Released'
  BY DEF SafeInv, StageOK, Released, tool
<1>2. procs = [i \in Runs |-> [q \in Pids |-> procs[i][q]]]
  BY DEF SafeInv
<1>3. procs' = [i \in Runs |-> [q \in Pids |-> IF i = k /\ q = p THEN r ELSE procs[i][q]]]
  BY <1>2, BecomeShape
<1>4. procs' = [i \in Runs |-> [q \in Pids |-> procs'[i][q]]]
  BY <1>3
<1>5. ASSUME NEW i \in Runs, NEW q \in Pids PROVE ProcOK(i, procs[i][q])'
  <2>1. CASE i = k /\ q = p
    <3>1. procs'[i][q] = r
      BY <1>3, <2>1
    <3> QED
      BY <2>1, <3>1
  <2>2. CASE ~ (i = k /\ q = p)
    <3>1. PICK x : x = procs[i][q]
      OBVIOUS
    <3>2. procs'[i][q] = x
      BY <1>3, <2>2, <3>1
    <3>3. ProcOK(i, x)
      BY <3>1 DEF SafeInv
    <3>4. ConfOf(i)' = ConfOf(i) /\ (x.life # "none" => i \in started')
      BY <3>3 DEF ProcOK, tool, ConfOf
    <3>5. ProcOK(i, x)'
      BY <3>3, <3>4, KeepsProc
    <3> QED
      BY <3>2, <3>5
  <2> QED
    BY <2>1, <2>2
<1> QED
  BY <1>1, <1>4, <1>5 DEF SafeInv

\* A thread's place, in a process that is up.
LEMMA PlaceFacts ==
  ASSUME StageOK, Decimals, NEW k \in Runs, NEW r, ProcOK(k, r), r.life = "up", NEW t \in Threads
  PROVE  /\ r \in Processes(k) /\ r.opt = ConfOf(k) /\ k \in started
         /\ r.opt.block \in 1 .. CacheQty /\ CacheQty \in Nat /\ r.opt.grow \in Nat
         /\ r.next \in Nat /\ r.at \in [Threads -> Nat \union {NULL}] /\ r.left \in [Threads -> Nat]
         /\ r.n \in [Threads -> Nat]
         /\ Counting(r) => r.opt.block = 1
         /\ r.at[t] # NULL => r.at[t] \in Nat /\ r.at[t] + r.left[t] - 1 <= r.next
         /\ r.left[t] \in 1 .. r.opt.block + 1
         /\ ~ Claims(r, t) => r.at[t] # NULL
         /\ ~ Claims(r, t) /\ ~ Counting(r) => r.left[t] >= 2
         /\ Claiming(r, t) => r.at[t] # NULL
<1>1. /\ r \in Processes(k) /\ r.opt = ConfOf(k) /\ k \in started /\ PlaceOK(r, t)
  BY DEF ProcOK
<1>2. /\ r.opt.block \in 1 .. CacheQty /\ CacheQty \in Nat /\ r.opt.grow \in Nat
      /\ Counting(r) => r.opt.block = 1
  BY <1>1, Blocks, TestRunAssumption DEF Counting
<1>3. /\ r.next \in Nat /\ r.at \in [Threads -> Nat \union {NULL}]
      /\ r.left \in [Threads -> Nat] /\ r.n \in [Threads -> Nat]
  BY <1>1 DEF Processes
<1>4. /\ r.left[t] \in 1 .. r.opt.block + 1
      /\ r.at[t] # NULL => r.at[t] \in Nat /\ r.at[t] + r.left[t] - 1 <= r.next
      /\ r.at[t] = NULL => r.left[t] = 1
  BY <1>1, <1>3 DEF PlaceOK
<1>5. /\ ~ Claims(r, t) => r.at[t] # NULL
      /\ ~ Claims(r, t) /\ ~ Counting(r) => r.left[t] >= 2
      /\ Claiming(r, t) => r.at[t] # NULL
  BY <1>2, <1>4 DEF Claims, Claiming
<1> QED
  BY <1>1, <1>2, <1>3, <1>4, <1>5

\* The process behind a call, and behind a claim.
LEMMA AfterOK ==
  ASSUME StageOK, Decimals, NEW k \in Runs, NEW r, ProcOK(k, r), r.life = "up", r.lib = "ready",
         NEW t \in Threads, ~ Claims(r, t)
  PROVE  ProcOK(k, After(r, t))
<1> DEFINE a == After(r, t)
<1>1. /\ r \in Processes(k) /\ r.opt = ConfOf(k) /\ k \in started
      /\ r.opt.block \in 1 .. CacheQty /\ CacheQty \in Nat
      /\ r.next \in Nat /\ r.at \in [Threads -> Nat \union {NULL}] /\ r.left \in [Threads -> Nat]
      /\ r.n \in [Threads -> Nat]
      /\ Counting(r) => r.opt.block = 1
      /\ r.at[t] # NULL => r.at[t] \in Nat /\ r.at[t] + r.left[t] - 1 <= r.next
      /\ r.left[t] \in 1 .. r.opt.block + 1
      /\ r.at[t] # NULL
      /\ ~ Counting(r) => r.left[t] >= 2
  BY PlaceFacts
<1>2. r.opt.path \in DOMAIN files /\ \A u \in Threads : PlaceOK(r, u)
  BY DEF ProcOK
<1>3. /\ a.life = r.life /\ a.opt = r.opt /\ a.lib = r.lib /\ a.next = r.next /\ a.size = r.size
      /\ a.resize = r.resize /\ a.prog = r.prog /\ a.most = r.most
      /\ a.at = [r.at EXCEPT ![t] = IF Counting(r) THEN @ ELSE @ + 1]
      /\ a.left = [r.left EXCEPT ![t] = IF Counting(r) THEN r.opt.block ELSE @ - 1]
      /\ a.n = [r.n EXCEPT ![t] = @ + 1]
      /\ DOMAIN a = DOMAIN r
  BY <1>1 DEF After, Processes
<1>4. /\ a.at \in [Threads -> Nat \union {NULL}] /\ a.left \in [Threads -> Nat]
      /\ a.n \in [Threads -> Nat]
  BY <1>1, <1>3
<1>5. a \in Processes(k)
  BY <1>1, <1>3, <1>4 DEF After, Processes
<1> HIDE DEF a
<1>6. ASSUME NEW u \in Threads PROVE PlaceOK(a, u)
  <2>1. CASE u # t
    <3>1. a.at[u] = r.at[u] /\ a.left[u] = r.left[u]
      BY <1>1, <1>3, <2>1
    <3>2. PlaceOK(r, u)
      BY <1>2
    <3> QED
      BY <1>3, <3>1, <3>2 DEF PlaceOK
  <2>2. CASE u = t
    <3>1. CASE Counting(r)
      <4>1. a.at[t] = r.at[t] /\ a.left[t] = 1
        BY <1>1, <1>3, <3>1
      <4> QED
        BY <1>1, <1>3, <2>2, <4>1 DEF PlaceOK
    <3>2. CASE ~ Counting(r)
      <4>1. a.at[t] = r.at[t] + 1 /\ a.left[t] = r.left[t] - 1 /\ a.at[t] # NULL
        BY <1>1, <1>3, <3>2 DEF NULL
      <4> QED
        BY <1>1, <1>3, <2>2, <3>2, <4>1 DEF PlaceOK
    <3> QED
      BY <3>1, <3>2
  <2> QED
    BY <2>1, <2>2
<1>7. ProcOK(k, a)
  BY <1>1, <1>2, <1>3, <1>5, <1>6 DEF ProcOK
<1> QED
  BY <1>7 DEF a

LEMMA ClaimOK ==
  ASSUME StageOK, Decimals, NEW k \in Runs, NEW r, ProcOK(k, r), r.life = "up", r.lib = "ready",
         NEW t \in Threads
  PROVE  ProcOK(k, Claimed(r, t))
<1> DEFINE a == Claimed(r, t)
<1>1. /\ r \in Processes(k) /\ r.opt = ConfOf(k) /\ k \in started
      /\ r.opt.block \in 1 .. CacheQty /\ CacheQty \in Nat
      /\ r.next \in Nat /\ r.at \in [Threads -> Nat \union {NULL}] /\ r.left \in [Threads -> Nat]
  BY PlaceFacts
<1>2. r.opt.path \in DOMAIN files /\ \A u \in Threads : PlaceOK(r, u)
  BY DEF ProcOK
<1>3. /\ a.life = r.life /\ a.opt = r.opt /\ a.lib = r.lib /\ a.size = r.size
      /\ a.resize = r.resize /\ a.next = r.next + r.opt.block
      /\ a.at = [r.at EXCEPT ![t] = r.next]
      /\ a.left = [r.left EXCEPT ![t] = r.opt.block + 1]
  BY <1>1 DEF Claimed, Processes
<1>4. /\ a.at \in [Threads -> Nat \union {NULL}] /\ a.left \in [Threads -> Nat] /\ a.next \in Nat
  BY <1>1, <1>3
<1>5. a \in Processes(k)
  BY <1>1, <1>3, <1>4 DEF Claimed, Processes
<1> HIDE DEF a
<1>6. ASSUME NEW u \in Threads PROVE PlaceOK(a, u)
  <2>1. CASE u # t
    <3>1. a.at[u] = r.at[u] /\ a.left[u] = r.left[u]
      BY <1>1, <1>3, <2>1
    <3>2. PlaceOK(r, u) /\ r.at[u] \in Nat \union {NULL} /\ r.left[u] \in Nat
      BY <1>1, <1>2
    <3> QED
      BY <1>1, <1>3, <3>1, <3>2 DEF PlaceOK
  <2>2. CASE u = t
    <3>1. a.at[t] = r.next /\ a.left[t] = r.opt.block + 1 /\ a.at[t] # NULL
      BY <1>1, <1>3 DEF NULL
    <3> QED
      BY <1>1, <1>3, <2>2, <3>1 DEF PlaceOK
  <2> QED
    BY <2>1, <2>2
<1>7. ProcOK(k, a)
  BY <1>1, <1>2, <1>3, <1>5, <1>6 DEF ProcOK
<1> QED
  BY <1>7 DEF a

\* The process while the file grows, and when the new size is stored.
LEMMA GrowingOK ==
  ASSUME NEW k \in Runs, NEW r, ProcOK(k, r), r.life = "up", r.lib = "ready",
         NEW size \in Nat, NEW resize \in Nat
  PROVE  ProcOK(k, [r EXCEPT !.size = size, !.resize = resize])
<1> DEFINE x == [r EXCEPT !.size = size, !.resize = resize]
<1>1. r \in Processes(k)
  BY DEF ProcOK
<1>2. /\ x \in Processes(k) /\ x.life = r.life /\ x.opt = r.opt /\ x.lib = r.lib
      /\ x.next = r.next /\ x.at = r.at /\ x.left = r.left
  BY <1>1 DEF Processes
<1> HIDE DEF x
<1>3. ProcOK(k, x)
  BY <1>2 DEF ProcOK, PlaceOK
<1> QED
  BY <1>3 DEF x

LEMMA EndedOK ==
  ASSUME NEW k \in Runs, NEW r, ProcOK(k, r), r.life = "up", NEW how \in {"ended", "killed"}
  PROVE  ProcOK(k, [r EXCEPT !.life = how])
<1> DEFINE x == [r EXCEPT !.life = how]
<1>1. r \in Processes(k)
  BY DEF ProcOK
<1>2. /\ x \in Processes(k) /\ x.life = how /\ x.opt = r.opt /\ x.lib = r.lib /\ x.size = r.size
      /\ x.next = r.next /\ x.at = r.at /\ x.left = r.left /\ x.resize = r.resize
  BY <1>1 DEF Processes
<1> HIDE DEF x
<1>3. ProcOK(k, x)
  BY <1>2 DEF ProcOK, PlaceOK
<1> QED
  BY <1>3 DEF x

LEMMA UnseenOK ==
  ASSUME NEW k \in Runs, NEW r, ProcOK(k, r), r.life = "up", NEW t \in Threads
  PROVE  ProcOK(k, [r EXCEPT !.n[t] = @ + 1])
<1> DEFINE x == [r EXCEPT !.n[t] = @ + 1]
<1>1. r \in Processes(k)
  BY DEF ProcOK
<1>2. /\ x \in Processes(k) /\ x.life = r.life /\ x.opt = r.opt /\ x.lib = r.lib /\ x.size = r.size
      /\ x.next = r.next /\ x.at = r.at /\ x.left = r.left /\ x.resize = r.resize
  BY <1>1 DEF Processes
<1> HIDE DEF x
<1>3. ProcOK(k, x)
  BY <1>2 DEF ProcOK, PlaceOK
<1> QED
  BY <1>3 DEF x

\* A step after which the process is x, which fits the files there were.
LEMMA StepSafe ==
  ASSUME SafeInv, NEW k \in Runs, NEW p \in Pids, NEW x, Become(k, p, x),
         UNCHANGED <<job, tool>>, DOMAIN files \subseteq DOMAIN files',
         \A q \in DOMAIN files' : FileOK(files'[q]), ProcOK(k, x)
  PROVE  SafeInv'
<1>1. ConfOf(k)' = ConfOf(k) /\ (x.life # "none" => k \in started')
  BY DEF ConfOf, tool, ProcOK
<1>2. ProcOK(k, x)'
  BY <1>1, KeepsProc
<1> QED
  BY <1>2, BecomeSafe

LEMMA OpenSafe ==
  ASSUME SafeInv, NEW k \in Runs, NEW p \in Pids, Open(k, p), UNCHANGED <<job, tool>>
  PROVE  SafeInv'
<1>1. PICK r : r = procs[k][p]
  OBVIOUS
<1>2. ProcOK(k, r) /\ \A q \in DOMAIN files : FileOK(files[q])
  BY <1>1 DEF SafeInv
<1>3. r.life = "up" /\ r.lib = "fresh"
  BY <1>1 DEF Open, Living
<1>4. CASE r.opt.mode = "dies"
  <2>1. Become(k, p, [r EXCEPT !.life = "ended"]) /\ UNCHANGED files
    BY <1>1, <1>4 DEF Open
  <2>2. ProcOK(k, [r EXCEPT !.life = "ended"])
    BY <1>2, <1>3, EndedOK
  <2> QED
    BY <1>2, <2>1, <2>2, StepSafe
<1>5. CASE r.opt.mode # "dies"
  <2>1. PICK x : x = [r EXCEPT !.lib = "open"]
    OBVIOUS
  <2>2. files' = With(r.opt.path, NoFile) /\ Become(k, p, x)
    BY <1>1, <1>5, <2>1 DEF Open, Opened
  <2>3. /\ DOMAIN files \subseteq DOMAIN files' /\ r.opt.path \in DOMAIN files'
        /\ \A q \in DOMAIN files' : FileOK(files'[q])
    <3>1. /\ DOMAIN files' = DOMAIN files \union {r.opt.path}
          /\ \A q \in DOMAIN files' : FileOK(files'[q])
      BY <1>2, <2>2, WithOK, NoFileOK, Zenon
    <3> QED
      BY <3>1
  <2>4. r \in Processes(k) /\ r.opt = ConfOf(k) /\ k \in started
    BY <1>2, <1>3 DEF ProcOK
  <2>5. /\ x \in Processes(k) /\ x.life = r.life /\ x.opt = r.opt /\ x.lib = "open"
        /\ x.size = r.size /\ x.next = r.next /\ x.at = r.at /\ x.left = r.left
        /\ x.resize = r.resize
    BY <2>1, <2>4 DEF Processes
  <2>6. ConfOf(k)' = ConfOf(k) /\ k \in started'
    BY <2>4 DEF ConfOf, tool
  <2>7. x \in Processes(k)'
    BY <2>5, <2>6 DEF Processes
  <2>8. /\ r.size = 0 /\ r.next = 0 /\ r.resize = 0 /\ \A t \in Threads : r.at[t] = NULL
        /\ \A t \in Threads : PlaceOK(r, t)
    BY <1>2, <1>3 DEF ProcOK
  <2>9. \A t \in Threads : PlaceOK(x, t)
    BY <2>5, <2>8 DEF PlaceOK
  <2>10. ProcOK(k, x)'
    BY <1>3, <2>3, <2>4, <2>5, <2>6, <2>7, <2>8, <2>9 DEF ProcOK, PlaceOK
  <2> QED
    BY <2>2, <2>3, <2>10, BecomeSafe
<1> QED
  BY <1>4, <1>5

LEMMA SizeSafe ==
  ASSUME SafeInv, Decimals, NEW k \in Runs, NEW p \in Pids, Size(k, p), UNCHANGED <<job, tool>>
  PROVE  SafeInv'
<1>1. PICK r : r = procs[k][p]
  OBVIOUS
<1>2. ProcOK(k, r) /\ StageOK /\ \A q \in DOMAIN files : FileOK(files[q])
  BY <1>1 DEF SafeInv
<1>3. r.life = "up" /\ r.lib = "open"
  BY <1>1 DEF Size, Living
<1>4. r \in Processes(k) /\ r.opt = ConfOf(k) /\ k \in started /\ r.opt.path \in DOMAIN files
  BY <1>2, <1>3 DEF ProcOK
<1>5. r.opt.first \in Nat
  BY <1>2, <1>4, Blocks
<1>6. PICK x : x = [r EXCEPT !.lib = "ready", !.size = r.opt.first,
                             !.life = IF r.opt.init THEN @ ELSE "ended"]
  OBVIOUS
<1>7. files' = With(r.opt.path, Resized(files[r.opt.path], r.opt.first)) /\ Become(k, p, x)
  BY <1>1, <1>6 DEF Size
<1>8. FileOK(Resized(files[r.opt.path], r.opt.first))
  BY <1>2, <1>4, <1>5, FileSized
<1>9. DOMAIN files \subseteq DOMAIN files' /\ \A q \in DOMAIN files' : FileOK(files'[q])
  BY <1>2, <1>7, <1>8, WithOK
<1>10. /\ x \in Processes(k) /\ x.life \in {"up", "ended"} /\ x.opt = r.opt /\ x.lib = "ready"
       /\ x.size = r.opt.first /\ x.next = r.next /\ x.at = r.at /\ x.left = r.left
  BY <1>3, <1>4, <1>5, <1>6 DEF Processes
<1>11. r.next = 0 /\ \A t \in Threads : PlaceOK(r, t)
  BY <1>2, <1>3 DEF ProcOK
<1>12. \A t \in Threads : PlaceOK(x, t)
  BY <1>10, <1>11 DEF PlaceOK
<1>13. ProcOK(k, x)
  BY <1>4, <1>5, <1>10, <1>11, <1>12 DEF ProcOK
<1> QED
  BY <1>7, <1>9, <1>13, StepSafe

LEMMA HandleSafe ==
  ASSUME SafeInv, Decimals, NEW k \in Runs, NEW p \in Pids, NEW t \in Threads, Handle(k, p, t),
         UNCHANGED <<job, tool>>
  PROVE  SafeInv'
<1>1. PICK r : r = procs[k][p]
  OBVIOUS
<1>2. ProcOK(k, r) /\ StageOK /\ \A q \in DOMAIN files : FileOK(files[q])
  BY <1>1 DEF SafeInv
<1>3. r.life = "up" /\ r.lib = "ready" /\ ~ Claims(r, t)
  BY <1>1 DEF Handle, Calling, Living
<1>4. PICK f : f = files[r.opt.path]
  OBVIOUS
<1>5. FileOK(f) /\ r.opt.path \in DOMAIN files
  BY <1>2, <1>3, <1>4 DEF ProcOK
<1>6. r.at[t] \in Nat
  BY <1>2, <1>3, PlaceFacts
<1>7. CASE r.at[t] < f.len
  <2>1. PICK g : g = [f EXCEPT !.at[r.at[t]] =
                        Put(r, @, Call(k, p, r.prog, t, r.n[t] + 1))]
    OBVIOUS
  <2>2. files' = With(r.opt.path, g) /\ Become(k, p, After(r, t))
    BY <1>1, <1>4, <1>7, <2>1 DEF Handle
  <2>3. r.at[t] \in 0 .. f.len - 1
    BY <1>5, <1>6, <1>7 DEF FileOK
  <2>4. FileOK(g)
    BY <1>5, <2>1, <2>3, FilePut
  <2>5. DOMAIN files \subseteq DOMAIN files' /\ \A q \in DOMAIN files' : FileOK(files'[q])
    BY <1>2, <2>2, <2>4, WithOK
  <2>6. ProcOK(k, After(r, t))
    BY <1>2, <1>3, AfterOK
  <2> QED
    BY <2>2, <2>5, <2>6, StepSafe
<1>8. CASE ~ (r.at[t] < f.len)
  <2>1. UNCHANGED files /\ Become(k, p, [r EXCEPT !.life = "killed"])
    BY <1>1, <1>4, <1>8 DEF Handle
  <2>2. ProcOK(k, [r EXCEPT !.life = "killed"])
    BY <1>2, <1>3, EndedOK
  <2> QED
    BY <1>2, <2>1, <2>2, StepSafe
<1> QED
  BY <1>7, <1>8

\* A claim, the growth of the file, and the end of it.
LEMMA ClaimSafe ==
  ASSUME SafeInv, Decimals, NEW k \in Runs, NEW p \in Pids, NEW t \in Threads, Claim(k, p, t),
         UNCHANGED <<job, tool>>
  PROVE  SafeInv'
<1>1. PICK r : r = procs[k][p]
  OBVIOUS
<1>2. ProcOK(k, r) /\ StageOK /\ \A q \in DOMAIN files : FileOK(files[q])
  BY <1>1 DEF SafeInv
<1>3. r.life = "up" /\ r.lib = "ready" /\ UNCHANGED files /\ Become(k, p, Claimed(r, t))
  BY <1>1 DEF Claim, Calling, Living
<1>4. ProcOK(k, Claimed(r, t))
  BY <1>2, <1>3, ClaimOK
<1> QED
  BY <1>2, <1>3, <1>4, StepSafe

LEMMA ExtendSafe ==
  ASSUME SafeInv, Decimals, NEW k \in Runs, NEW p \in Pids, NEW t \in Threads, Extend(k, p, t),
         UNCHANGED <<job, tool>>
  PROVE  SafeInv'
<1>1. PICK r : r = procs[k][p]
  OBVIOUS
<1>2. ProcOK(k, r) /\ StageOK /\ \A q \in DOMAIN files : FileOK(files[q])
  BY <1>1 DEF SafeInv
<1>3. r.life = "up" /\ r.lib = "ready" /\ Claiming(r, t)
  BY <1>1 DEF Extend, Calling, Living, Waits
<1>4. /\ r \in Processes(k) /\ r.at[t] \in Nat /\ r.opt.block \in Nat /\ r.opt.grow \in Nat
      /\ r.opt.path \in DOMAIN files
  BY <1>2, <1>3, PlaceFacts DEF ProcOK
<1>5. PICK n \in Nat : n = r.at[t] + r.opt.block + r.opt.grow
  BY <1>4
<1>6. /\ files' = With(r.opt.path, Resized(files[r.opt.path], n))
      /\ Become(k, p, [r EXCEPT !.resize = n])
  BY <1>1, <1>5 DEF Extend
<1>7. DOMAIN files \subseteq DOMAIN files' /\ \A q \in DOMAIN files' : FileOK(files'[q])
  <2>1. FileOK(Resized(files[r.opt.path], n))
    BY <1>2, <1>4, FileSized
  <2> QED
    BY <1>2, <1>6, <2>1, WithOK
<1>8. ProcOK(k, [r EXCEPT !.resize = n])
  <2>1. PICK size \in Nat : size = r.size
    BY <1>4 DEF Processes
  <2>2. ProcOK(k, [r EXCEPT !.size = size, !.resize = n])
    BY <1>2, <1>3, GrowingOK
  <2>3. [r EXCEPT !.size = size, !.resize = n] = [r EXCEPT !.resize = n]
    BY <1>4, <2>1 DEF Processes
  <2> QED
    BY <2>2, <2>3
<1> QED
  BY <1>6, <1>7, <1>8, StepSafe

LEMMA PublishSafe ==
  ASSUME SafeInv, NEW k \in Runs, NEW p \in Pids, Publish(k, p), UNCHANGED <<job, tool>>
  PROVE  SafeInv'
<1>1. PICK r : r = procs[k][p]
  OBVIOUS
<1>2. ProcOK(k, r) /\ \A q \in DOMAIN files : FileOK(files[q])
  BY <1>1 DEF SafeInv
<1>3. /\ r.life = "up" /\ r.resize # 0 /\ UNCHANGED files
      /\ Become(k, p, [r EXCEPT !.size = r.resize, !.resize = 0])
  BY <1>1 DEF Publish, Living
<1>4. r.lib = "ready" /\ r.resize \in Nat
  BY <1>2, <1>3 DEF ProcOK, Processes
<1>5. PICK n \in Nat : n = r.resize
  BY <1>4
<1>6. ProcOK(k, [r EXCEPT !.size = n, !.resize = 0])
  BY <1>2, <1>3, <1>4, GrowingOK
<1> QED
  BY <1>2, <1>3, <1>5, <1>6, StepSafe

\* The steps that leave the files alone.
LEMMA UnseenSafe ==
  ASSUME SafeInv, NEW k \in Runs, NEW p \in Pids, NEW t \in Threads, Unseen(k, p, t),
         UNCHANGED <<job, tool>>
  PROVE  SafeInv'
<1>1. PICK r : r = procs[k][p]
  OBVIOUS
<1>2. ProcOK(k, r) /\ \A q \in DOMAIN files : FileOK(files[q])
  BY <1>1 DEF SafeInv
<1>3. r.life = "up" /\ UNCHANGED files /\ Become(k, p, [r EXCEPT !.n[t] = @ + 1])
  BY <1>1 DEF Unseen, Living
<1>4. ProcOK(k, [r EXCEPT !.n[t] = @ + 1])
  BY <1>2, <1>3, UnseenOK
<1> QED
  BY <1>2, <1>3, <1>4, StepSafe

LEMMA EndSafe ==
  ASSUME SafeInv, NEW k \in Runs, NEW p \in Pids, Kill(k, p) \/ Exit(k, p),
         UNCHANGED <<job, tool>>
  PROVE  SafeInv'
<1>1. PICK r : r = procs[k][p]
  OBVIOUS
<1>2. ProcOK(k, r) /\ \A q \in DOMAIN files : FileOK(files[q])
  BY <1>1 DEF SafeInv
<1>3. r.life = "up" /\ UNCHANGED files
  BY <1>1 DEF Kill, Exit, Living
<1>4. PICK how \in {"ended", "killed"} : Become(k, p, [r EXCEPT !.life = how])
  BY <1>1 DEF Kill, Exit
<1>5. ProcOK(k, [r EXCEPT !.life = how])
  BY <1>2, <1>3, EndedOK
<1> QED
  BY <1>2, <1>3, <1>4, <1>5, StepSafe

\* exec and fork.
LEMMA ShellSafe ==
  ASSUME SafeInv, Decimals, NEW k \in Runs, NEW p \in Pids, NEW q \in Pids,
         Exec(k, p, Library, job.calls) \/ Fork(k, p, q), UNCHANGED <<job, tool>>
  PROVE  SafeInv'
<1>1. PICK r : r = procs[k][p]
  OBVIOUS
<1>2. ProcOK(k, r) /\ StageOK /\ \A f \in DOMAIN files : FileOK(files[f])
  BY <1>1 DEF SafeInv
<1>3. r.life = "up" /\ UNCHANGED files
  BY <1>1 DEF Exec, Fork, Living
<1>4. CASE Exec(k, p, Library, job.calls)
  <2>1. r.opt = ConfOf(k) /\ k \in started
    BY <1>2, <1>3 DEF ProcOK
  <2>2. Become(k, p, Image("cmd", ConfOf(k), Library, job.calls))
    BY <1>1, <1>4, <2>1 DEF Exec
  <2>3. Library \in {"absent", "fresh"} /\ job.calls \in [Threads -> Nat]
    BY <1>2, TestRunAssumption DEF Library, StageOK
  <2>4. PICK lib \in {"absent", "fresh"}, most \in [Threads -> Nat] :
          lib = Library /\ most = job.calls
    BY <2>3
  <2>5. ProcOK(k, Image("cmd", ConfOf(k), lib, most))
    BY <1>2, <2>1, ImageOK
  <2>6. PICK x : x = Image("cmd", ConfOf(k), lib, most)
    OBVIOUS
  <2>7. Become(k, p, x) /\ ProcOK(k, x)
    BY <2>2, <2>4, <2>5, <2>6
  <2> QED
    BY <1>2, <1>3, <2>7, StepSafe
<1>5. CASE Fork(k, p, q)
  <2>1. Become(k, q, r)
    BY <1>1, <1>5 DEF Fork
  <2> QED
    BY <1>2, <1>3, <2>1, StepSafe
<1> QED
  BY <1>4, <1>5

LEMMA ProcessSafe ==
  ASSUME SafeInv, Decimals, NEW k \in Runs, Process(k)
  PROVE  SafeInv'
<1>1. UNCHANGED <<job, tool>>
  BY DEF Process
<1>2. MainPid \in Pids
  BY TestRunAssumption
<1>3. CASE Shell(k)
  <2>1. CASE Exec(k, MainPid, Library, job.calls)
    BY <1>1, <1>2, <2>1, ShellSafe
  <2>2. CASE \E q \in Pids \ {MainPid} : Fork(k, MainPid, q) \/ Exec(k, q, Library, job.calls)
    BY <1>1, <1>2, <2>2, ShellSafe
  <2>3. CASE Exit(k, MainPid)
    BY <1>1, <1>2, <2>3, EndSafe
  <2> QED
    BY <1>3, <2>1, <2>2, <2>3 DEF Shell
<1>4. ASSUME NEW p \in Pids, Open(k, p) PROVE SafeInv'
  BY <1>1, <1>4, OpenSafe
<1>5. ASSUME NEW p \in Pids, Size(k, p) PROVE SafeInv'
  BY <1>1, <1>5, SizeSafe
<1>6. ASSUME NEW p \in Pids, NEW t \in Threads, Claim(k, p, t) PROVE SafeInv'
  BY <1>1, <1>6, ClaimSafe
<1>7. ASSUME NEW p \in Pids, NEW t \in Threads, Handle(k, p, t) PROVE SafeInv'
  BY <1>1, <1>7, HandleSafe
<1>8. ASSUME NEW p \in Pids, NEW t \in Threads, Unseen(k, p, t) PROVE SafeInv'
  BY <1>1, <1>8, UnseenSafe
<1>9. ASSUME NEW p \in Pids, Kill(k, p) \/ Exit(k, p) PROVE SafeInv'
  BY <1>1, <1>9, EndSafe
<1>10. ASSUME NEW p \in Pids, NEW t \in Threads, Extend(k, p, t) PROVE SafeInv'
  BY <1>1, <1>10, ExtendSafe
<1>11. ASSUME NEW p \in Pids, Publish(k, p) PROVE SafeInv'
  BY <1>1, <1>11, PublishSafe
<1> QED
  BY <1>3, <1>4, <1>5, <1>6, <1>7, <1>8, <1>9, <1>10, <1>11 DEF Process

LEMMA FiniteFamily ==
  ASSUME NEW S, IsFiniteSet(S), NEW g, \A s \in S : IsFiniteSet(g[s])
  PROVE  IsFiniteSet(UNION {g[s] : s \in S})
<1> DEFINE T == {g[s] : s \in S}
           h == [s \in S |-> g[s]]
<1>1. h \in Surjection(S, T)
  BY DEF Surjection
<1>2. IsFiniteSet(T)
  BY <1>1, FS_Surjection, Zenon
<1>3. \A U \in T : IsFiniteSet(U)
  OBVIOUS
<1> HIDE DEF T
<1>4. IsFiniteSet(UNION T)
  BY <1>2, <1>3, FS_UNION
<1> QED
  BY <1>4 DEF T

LEMMA CountedFinite ==
  ASSUME NEW f, FileOK(f), NEW n \in Nat, n <= f.len
  PROVE  IsFiniteSet(Counted(f, 0 .. n - 1)) /\ Cardinality(Counted(f, 0 .. n - 1)) \in Nat
<1> DEFINE S == 0 .. n - 1
           g == [s \in S |-> {s} \X f.at[s].calls]
<1>1. IsFiniteSet(S)
  BY FS_Interval
<1>2. ASSUME NEW s \in S PROVE IsFiniteSet(g[s])
  <2>1. s \in 0 .. f.len - 1
    BY DEF FileOK
  <2>2. IsFiniteSet({s}) /\ IsFiniteSet(f.at[s].calls)
    BY <2>1, FS_Singleton DEF FileOK
  <2>3. IsFiniteSet({s} \X f.at[s].calls)
    BY <2>2, FS_Product
  <2> QED
    BY <2>3
<1>3. Counted(f, S) = UNION {g[s] : s \in S}
  BY DEF Counted
<1> HIDE DEF g, S
<1>4. IsFiniteSet(UNION {g[s] : s \in S})
  BY <1>1, <1>2, FiniteFamily
<1>5. IsFiniteSet(Counted(f, S)) /\ Cardinality(Counted(f, S)) \in Nat
  BY <1>3, <1>4, FS_CardinalityType
<1> QED
  BY <1>5 DEF S

ImagesFit ==
  StageOK /\ Decimals =>
    \A k \in Runs, prog \in {"sh", "cmd"}, lib \in {"absent", "fresh"},
       most \in [Threads -> Nat] :
      k \in started => ProcOK(k, Image(prog, ConfOf(k), lib, most))

LEMMA ImagesOK == ImagesFit
BY ImageOK DEF ImagesFit

\* A step of the tool: it may start the shell of a run.
LEMMA ToolSafe ==
  ASSUME SafeInv, Decimals, UNCHANGED <<files, job, options>>, started \subseteq started',
         qty' = qty \/ 2 \notin started, StageOK', Released',
         \/ UNCHANGED procs
         \/ \E k \in started' :
              Become(k, MainPid, Image("sh", ConfOf(k)', Library, ShellCalls))
  PROVE  SafeInv'
<1>1. MainPid \in Pids /\ ShellCalls \in [Threads -> Nat] /\ started' \subseteq Runs
  BY TestRunAssumption DEF StageOK
<1>2. \A q \in DOMAIN files' : FileOK(files'[q])
  BY DEF SafeInv
<1>3. ASSUME NEW i \in Runs, NEW q \in Pids, procs'[i][q] = procs[i][q]
      PROVE  ProcOK(i, procs[i][q])'
  <2>1. PICK x : x = procs[i][q]
    OBVIOUS
  <2>2. ProcOK(i, x)
    BY <2>1 DEF SafeInv
  <2>3. x.life # "none" => ConfOf(i)' = ConfOf(i) /\ i \in started'
    BY <2>2 DEF ProcOK, ConfOf, Runs
  <2>4. ProcOK(i, x)'
    BY <2>2, <2>3, KeepsProc
  <2> QED
    BY <1>3, <2>1, <2>4
<1>4. procs = [i \in Runs |-> [q \in Pids |-> procs[i][q]]]
  BY DEF SafeInv
<1>5. CASE UNCHANGED procs
  <2>1. \A i \in Runs, q \in Pids : ProcOK(i, procs[i][q])'
    BY <1>3, <1>5
  <2>2. procs' = [i \in Runs |-> [q \in Pids |-> procs'[i][q]]]
    BY <1>4, <1>5, Zenon
  <2> QED
    BY <1>2, <2>1, <2>2 DEF SafeInv
<1>6. ASSUME NEW k \in started', Become(k, MainPid, Image("sh", ConfOf(k)', Library, ShellCalls))
      PROVE  SafeInv'
  <2>1. PICK x : x = Image("sh", ConfOf(k)', Library, ShellCalls)
    OBVIOUS
  <2>2. ImagesFit'
    BY ImagesOK, PTL
  <2>3. k \in Runs /\ Library \in {"absent", "fresh"}
    BY <1>1, TestRunAssumption DEF Library, SafeInv, StageOK
  <2>4. PICK lib \in {"absent", "fresh"} : lib = Library
    BY <2>3
  <2>5. (ProcOK(k, Image("sh", ConfOf(k), lib, ShellCalls)))'
    BY <1>1, <2>2, <2>3 DEF ImagesFit
  <2>6. ProcOK(k, x)'
    BY <2>1, <2>4, <2>5 DEF Image
  <2>7. procs' = [i \in Runs |-> [q \in Pids |->
                    IF i = k /\ q = MainPid THEN x ELSE procs[i][q]]]
    <3>1. Become(k, MainPid, x)
      BY <1>6, <2>1
    <3> QED
      BY <1>1, <1>4, <2>3, <3>1, BecomeShape
  <2>8. procs' = [i \in Runs |-> [q \in Pids |-> procs'[i][q]]]
    BY <2>7
  <2>9. ASSUME NEW i \in Runs, NEW q \in Pids PROVE ProcOK(i, procs[i][q])'
    <3>1. CASE i = k /\ q = MainPid
      BY <2>6, <2>7, <3>1
    <3>2. CASE ~ (i = k /\ q = MainPid)
      <4>1. procs'[i][q] = procs[i][q]
        BY <2>7, <3>2
      <4> QED
        BY <1>3, <4>1
    <3> QED
      BY <3>1, <3>2
  <2> QED
    BY <1>2, <2>8, <2>9 DEF SafeInv
<1> QED
  BY <1>5, <1>6

LEMMA BeginSafe ==
  ASSUME SafeInv, Decimals, Begin
  PROVE  SafeInv'
<1>1. /\ stage = "start" /\ StageOK /\ area.fd = "unset" /\ ~ stray /\ started = {}
      /\ area \in [fd : {"unset", "open", "closed"}, size : Nat] /\ refused \in BOOLEAN
      /\ UNCHANGED <<files, job, options, qty, shown>>
  BY DEF SafeInv, StageOK, Begin
<1>2. CASE options.mode \in {"HELP", "bad"} /\ stage' = "done"
           /\ UNCHANGED <<area, stray, started, refused, procs>>
  <2>1. StageOK' /\ Released'
    BY <1>1, <1>2 DEF StageOK, Released, Ended
  <2> QED
    BY <1>1, <1>2, <2>1, ToolSafe
<1>3. CASE options.mode = "TEST" /\ Refuse
  <2>1. /\ stage' = "failed" /\ area' = [fd |-> "closed", size |-> 0] /\ refused' = TRUE
        /\ UNCHANGED <<procs, started>> /\ stray' \in BOOLEAN
    BY <1>1, <1>3 DEF Refuse, Break, CloseArea
  <2>2. StageOK' /\ Released'
    BY <1>1, <1>3, <2>1 DEF StageOK, Released, Ended
  <2> QED
    BY <1>1, <2>1, <2>2, ToolSafe
<1>4. CASE /\ options.mode = "TEST" /\ System(1, CountConf(options.counts))
           /\ stage' = "counting" /\ UNCHANGED <<area, stray>>
  <2>1. /\ started' \subseteq {1} /\ started \subseteq started' /\ refused' \in BOOLEAN
        /\ \/ UNCHANGED procs
           \/ /\ 1 \in started'
              /\ Become(1, MainPid, Image("sh", Parsed(CountConf(options.counts)), Library,
                                          ShellCalls))
    <3>1. options.test \in BOOLEAN \/ TRUE
      OBVIOUS
    <3> QED
      BY <1>1, <1>4 DEF System
  <2>2. StageOK' /\ Released'
    BY <1>1, <1>4, <2>1 DEF StageOK, Released, Ended, Runs
  <2>3. ConfOf(1)' = Parsed(CountConf(options.counts))
    BY <1>1 DEF ConfOf
  <2> QED
    BY <1>1, <2>1, <2>2, <2>3, ToolSafe
<1> QED
  BY <1>2, <1>3, <1>4 DEF Begin

LEMMA MapSafe ==
  ASSUME SafeInv, Decimals, MapCounts \/ MapLog
  PROVE  SafeInv'
<1>1. /\ StageOK /\ ~ stray /\ stage \in {"start", "counting", "logging"}
      /\ UNCHANGED <<files, procs, job, options, qty, started, stray, shown>>
  BY DEF SafeInv, StageOK, Released, MapCounts, MapLog, MapFile, Ended
<1>2. PICK path \in {options.counts, options.log}, next \in {"counts", "log"} :
        /\ path = (IF next = "counts" THEN options.counts ELSE options.log)
        /\ \/ next = "counts" /\ stage \in {"start", "counting"}
              /\ (stage = "start" => options.mode = "DUMP")
           \/ next = "log" /\ stage = "logging"
        /\ MapFile(path, next)
  BY DEF MapCounts, MapLog
<1>3. CASE /\ path \in DOMAIN files /\ area' = [fd |-> "open", size |-> files[path].len]
           /\ stage' = next /\ UNCHANGED refused
  <2>1. files[path].len \in Nat
    BY <1>3 DEF SafeInv, FileOK
  <2>2. options.mode # "TEST" \/ stage # "start"
    BY <1>1, <1>2 DEF StageOK
  <2>3. StageOK'
    BY <1>1, <1>2, <1>3, <2>1, <2>2 DEF StageOK, Ended
  <2>4. Released'
    BY <1>1, <1>2, <1>3 DEF Released
  <2> QED
    BY <1>1, <2>3, <2>4, ToolSafe
<1>4. CASE /\ area' = [fd |-> "closed", size |-> 0] /\ stage' = "failed"
           /\ refused' = (refused \/ path \in DOMAIN files)
  <2>1. StageOK' /\ Released'
    BY <1>1, <1>2, <1>4 DEF StageOK, Released, Ended
  <2> QED
    BY <1>1, <2>1, ToolSafe
<1> QED
  BY <1>2, <1>3, <1>4 DEF MapFile

LEMMA ReadCountsSafe ==
  ASSUME SafeInv, Decimals, ReadCounts
  PROVE  SafeInv'
<1>1. PICK f : f = files[options.counts]
  OBVIOUS
<1>2. /\ StageOK /\ ~ stray /\ stage = "counts" /\ FileOK(f) /\ 2 \notin started
      /\ area.fd = "open" /\ area.size \in Nat /\ refused \in BOOLEAN /\ qty \in Nat
      /\ started \subseteq Runs
      /\ area \in [fd : {"unset", "open", "closed"}, size : Nat]
      /\ UNCHANGED <<files, job, options, shown>>
  BY <1>1 DEF SafeInv, StageOK, Released, ReadCounts
<1>3. CASE stage' = "crashed" /\ UNCHANGED <<area, stray, refused, procs, started, qty>>
  <2>1. StageOK' /\ Released'
    BY <1>2, <1>3 DEF StageOK, Released, Ended
  <2> QED
    BY <1>2, <1>3, <2>1, ToolSafe
<1>4. CASE /\ stage' \in {"done", "failed"} /\ CloseArea /\ refused' \in BOOLEAN
           /\ UNCHANGED <<procs, started>> /\ qty' \in Nat
  <2>1. area' = [fd |-> "closed", size |-> 0] /\ ~ stray'
    BY <1>2, <1>4 DEF CloseArea
  <2>2. StageOK' /\ Released'
    BY <1>2, <1>4, <2>1 DEF StageOK, Released, Ended
  <2> QED
    BY <1>2, <1>4, <2>2, ToolSafe
<1>5. CASE /\ CloseArea /\ System(2, LogConf(options.log, qty')) /\ stage' = "logging"
           /\ qty' \in Nat /\ options.mode # "DUMP"
  <2>1. /\ started' \subseteq started \union {2} /\ started \subseteq started' /\ refused' \in BOOLEAN
        /\ \/ UNCHANGED procs
           \/ /\ 2 \in started'
              /\ Become(2, MainPid, Image("sh", Parsed(LogConf(options.log, qty')), Library,
                                          ShellCalls))
    BY <1>2, <1>5 DEF System
  <2>2. area' = [fd |-> "closed", size |-> 0] /\ ~ stray'
    BY <1>2, <1>5 DEF CloseArea
  <2>3. options.mode = "TEST"
    BY <1>2, <1>5 DEF StageOK
  <2>4. StageOK' /\ Released'
    BY <1>2, <1>5, <2>1, <2>2, <2>3 DEF StageOK, Released, Ended, Runs
  <2>5. ConfOf(2)' = Parsed(LogConf(options.log, qty'))
    BY <1>2 DEF ConfOf
  <2> QED
    BY <1>2, <2>1, <2>4, <2>5, ToolSafe
<1>6. ~ Truncated(f) => LogQty(f) \in Nat
  <2> HAVE ~ Truncated(f)
  <2>1. area.size <= f.len /\ f.len \in Nat
    BY <1>2 DEF Truncated, FileOK
  <2>2. CountsTotal(f) \in Nat
    BY <1>2, <2>1, CountedFinite DEF CountsTotal
  <2>3. CacheQty \in Nat /\ \A m, n \in Nat : m * n \in Nat
    BY TestRunAssumption
  <2> QED
    BY <1>2, <2>2, <2>3 DEF LogQty
<1> QED
  BY <1>1, <1>2, <1>3, <1>4, <1>5, <1>6 DEF ReadCounts, Break, Refuse

LEMMA AnalyseSafe ==
  ASSUME SafeInv, Decimals, Analyse
  PROVE  SafeInv'
<1>1. /\ StageOK /\ ~ stray /\ stage = "log" /\ area.fd = "open"
      /\ UNCHANGED <<files, procs, job, options, qty, started, refused>>
  BY DEF SafeInv, StageOK, Released, Analyse
<1>2. CASE stage' = "crashed" /\ UNCHANGED <<area, stray>>
  <2>1. StageOK' /\ Released'
    BY <1>1, <1>2 DEF StageOK, Released, Ended
  <2> QED
    BY <1>1, <2>1, ToolSafe
<1>3. CASE stage' \in {"done", "failed"} /\ CloseArea
  <2>1. area' = [fd |-> "closed", size |-> 0] /\ ~ stray'
    BY <1>1, <1>3 DEF CloseArea
  <2>2. StageOK' /\ Released'
    BY <1>1, <1>3, <2>1 DEF StageOK, Released, Ended
  <2> QED
    BY <1>1, <2>2, ToolSafe
<1> QED
  BY <1>2, <1>3 DEF Analyse, Break

\* Every step keeps SafeInv.
LEMMA SafeNext ==
  ASSUME Decimals, SafeInv, [Next]_vars
  PROVE  SafeInv'
<1>1. CASE UNCHANGED vars
  BY <1>1 DEF vars, tool, SafeInv, StageOK, Released, FileOK, ProcOK, PlaceOK, Processes, ConfOf
<1>2. CASE Next
  BY <1>1, <1>2, BeginSafe, MapSafe, ReadCountsSafe, AnalyseSafe, ProcessSafe
     DEF Next, Terminated
<1> QED
  BY <1>1, <1>2

LEMMA SafeAlways == ASSUME Decimals PROVE Spec => []SafeInv
<1>1. Init => SafeInv
  BY SafeInit
<1>2. SafeInv /\ [Next]_vars => SafeInv'
  BY SafeNext
<1> QED
  BY <1>1, <1>2, PTL DEF Spec

\* Type correctness, for any jobs, processes, threads and calls: among others,
\* no thread ever holds more records than its block has (and one while it has
\* only claimed), and its place is within what its process has claimed.
THEOREM TypeCorrect == ASSUME Decimals PROVE Spec => []TypeOK
<1>1. SafeInv => TypeOK
  <2> HAVE SafeInv
  <2>1. ASSUME NEW k \in Runs, NEW p \in Pids, NEW t \in Threads
        PROVE  LET r == procs[k][p]
               IN  /\ r.life \in {"none", "up", "ended", "killed"}
                   /\ r.left[t] \in 1 .. CacheQty + 1
                   /\ r.at[t] \in NULL .. r.next
    <3>1. PICK r : r = procs[k][p]
      OBVIOUS
    <3>2. ProcOK(k, r) /\ StageOK
      BY <3>1 DEF SafeInv
    <3>3. r \in Processes(k) /\ PlaceOK(r, t)
      BY <3>2 DEF ProcOK
    <3>4. r.opt.block \in 1 .. CacheQty /\ CacheQty \in Nat
      <4>1. CASE r.life = "none"
        BY <3>2, <4>1, ParsedDefault, TestRunAssumption DEF ProcOK, NoProcess
      <4>2. CASE r.life # "none"
        BY <3>2, <4>2, Blocks, TestRunAssumption DEF ProcOK
      <4> QED
        BY <4>1, <4>2
    <3>5. /\ r.life \in {"none", "up", "ended", "killed"} /\ r.size \in Nat /\ r.next \in Nat
          /\ r.at[t] \in Nat \union {NULL} /\ r.left[t] \in Nat
      BY <3>3 DEF Processes
    <3>6. r.left[t] \in 1 .. CacheQty + 1 /\ r.at[t] \in NULL .. r.next
      BY <3>3, <3>4, <3>5 DEF PlaceOK, NULL
    <3> QED
      BY <3>1, <3>5, <3>6
  <2>2. /\ stage \in {"start", "counting", "counts", "logging", "log"} \union Ended
        /\ area \in [fd : {"unset", "open", "closed"}, size : Nat]
        /\ qty \in Nat /\ started \subseteq Runs
    BY DEF SafeInv, StageOK
  <2> QED
    BY <2>1, <2>2 DEF TypeOK
<1> QED
  BY <1>1, SafeAlways, PTL

\* The tool ends with its files closed, and has closed nothing else, whatever
\* becomes of the runs and of their files.
THEOREM ReleasedAlways == ASSUME Decimals PROVE Spec => []Released
<1>1. SafeInv => Released
  BY DEF SafeInv
<1> QED
  BY <1>1, SafeAlways, PTL

\* Whatever the paths are, each process a run consists of finds the MODE, the
\* file and the numbers in MPROF_CONF that the tool has put there.
THEOREM OpensToolsFileAlways == ASSUME Decimals PROVE Spec => []OpensToolsFile
<1>1. SafeInv => OpensToolsFile
  <2> SUFFICES ASSUME SafeInv, NEW k \in Runs, NEW p \in Pids,
                      procs[k][p].life # "none", Plain(options.counts), Plain(options.log)
               PROVE  LET r == procs[k][p]
                      IN  /\ r.opt.init
                          /\ IF k = 1 THEN Counting(r) /\ r.opt.path = options.counts
                             ELSE /\ r.opt.mode = <<"Log", "Mmap">> /\ r.opt.path = options.log
                                  /\ r.opt.grow = qty /\ r.opt.block = CacheQty
    BY DEF OpensToolsFile
  <2>1. PICK r : r = procs[k][p]
    OBVIOUS
  <2>2. r.opt = ConfOf(k) /\ StageOK
    BY <2>1 DEF SafeInv, ProcOK
  <2>3. k = 1 \/ k = 2
    BY DEF Runs
  <2> QED
    BY <2>1, <2>2, <2>3, ConfFacts DEF Counting
<1> QED
  BY <1>1, SafeAlways, PTL
=============================================================================
