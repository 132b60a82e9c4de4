--------------------------- MODULE HeadersProofs ----------------------------
(***************************************************************************)
(* Theorems about Headers, for any names the application uses, any values  *)
(* of secret_header_name and any number of assignments to task.headers.    *)
(***************************************************************************)
EXTENDS Headers, SequenceTheorems, WellFoundedInduction, TLAPS

-----------------------------------------------------------------------------
(***************************************************************************)
(* Merging                                                                 *)
(***************************************************************************)

KeyAt(layers, i, j) == Lower(Dashed(layers[i][j].name))

\* The j-th header of the i-th layer is the last one with its key.
Survives(layers, i, j) ==
    \A k \in DOMAIN layers : \A m \in DOMAIN layers[k] :
        k > i \/ (k = i /\ m > j) => KeyAt(layers, k, m) # KeyAt(layers, i, j)

LEMMA MergedIs ==
    ASSUME NEW layers, NEW h
    PROVE  h \in MergeHeaders(layers) <=>
              \E i \in DOMAIN layers : \E j \in DOMAIN layers[i] :
                 /\ Survives(layers, i, j)
                 /\ h = Header(Dashed(layers[i][j].name), layers[i][j].value)
<1> DEFINE places == UNION {{i} \X DOMAIN layers[i] : i \in DOMAIN layers}
           last == {q \in places : \A r \in places :
                       r[1] > q[1] \/ (r[1] = q[1] /\ r[2] > q[2])
                         => KeyAt(layers, r[1], r[2]) # KeyAt(layers, q[1], q[2])}
<1>1. MergeHeaders(layers) =
         {Header(Dashed(layers[p[1]][p[2]].name), layers[p[1]][p[2]].value) : p \in last}
  BY DEF MergeHeaders, KeyAt
<1>2. \A i, j : i \in DOMAIN layers /\ j \in DOMAIN layers[i] <=> <<i, j>> \in places
  OBVIOUS
<1>3. \A p \in places : p = <<p[1], p[2]>> /\ p[1] \in DOMAIN layers /\ p[2] \in DOMAIN layers[p[1]]
  OBVIOUS
<1> HIDE DEF places
<1>4. ASSUME NEW p \in places PROVE p \in last <=> Survives(layers, p[1], p[2])
  <2>1. ASSUME Survives(layers, p[1], p[2]),
               NEW r \in places, r[1] > p[1] \/ (r[1] = p[1] /\ r[2] > p[2])
        PROVE  KeyAt(layers, r[1], r[2]) # KeyAt(layers, p[1], p[2])
    BY <1>3, <2>1 DEF Survives
  <2>2. ASSUME p \in last,
               NEW k \in DOMAIN layers, NEW m \in DOMAIN layers[k],
               k > p[1] \/ (k = p[1] /\ m > p[2])
        PROVE  KeyAt(layers, k, m) # KeyAt(layers, p[1], p[2])
    <3>1. <<k, m>> \in places /\ <<k, m>>[1] = k /\ <<k, m>>[2] = m
      BY <1>2
    <3> QED
      BY <2>2, <3>1
  <2> QED
    BY <2>1, <2>2 DEF Survives
<1> HIDE DEF last
<1>5. \A p \in last : p \in places
  BY DEF last
<1>6. ASSUME h \in MergeHeaders(layers)
      PROVE  \E i \in DOMAIN layers : \E j \in DOMAIN layers[i] :
                /\ Survives(layers, i, j)
                /\ h = Header(Dashed(layers[i][j].name), layers[i][j].value)
  BY <1>1, <1>3, <1>4, <1>5, <1>6
<1>7. ASSUME NEW i \in DOMAIN layers, NEW j \in DOMAIN layers[i], Survives(layers, i, j),
             h = Header(Dashed(layers[i][j].name), layers[i][j].value)
      PROVE  h \in MergeHeaders(layers)
  <2>1. <<i, j>> \in last
    BY <1>2, <1>4, <1>7
  <2> QED
    BY <1>1, <1>7, <2>1
<1> QED
  BY <1>6, <1>7

\* A bounded set of numbers has a greatest element.
LEMMA Greatest ==
    ASSUME NEW n \in Nat, NEW T \in SUBSET (1..n), T # {}
    PROVE  \E x \in T : \A y \in T : y <= x
<1> DEFINE U == {n - y : y \in T}
<1>1. U \subseteq Nat /\ U # {}
  <2>1. \A y \in T : y \in 1..n
    OBVIOUS
  <2>2. \A y \in T : n - y \in Nat
    BY <2>1
  <2>3. PICK y \in T : TRUE
    OBVIOUS
  <2>4. n - y \in U
    BY <2>3
  <2> QED
    BY <2>2, <2>4
<1>2. PICK u \in U : \A v \in U : ~(<<v, u>> \in OpToRel(<, Nat))
  BY <1>1, WFMin, NatLessThanWellFounded
<1>3. \A v \in U : ~(v < u)
  BY <1>1, <1>2 DEF OpToRel
<1>4. PICK x \in T : u = n - x
  OBVIOUS
<1>5. \A y \in T : ~(n - y < n - x)
  BY <1>3, <1>4
<1> QED
  BY <1>5

\* No name is lost: of the headers with a key the last one is kept.
LEMMA MergedCovers ==
    ASSUME NEW S, NEW layers \in Seq(Seq(S)),
           NEW i \in DOMAIN layers, NEW j \in DOMAIN layers[i]
    PROVE  \E k \in DOMAIN layers : \E m \in DOMAIN layers[k] :
              /\ Survives(layers, k, m) /\ KeyAt(layers, k, m) = KeyAt(layers, i, j)
              /\ k >= i
<1>1. /\ DOMAIN layers = 1..Len(layers) /\ Len(layers) \in Nat
      /\ \A k \in DOMAIN layers : DOMAIN layers[k] = 1..Len(layers[k]) /\ Len(layers[k]) \in Nat
  <2>1. \A k \in DOMAIN layers : layers[k] \in Seq(S)
    BY ElementOfSeq
  <2> QED
    BY <2>1, LenProperties
<1> DEFINE Has(k, m) == KeyAt(layers, k, m) = KeyAt(layers, i, j)
           K == {k \in DOMAIN layers : \E m \in DOMAIN layers[k] : Has(k, m)}
<1>2. PICK k \in K : \A x \in K : x <= k
  <2>1. K \subseteq 1..Len(layers) /\ i \in K
    BY <1>1
  <2> HIDE DEF K
  <2> QED
    BY <1>1, <2>1, Greatest
<1> DEFINE M == {m \in DOMAIN layers[k] : Has(k, m)}
<1>3. PICK m \in M : \A x \in M : x <= m
  <2>1. M \subseteq 1..Len(layers[k]) /\ Len(layers[k]) \in Nat /\ M # {}
    BY <1>1
  <2> HIDE DEF M
  <2> QED
    BY <2>1, Greatest
<1>4. Survives(layers, k, m)
  <2> SUFFICES ASSUME NEW x \in DOMAIN layers, NEW y \in DOMAIN layers[x],
                      x > k \/ (x = k /\ y > m), Has(x, y)
               PROVE  FALSE
    BY <1>3 DEF Survives
  <2>1. x \in K /\ x \in Nat /\ y \in Nat /\ k \in Nat /\ m \in Nat
    BY <1>1, <1>2, <1>3
  <2>2. x = k
    <3>1. x <= k
      BY <1>2, <2>1
    <3>2. x > k \/ x = k
      OBVIOUS
    <3> HIDE DEF K
    <3> QED
      BY <2>1, <3>1, <3>2
  <2>3. y \in M
    BY <2>2
  <2> QED
    BY <1>3, <2>1, <2>2, <2>3
<1>5. k >= i
  BY <1>1, <1>2
<1> QED
  BY <1>3, <1>4, <1>5

\* No name is kept twice.
LEMMA MergedOnce ==
    ASSUME NEW S, NEW layers \in Seq(Seq(S)),
           NEW g \in MergeHeaders(layers), NEW h \in MergeHeaders(layers),
           Lower(g.name) = Lower(h.name)
    PROVE  g = h
<1>1. PICK i \in DOMAIN layers : \E j \in DOMAIN layers[i] :
         Survives(layers, i, j) /\ g = Header(Dashed(layers[i][j].name), layers[i][j].value)
  BY MergedIs
<1>2. PICK j \in DOMAIN layers[i] :
         Survives(layers, i, j) /\ g = Header(Dashed(layers[i][j].name), layers[i][j].value)
  BY <1>1
<1>3. PICK k \in DOMAIN layers : \E m \in DOMAIN layers[k] :
         Survives(layers, k, m) /\ h = Header(Dashed(layers[k][m].name), layers[k][m].value)
  BY MergedIs
<1>4. PICK m \in DOMAIN layers[k] :
         Survives(layers, k, m) /\ h = Header(Dashed(layers[k][m].name), layers[k][m].value)
  BY <1>3
<1>5. i \in Nat /\ j \in Nat /\ k \in Nat /\ m \in Nat
  <2>1. layers[i] \in Seq(S) /\ layers[k] \in Seq(S)
    BY ElementOfSeq
  <2> QED
    BY <2>1, LenProperties
<1>6. KeyAt(layers, i, j) = KeyAt(layers, k, m)
  BY <1>2, <1>4 DEF KeyAt, Header
<1>7. ~(k > i) /\ ~(i > k) /\ (k = i => ~(m > j)) /\ (k = i => ~(j > m))
  BY <1>2, <1>4, <1>6 DEF Survives
<1>8. i = k /\ j = m
  BY <1>5, <1>7
<1> QED
  BY <1>2, <1>4, <1>8

-----------------------------------------------------------------------------
(***************************************************************************)
(* Names, on their way to the worker                                       *)
(***************************************************************************)

\* Headers as merged: with dashes, and each name once whatever its case.
Dict(hs) ==
    /\ \A h \in hs : h \in [name : Spellings, value : Values] /\ h.name.sep = "-"
    /\ \A g, h \in hs : Lower(g.name) = Lower(h.name) => g = h

Received(hs, gateway) == {Header(Spelled(h.name, gateway), h.value) : h \in hs}

\* What the worker makes of the headers, whichever of two that fall together it keeps.
Normalized(hs, gateway, headers) ==
    \E strayLast \in BOOLEAN : headers = NormalizeHeaders(Received(hs, gateway), strayLast)

NormalKey(n) == Stripped(Lower(Dashed(n)))

\* What a gateway makes of a name may have a prefix more than the names of Spellings.
Names == [word : Words, sep : {"-", "_"}, case : {"lower", "mixed"}, http : Nat]

Spelling(w, s, c, k) == [word |-> w, sep |-> s, case |-> c, http |-> k]

LEMMA NamesFields ==
    ASSUME NEW n \in Names
    PROVE  /\ n.word \in Words /\ n.sep \in {"-", "_"} /\ n.case \in {"lower", "mixed"}
           /\ n.http \in Nat
           /\ n = Spelling(n.word, n.sep, n.case, n.http)
<1>1. n.word \in Words /\ n.sep \in {"-", "_"} /\ n.case \in {"lower", "mixed"}
  BY DEF Names
<1>2. n.http \in Nat
  BY DEF Names
<1>3. n = Spelling(n.word, n.sep, n.case, n.http)
  BY DEF Names, Spelling
<1> QED
  BY <1>1, <1>2, <1>3

\* A name is what its fields are.
LEMMA SameName ==
    ASSUME NEW m \in Names, NEW n \in Names,
           m.word = n.word, m.sep = n.sep, m.case = n.case, m.http = n.http
    PROVE  m = n
<1>1. Spelling(m.word, m.sep, m.case, m.http) = Spelling(n.word, n.sep, n.case, n.http)
  OBVIOUS
<1>2. m = Spelling(m.word, m.sep, m.case, m.http) /\ n = Spelling(n.word, n.sep, n.case, n.http)
  BY NamesFields
<1> QED
  BY <1>1, <1>2

LEMMA SpellingsAreNames ==
    ASSUME NEW n
    PROVE  n \in Spellings <=> n \in Names /\ n.http \in 0..2
<1>1. ASSUME n \in Spellings PROVE n \in Names /\ n.http \in 0..2
  <2>1. n = Spelling(n.word, n.sep, n.case, n.http)
    BY <1>1 DEF Spellings, Spelling
  <2>2. n.word \in Words /\ n.sep \in {"-", "_"} /\ n.case \in {"lower", "mixed"}
    BY <1>1 DEF Spellings
  <2>3. n.http \in 0..2
    BY <1>1 DEF Spellings
  <2>4. n.http \in Nat
    BY <2>3
  <2>5. Spelling(n.word, n.sep, n.case, n.http) \in Names
    BY <2>2, <2>4 DEF Spelling, Names
  <2> QED
    BY <2>1, <2>3, <2>5
<1>2. ASSUME n \in Names, n.http \in 0..2 PROVE n \in Spellings
  <2>1. n = Spelling(n.word, n.sep, n.case, n.http)
    BY <1>2, NamesFields
  <2>2. n.word \in Words /\ n.sep \in {"-", "_"} /\ n.case \in {"lower", "mixed"}
    BY <1>2, NamesFields
  <2>3. Spelling(n.word, n.sep, n.case, n.http) \in Spellings
    BY <1>2, <2>2 DEF Spelling, Spellings
  <2> QED
    BY <2>1, <2>3
<1> QED
  BY <1>1, <1>2

\* What each operator changes of a name.
LEMMA LowerFields ==
    ASSUME NEW n \in Names
    PROVE  /\ Lower(n) \in Names /\ Lower(n).case = "lower"
           /\ Lower(n).word = n.word /\ Lower(n).sep = n.sep /\ Lower(n).http = n.http
<1>1. Lower(n) \in Names
  BY DEF Lower, Names
<1>2. Lower(n).case = "lower" /\ Lower(n).word = n.word /\ Lower(n).sep = n.sep
  BY DEF Lower, Names
<1>3. Lower(n).http = n.http
  BY DEF Lower, Names
<1> QED
  BY <1>1, <1>2, <1>3

LEMMA DashedFields ==
    ASSUME NEW n \in Names
    PROVE  /\ Dashed(n) \in Names /\ Dashed(n).sep = "-"
           /\ Dashed(n).word = n.word /\ Dashed(n).case = n.case /\ Dashed(n).http = n.http
<1>1. Dashed(n) \in Names
  BY DEF Dashed, Names
<1>2. Dashed(n).sep = "-" /\ Dashed(n).word = n.word /\ Dashed(n).case = n.case
  BY DEF Dashed, Names
<1>3. Dashed(n).http = n.http
  BY DEF Dashed, Names
<1> QED
  BY <1>1, <1>2, <1>3

LEMMA StrippedFields ==
    ASSUME NEW n \in Names
    PROVE  /\ Stripped(n) \in Names
           /\ Stripped(n).http = IF n.http > 0 THEN n.http - 1 ELSE 0
           /\ Stripped(n).word = n.word /\ Stripped(n).sep = n.sep /\ Stripped(n).case = n.case
<1> DEFINE k == IF n.http > 0 THEN n.http - 1 ELSE 0
<1>1. k \in Nat
  <2>1. n.http \in Nat
    BY NamesFields
  <2> QED
    BY <2>1
<1>2. Stripped(n) = [n EXCEPT !.http = k]
  BY DEF Stripped
<1> HIDE DEF k
<1>3. Stripped(n) \in Names
  BY <1>1, <1>2 DEF Names
<1>4. Stripped(n).http = k
  BY <1>2 DEF Names
<1>5. Stripped(n).word = n.word /\ Stripped(n).sep = n.sep /\ Stripped(n).case = n.case
  BY <1>2 DEF Names
<1> QED
  BY <1>3, <1>4, <1>5 DEF k

LEMMA SpelledFields ==
    ASSUME NEW n \in Names
    PROVE  LET m == Spelled(n, "wsgi") IN
           /\ m \in Names /\ m.word = n.word
           /\ m.http = IF n.word = "content-type" /\ n.http = 0 THEN 0 ELSE n.http + 1
<1> DEFINE k == IF n.word = "content-type" /\ n.http = 0 THEN 0 ELSE n.http + 1
<1>1. k \in Nat
  <2>1. n.http \in Nat
    BY NamesFields
  <2> QED
    BY <2>1
<1>2. Spelled(n, "wsgi") = [n EXCEPT !.sep = "_", !.case = "mixed", !.http = k]
  BY DEF Spelled
<1> HIDE DEF k
<1>3. Spelled(n, "wsgi") \in Names
  BY <1>1, <1>2 DEF Names
<1>4. Spelled(n, "wsgi").http = k
  BY <1>2 DEF Names
<1>5. Spelled(n, "wsgi").word = n.word
  BY <1>2 DEF Names
<1> QED
  BY <1>3, <1>4, <1>5 DEF k

\* Either gateway's spelling is undone, but for a prefix that an ASGI server did not add.
LEMMA SpelledBack ==
    ASSUME NEW n \in Names, n.sep = "-"
    PROVE  /\ Spelled(n, "asgi") = Lower(n)
           /\ NormalKey(Spelled(n, "asgi")) = Stripped(Lower(n))
           /\ NormalKey(Spelled(n, "wsgi")) = Lower(n)
<1>1. Spelled(n, "asgi") = Lower(n)
  BY DEF Spelled
<1>2. NormalKey(Lower(n)) = Stripped(Lower(n))
  <2>1. Lower(n) \in Names /\ Lower(n).sep = "-" /\ Lower(n).case = "lower"
    BY LowerFields
  <2>2. Dashed(Lower(n)) = Lower(n)
    BY <2>1, DashedFields, SameName
  <2>3. Lower(Lower(n)) = Lower(n)
    BY <2>1, LowerFields, SameName
  <2> QED
    BY <2>2, <2>3 DEF NormalKey
<1>3. NormalKey(Spelled(n, "wsgi")) = Lower(n)
  <2> DEFINE m == Spelled(n, "wsgi")
             d == Dashed(m)
             l == Lower(d)
             s == Stripped(l)
  <2>1. m \in Names /\ m.word = n.word
        /\ m.http = IF n.word = "content-type" /\ n.http = 0 THEN 0 ELSE n.http + 1
    BY SpelledFields
  <2>2. s = NormalKey(m)
    BY DEF NormalKey
  <2> HIDE DEF m
  <2>3. d \in Names /\ d.word = n.word /\ d.sep = "-" /\ d.http = m.http
    BY <2>1, DashedFields
  <2> HIDE DEF d
  <2>4. l \in Names /\ l.word = n.word /\ l.sep = "-" /\ l.case = "lower" /\ l.http = m.http
    BY <2>3, LowerFields
  <2> HIDE DEF l
  <2>5. s \in Names /\ s.word = n.word /\ s.sep = "-" /\ s.case = "lower"
        /\ s.http = IF l.http > 0 THEN l.http - 1 ELSE 0
    BY <2>4, StrippedFields
  <2> HIDE DEF s
  <2>6. s.http = n.http
    <3>1. n.http \in Nat
      BY NamesFields
    <3>2. l.http = IF n.word = "content-type" /\ n.http = 0 THEN 0 ELSE n.http + 1
      BY <2>1, <2>4
    <3>3. s.http = IF l.http > 0 THEN l.http - 1 ELSE 0
      BY <2>5
    <3> QED
      BY <3>1, <3>2, <3>3
  <2>7. s = Lower(n)
    BY <2>5, <2>6, LowerFields, SameName
  <2> QED
    BY <2>2, <2>7 DEF m
<1> QED
  BY <1>1, <1>2, <1>3

\* Stripping tells two names apart unless one of them has a prefix and the other has none.
LEMMA StrippedOnce ==
    ASSUME NEW m \in Names, NEW n \in Names,
           Stripped(m) = Stripped(n), m.http > 0 <=> n.http > 0
    PROVE  m = n
<1>1. m.word = n.word /\ m.sep = n.sep /\ m.case = n.case
  BY StrippedFields
<1>2. (IF m.http > 0 THEN m.http - 1 ELSE 0) = (IF n.http > 0 THEN n.http - 1 ELSE 0)
  BY StrippedFields
<1>3. m.http \in Nat /\ n.http \in Nat
  BY NamesFields
<1>4. m.http = n.http
  BY <1>2, <1>3
<1> QED
  BY <1>1, <1>4, SameName

SentAs(hs, gateway, n, v) ==
    \E h \in hs : NormalKey(Spelled(h.name, gateway)) = n /\ v = h.value

\* Each normalised header is one of those that were sent.
LEMMA NormalizedIs ==
    ASSUME NEW hs, Dict(hs), NEW gateway \in {"asgi", "wsgi"},
           NEW headers, Normalized(hs, gateway, headers)
    PROVE  /\ DOMAIN headers = {NormalKey(Spelled(h.name, gateway)) : h \in hs}
           /\ \A n \in DOMAIN headers : SentAs(hs, gateway, n, headers[n])
<1>0. PICK strayLast \in BOOLEAN :
         headers = NormalizeHeaders(Received(hs, gateway), strayLast)
  BY DEF Normalized
<1> DEFINE rs == Received(hs, gateway)
           Key(h) == NormalKey(Spelled(h.name, gateway))
           Wins(r, n) == /\ NormalKey(r.name) = n
                         /\ (r.name.http > 0) = strayLast
                            \/ \A g \in rs \ {r} : NormalKey(g.name) # n
<1>1. headers = [n \in {NormalKey(r.name) : r \in rs} |-> (CHOOSE r \in rs : Wins(r, n)).value]
  BY <1>0 DEF NormalizeHeaders, NormalKey
<1>2. \A r : r \in rs <=> \E h \in hs : r = Header(Spelled(h.name, gateway), h.value)
  BY DEF Received
<1>3. {NormalKey(r.name) : r \in rs} = {Key(h) : h \in hs}
  <2>1. \A h \in hs : /\ Header(Spelled(h.name, gateway), h.value) \in rs
                      /\ Header(Spelled(h.name, gateway), h.value).name = Spelled(h.name, gateway)
    BY <1>2 DEF Header
  <2>2. \A r \in rs : \E h \in hs : r.name = Spelled(h.name, gateway)
    BY <1>2 DEF Header
  <2> HIDE DEF rs
  <2> QED
    BY <2>1, <2>2
<1>4. ASSUME NEW g \in hs, NEW h \in hs, g # h, Key(g) = Key(h)
      PROVE  Spelled(g.name, gateway).http > 0 <=> ~(Spelled(h.name, gateway).http > 0)
  <2>1. /\ g.name \in Names /\ g.name.sep = "-"
        /\ h.name \in Names /\ h.name.sep = "-"
        /\ Lower(g.name) # Lower(h.name)
    BY <1>4, SpellingsAreNames DEF Dict
  <2>2. gateway = "asgi"
    BY <1>4, <2>1, SpelledBack
  <2>3. Stripped(Lower(g.name)) = Stripped(Lower(h.name))
    BY <1>4, <2>1, <2>2, SpelledBack
  <2>4. ~(Lower(g.name).http > 0 <=> Lower(h.name).http > 0)
    <3>1. Lower(g.name) \in Names /\ Lower(h.name) \in Names
      BY <2>1, LowerFields
    <3> QED
      BY <2>1, <2>3, <3>1, StrippedOnce
  <2> QED
    BY <2>1, <2>2, <2>4, SpelledBack
<1>5. ASSUME NEW r \in rs
      PROVE  \E w \in rs : Wins(w, NormalKey(r.name))
  <2>1. CASE \A g \in rs \ {r} : NormalKey(g.name) # NormalKey(r.name)
    BY <2>1
  <2>2. CASE \E g \in rs \ {r} : NormalKey(g.name) = NormalKey(r.name)
    <3>1. PICK g \in rs \ {r} : NormalKey(g.name) = NormalKey(r.name)
      BY <2>2
    <3>2. PICK a \in hs, b \in hs : /\ r = Header(Spelled(a.name, gateway), a.value)
                                   /\ g = Header(Spelled(b.name, gateway), b.value)
      BY <1>2
    <3>3. a # b /\ Key(a) = Key(b)
      BY <3>1, <3>2 DEF Header
    <3>4. r.name.http > 0 <=> ~(g.name.http > 0)
      BY <1>4, <3>2, <3>3 DEF Header
    <3>5. (r.name.http > 0) = strayLast \/ (g.name.http > 0) = strayLast
      BY <3>4
    <3> QED
      BY <3>1, <3>5
  <2> QED
    BY <2>1, <2>2
<1>6. ASSUME NEW n \in DOMAIN headers
      PROVE  \E h \in hs : Key(h) = n /\ headers[n] = h.value
  <2>1. PICK r \in rs : NormalKey(r.name) = n
    BY <1>1
  <2>2. \E w \in rs : Wins(w, n)
    BY <1>5, <2>1
  <2> DEFINE w == CHOOSE x \in rs : Wins(x, n)
  <2>3. w \in rs /\ NormalKey(w.name) = n
    BY <2>2
  <2>4. headers[n] = w.value
    BY <1>1
  <2> HIDE DEF w
  <2>5. PICK h \in hs : w = Header(Spelled(h.name, gateway), h.value)
    BY <1>2, <2>3
  <2> QED
    BY <2>3, <2>4, <2>5 DEF Header
<1>7. \A n \in DOMAIN headers : SentAs(hs, gateway, n, headers[n])
  BY <1>6 DEF SentAs
<1> QED
  BY <1>1, <1>3, <1>7

LEMMA CleanKey ==
    ASSUME NEW n \in Names, n.sep = "-", n.http = 0, NEW gateway \in {"asgi", "wsgi"}
    PROVE  NormalKey(Spelled(n, gateway)) = Lower(n)
<1>1. Lower(n) \in Names /\ Lower(n).http = 0
  BY LowerFields
<1>2. Stripped(Lower(n)) \in Names /\ Stripped(Lower(n)).http = 0
  BY <1>1, StrippedFields
<1>3. Stripped(Lower(n)) = Lower(n)
  BY <1>1, <1>2, StrippedFields, SameName
<1> QED
  BY <1>3, SpelledBack

\* Every header is found under its lower-case name.
LowerNamed(hs, headers) ==
    /\ DOMAIN headers = {Lower(h.name) : h \in hs}
    /\ \A h \in hs : headers[Lower(h.name)] = h.value

\* Where no name has a prefix, the worker finds the headers so.
LEMMA NormalizedClean ==
    ASSUME NEW hs, Dict(hs), \A h \in hs : h.name.http = 0,
           NEW gateway \in {"asgi", "wsgi"},
           NEW headers, Normalized(hs, gateway, headers)
    PROVE  LowerNamed(hs, headers)
<1> DEFINE Key(h) == NormalKey(Spelled(h.name, gateway))
<1>1. \A h \in hs : Key(h) = Lower(h.name)
  <2> SUFFICES ASSUME NEW h \in hs PROVE Key(h) = Lower(h.name)
    OBVIOUS
  <2>1. h.name \in Names /\ h.name.sep = "-" /\ h.name.http = 0
    BY SpellingsAreNames DEF Dict
  <2> QED
    BY <2>1, CleanKey
<1>2. /\ DOMAIN headers = {Key(h) : h \in hs}
      /\ \A n \in DOMAIN headers : SentAs(hs, gateway, n, headers[n])
  BY NormalizedIs
<1>3. DOMAIN headers = {Lower(h.name) : h \in hs}
  BY <1>1, <1>2
<1>4. ASSUME NEW h \in hs PROVE headers[Lower(h.name)] = h.value
  <2>1. PICK g \in hs : Key(g) = Lower(h.name) /\ headers[Lower(h.name)] = g.value
    <3>1. Lower(h.name) \in DOMAIN headers
      BY <1>1, <1>2
    <3>2. SentAs(hs, gateway, Lower(h.name), headers[Lower(h.name)])
      BY <1>2, <3>1
    <3> QED
      BY <3>2 DEF SentAs
  <2>2. g = h
    BY <1>1, <2>1 DEF Dict
  <2> QED
    BY <2>1, <2>2
<1> QED
  BY <1>3, <1>4 DEF LowerNamed

LEMMA NameIs ==
    ASSUME NEW w \in Words
    PROVE  /\ Name(w) \in Spellings /\ Name(w) \in Names
           /\ Name(w).word = w /\ Name(w).sep = "-" /\ Name(w).case = "lower" /\ Name(w).http = 0
           /\ Lower(Name(w)) = Name(w)
<1>1. Name(w).word = w /\ Name(w).sep = "-" /\ Name(w).case = "lower"
  BY DEF Name
<1>2. Name(w).http = 0
  BY DEF Name
<1>3. Name(w) \in Names
  BY DEF Name, Names
<1>4. Lower(Name(w)) = Name(w)
  BY <1>1, <1>3, LowerFields, SameName
<1> QED
  BY <1>1, <1>2, <1>3, <1>4, SpellingsAreNames

\* The headers Cloud Tasks adds.
Added(h) ==
    /\ h.value = "queue"
    /\ h = Header(h.name, h.value)
    /\ h.name = Name("x-cloudtasks-taskretrycount") \/ (Oidc /\ h.name = Name("authorization"))

\* The names of these.
Own(n) == n = Name("x-cloudtasks-taskretrycount") \/ (Oidc /\ n = Name("authorization"))

LEMMA ForwardedAre ==
    ASSUME NEW hs, NEW h
    PROVE  h \in Forwarded(hs) <=> (h \in hs /\ ~Own(Lower(h.name))) \/ Added(h)
<1> DEFINE own == {Header(Name("x-cloudtasks-taskretrycount"), "queue")}
                  \cup (IF Oidc THEN {Header(Name("authorization"), "queue")} ELSE {})
<1>1. Forwarded(hs) = {g \in hs : \A o \in own : Lower(g.name) # o.name} \cup own
  BY DEF Forwarded
<1>2. \A o : o \in own <=> Added(o)
  BY DEF Added, Header
<1>3. \A n : (\A o \in own : n # o.name) <=> ~Own(n)
  <2> SUFFICES ASSUME NEW n PROVE (\E o \in own : n = o.name) <=> Own(n)
    OBVIOUS
  <2>1. ASSUME NEW o \in own, n = o.name PROVE Own(n)
    BY <1>2, <2>1 DEF Own, Added
  <2>2. ASSUME Own(n) PROVE \E o \in own : n = o.name
    <3>1. \A v : Header(n, v).name = n
      BY DEF Header
    <3>2. Header(n, "queue") \in own
      BY <2>2 DEF Own
    <3> HIDE DEF own
    <3> QED
      BY <3>1, <3>2
  <2> QED
    BY <2>1, <2>2
<1> HIDE DEF own
<1> QED
  BY <1>1, <1>2, <1>3

LEMMA ForwardedIs ==
    ASSUME NEW hs, Dict(hs)
    PROVE  /\ Dict(Forwarded(hs))
           /\ (\A h \in hs : h.name.http = 0) => \A h \in Forwarded(hs) : h.name.http = 0
<1>1. "x-cloudtasks-taskretrycount" \in Words /\ "authorization" \in Words
  BY DEF Words
<1>2. "queue" \in Values
  BY DEF Values
<1>3. ASSUME NEW h, Added(h)
      PROVE  /\ h \in [name : Spellings, value : Values] /\ h.name.sep = "-" /\ h.name.http = 0
             /\ Lower(h.name) = h.name /\ Own(Lower(h.name))
  <2>1. /\ h.name \in Spellings /\ h.name.sep = "-" /\ h.name.http = 0 /\ Lower(h.name) = h.name
        /\ Own(h.name)
    BY <1>1, <1>3, NameIs DEF Added, Own
  <2>2. h \in [name : Spellings, value : Values]
    BY <1>2, <1>3, <2>1 DEF Added, Header
  <2> QED
    BY <2>1, <2>2
<1>4. ASSUME NEW h \in Forwarded(hs)
      PROVE  h \in [name : Spellings, value : Values] /\ h.name.sep = "-"
  BY <1>3, ForwardedAre DEF Dict
<1>5. ASSUME NEW g \in Forwarded(hs), NEW h \in Forwarded(hs), Lower(g.name) = Lower(h.name)
      PROVE  g = h
  <2>1. CASE Added(g) /\ Added(h)
    <3>1. g.name = h.name /\ g.value = h.value
      BY <1>3, <1>5, <2>1 DEF Added
    <3> QED
      BY <2>1, <3>1 DEF Added
  <2>2. CASE ~Added(g) /\ ~Added(h)
    BY <1>5, <2>2, ForwardedAre DEF Dict
  <2>3. CASE Added(g) /\ ~Added(h)
    BY <1>3, <1>5, <2>3, ForwardedAre
  <2>4. CASE ~Added(g) /\ Added(h)
    BY <1>3, <1>5, <2>4, ForwardedAre
  <2> QED
    BY <2>1, <2>2, <2>3, <2>4
<1>6. ASSUME \A h \in hs : h.name.http = 0, NEW h \in Forwarded(hs) PROVE h.name.http = 0
  BY <1>3, <1>6, ForwardedAre
<1> QED
  BY <1>4, <1>5, <1>6 DEF Dict

-----------------------------------------------------------------------------
(***************************************************************************)
(* The headers of a push                                                   *)
(***************************************************************************)

AnyHeader == [name : Spellings, value : Values]

LayersOk(p) ==
    /\ p \in Seq(Seq(AnyHeader)) /\ Len(p) = 4
    /\ \A i \in 1..4 : p[i] \in Seq([name : AppNames, value : {Layers[i]}])

LEMMA HeaderIs ==
    ASSUME NEW n, NEW v
    PROVE  /\ Header(n, v).name = n /\ Header(n, v).value = v
           /\ n \in Spellings /\ v \in Values => Header(n, v) \in AnyHeader
<1>1. Header(n, v).name = n /\ Header(n, v).value = v
  BY DEF Header
<1>2. ASSUME n \in Spellings, v \in Values PROVE Header(n, v) \in AnyHeader
  BY <1>2 DEF Header, AnyHeader
<1> QED
  BY <1>1, <1>2

\* What is merged is a dict of headers.
LEMMA MergedDict ==
    ASSUME NEW p \in Seq(Seq(AnyHeader))
    PROVE  Dict(MergeHeaders(p))
<1>1. ASSUME NEW h \in MergeHeaders(p)
      PROVE  h \in AnyHeader /\ h.name.sep = "-"
  <2>1. PICK i \in DOMAIN p : \E j \in DOMAIN p[i] :
           h = Header(Dashed(p[i][j].name), p[i][j].value)
    BY MergedIs
  <2>2. PICK j \in DOMAIN p[i] : h = Header(Dashed(p[i][j].name), p[i][j].value)
    BY <2>1
  <2>3. p[i][j] \in AnyHeader
    <3>1. p[i] \in Seq(AnyHeader)
      BY ElementOfSeq
    <3> QED
      BY <3>1, ElementOfSeq
  <2> DEFINE n == p[i][j].name
             v == p[i][j].value
  <2>4. n \in Spellings /\ v \in Values
    BY <2>3 DEF AnyHeader
  <2>5. h = Header(Dashed(n), v)
    BY <2>2
  <2> HIDE DEF n, v
  <2>6. Dashed(n) \in Spellings /\ Dashed(n).sep = "-"
    BY <2>4, SpellingsAreNames, DashedFields
  <2> QED
    BY <2>4, <2>5, <2>6, HeaderIs
<1>2. \A g, h \in MergeHeaders(p) : Lower(g.name) = Lower(h.name) => g = h
  BY MergedOnce
<1> QED
  BY <1>1, <1>2 DEF Dict, AnyHeader

IsContentType(h) == Lower(Dashed(h.name)) = Name("content-type") /\ h.value = "json"

\* The library's own headers: the secret, if there is one, and then the content type.
LEMMA LibraryIs ==
    ASSUME NEW name \in SecretNames, NEW s \in Secrets \cup {NoSecret}
    PROVE  /\ Library(name, s) \in Seq(AnyHeader)
           /\ \A j \in DOMAIN Library(name, s) :
                 \/ IsContentType(Library(name, s)[j])
                 \/ s # NoSecret /\ j = 1 /\ Library(name, s)[j] = Header(name, s)
           /\ s # NoSecret => /\ 1 \in DOMAIN Library(name, s)
                              /\ Library(name, s)[1] = Header(name, s)
           /\ \E j \in DOMAIN Library(name, s) : IsContentType(Library(name, s)[j])
<1> DEFINE ct == [Name("content-type") EXCEPT !.case = "mixed"]
           x == Header(ct, "json")
<1>1. ct \in Spellings /\ Lower(Dashed(ct)) = Name("content-type")
  <2>1. "content-type" \in Words
    BY DEF Words
  <2>2. Name("content-type") \in Names
    BY <2>1, NameIs
  <2>3. ct \in Names /\ ct.word = Name("content-type").word /\ ct.sep = Name("content-type").sep
    BY <2>2 DEF Names
  <2>4. ct.http = Name("content-type").http
    BY <2>2 DEF Names
  <2> HIDE DEF ct
  <2>5. Dashed(ct) \in Names
    BY <2>3, DashedFields
  <2>6. Lower(Dashed(ct)) = Name("content-type")
    BY <2>1, <2>3, <2>4, <2>5, NameIs, DashedFields, LowerFields, SameName
  <2>7. ct.http \in 0..2
    BY <2>1, <2>4, NameIs
  <2> QED
    BY <2>3, <2>6, <2>7, SpellingsAreNames
<1>2. x \in AnyHeader /\ IsContentType(x)
  <2> HIDE DEF ct
  <2>1. "json" \in Values
    BY DEF Values
  <2> QED
    BY <1>1, <2>1, HeaderIs DEF IsContentType
<1>3. CASE s = NoSecret
  <2>1. Library(name, s) = <<x>>
    BY <1>3 DEF Library
  <2> DEFINE lib == Library(name, s)
  <2> HIDE DEF x
  <2>2. lib = <<x>>
    BY <2>1
  <2> HIDE DEF lib
  <2>3. lib \in Seq(AnyHeader) /\ DOMAIN lib = 1..1 /\ lib[1] = x
    BY <1>2, <2>2
  <2>4. \A j \in 1..1 : j = 1
    OBVIOUS
  <2> QED
    BY <1>2, <1>3, <2>3, <2>4 DEF lib
<1>4. CASE s # NoSecret
  <2> DEFINE y == Header(name, s)
  <2>1. y \in AnyHeader
    <3>1. name \in Spellings /\ s \in Values
      BY <1>4, HeadersAssumption DEF Values
    <3> QED
      BY <3>1, HeaderIs
  <2> DEFINE lib == Library(name, s)
  <2>2. lib = <<y>> \o <<x>>
    BY <1>4 DEF Library
  <2> HIDE DEF x, y, lib
  <2>3. /\ <<y>> \in Seq(AnyHeader) /\ Len(<<y>>) = 1 /\ <<y>>[1] = y
        /\ <<x>> \in Seq(AnyHeader) /\ Len(<<x>>) = 1 /\ <<x>>[1] = x
    BY <1>2, <2>1
  <2>4. lib \in Seq(AnyHeader) /\ DOMAIN lib = 1..2 /\ lib[1] = y /\ lib[2] = x
    <3>1. lib \in Seq(AnyHeader) /\ Len(lib) = 2
      BY <2>2, <2>3, ConcatProperties
    <3>2. \A i \in 1..2 : lib[i] = IF i <= 1 THEN <<y>>[i] ELSE <<x>>[i - 1]
      BY <2>2, <2>3, ConcatProperties
    <3>3. lib[1] = y /\ lib[2] = x
      BY <2>3, <3>2
    <3> QED
      BY <3>1, <3>3, LenProperties
  <2>5. \A j \in 1..2 : j = 1 \/ j = 2
    OBVIOUS
  <2> QED
    BY <1>2, <1>4, <2>4, <2>5 DEF lib, y
<1> QED
  BY <1>3, <1>4

LEMMA OneMore ==
    ASSUME NEW S, NEW q \in Seq(S), NEW e \in S
    PROVE  /\ Append(q, e) \in Seq(S) /\ Len(Append(q, e)) = Len(q) + 1
           /\ Append(q, e)[Len(q) + 1] = e
  BY AppendProperties

LEMMA SameBefore ==
    ASSUME NEW S, NEW q \in Seq(S), NEW e \in S, NEW i \in 1..Len(q)
    PROVE  Append(q, e)[i] = q[i]
  BY AppendProperties

LEMMA Layered ==
    ASSUME NEW T, NEW p \in Seq(Seq(T)), Len(p) = 4, NEW l \in Seq(T)
    PROVE  /\ Append(p, l) \in Seq(Seq(T)) /\ Len(Append(p, l)) = 5
           /\ Append(p, l)[5] = l
           /\ \A i \in 1..4 : Append(p, l)[i] = p[i]
<1>1. Append(p, l) \in Seq(Seq(T)) /\ Len(Append(p, l)) = Len(p) + 1
  BY OneMore
<1>2. Append(p, l)[Len(p) + 1] = l
  BY OneMore
<1>3. ASSUME NEW i \in 1..4 PROVE Append(p, l)[i] = p[i]
  <2>1. i \in 1..Len(p)
    OBVIOUS
  <2> QED
    BY <2>1, SameBefore
<1> QED
  BY <1>1, <1>2, <1>3

\* The layers with the library's headers over them.
All(p, name, s) == Append(p, Library(name, s))

LEMMA AllLayers ==
    ASSUME NEW p, LayersOk(p), NEW name \in SecretNames, NEW s \in Secrets \cup {NoSecret}
    PROVE  /\ All(p, name, s) \in Seq(Seq(AnyHeader)) /\ DOMAIN All(p, name, s) = 1..5
           /\ All(p, name, s)[5] = Library(name, s)
           /\ \A i \in 1..4 : All(p, name, s)[i] = p[i]
<1>1. Library(name, s) \in Seq(AnyHeader)
  BY LibraryIs
<1>2. p \in Seq(Seq(AnyHeader)) /\ Len(p) = 4
  BY DEF LayersOk
<1>3. /\ All(p, name, s) \in Seq(Seq(AnyHeader)) /\ Len(All(p, name, s)) = 5
      /\ All(p, name, s)[5] = Library(name, s)
      /\ \A i \in 1..4 : All(p, name, s)[i] = p[i]
  BY <1>1, <1>2, Layered DEF All
<1>4. DOMAIN All(p, name, s) = 1..5
  BY <1>3, LenProperties
<1> QED
  BY <1>3, <1>4

\* Where the headers of a request come from.
FromLayer(p, n, v) ==
    \E i \in 1..4 : \E j \in DOMAIN p[i] : KeyAt(p, i, j) = n /\ v = Layers[i]

FromLibrary(name, s, n, v) ==
    \/ n = Name("content-type") /\ v = "json"
    \/ s # NoSecret /\ n = Lower(Dashed(name)) /\ v = s

LEMMA LayerValue ==
    ASSUME NEW p, LayersOk(p), NEW i \in 1..4, NEW j \in DOMAIN p[i]
    PROVE  /\ p[i][j].name \in AppNames /\ p[i][j].name \in Names
           /\ p[i][j].value = Layers[i]
<1>1. p[i][j] \in [name : AppNames, value : {Layers[i]}]
  <2>1. p[i] \in Seq([name : AppNames, value : {Layers[i]}])
    BY DEF LayersOk
  <2>2. j \in 1..Len(p[i])
    BY <2>1, LenProperties
  <2> QED
    BY <2>1, <2>2, ElementOfSeq
<1>2. p[i][j].name \in AppNames /\ p[i][j].value = Layers[i]
  BY <1>1
<1>3. p[i][j].name \in Spellings
  BY <1>2, HeadersAssumption
<1> QED
  BY <1>2, <1>3, SpellingsAreNames

LEMMA BuiltIs ==
    ASSUME NEW p, LayersOk(p), NEW name \in SecretNames, NEW s \in Secrets \cup {NoSecret},
           NEW h \in BuildHeaders(name, s, p)
    PROVE  FromLayer(p, Lower(h.name), h.value) \/ FromLibrary(name, s, Lower(h.name), h.value)
<1> DEFINE all == All(p, name, s)
<1>1. /\ all \in Seq(Seq(AnyHeader)) /\ DOMAIN all = 1..5
      /\ all[5] = Library(name, s)
      /\ \A i \in 1..4 : all[i] = p[i]
  BY AllLayers
<1>2. h \in MergeHeaders(all)
  BY DEF BuildHeaders, All
<1> HIDE DEF all
<1>3. PICK i \in DOMAIN all : \E j \in DOMAIN all[i] :
         h = Header(Dashed(all[i][j].name), all[i][j].value)
  BY <1>2, MergedIs
<1>4. PICK j \in DOMAIN all[i] : h = Header(Dashed(all[i][j].name), all[i][j].value)
  BY <1>3
<1>5. Lower(h.name) = Lower(Dashed(all[i][j].name)) /\ h.value = all[i][j].value
  BY <1>4, HeaderIs
<1>6. CASE i \in 1..4
  <2>1. all[i] = p[i]
    BY <1>1, <1>6
  <2>2. p[i][j].value = Layers[i] /\ j \in DOMAIN p[i]
    BY <1>6, <2>1, LayerValue
  <2>3. KeyAt(p, i, j) = Lower(h.name) /\ h.value = Layers[i]
    BY <1>5, <2>1, <2>2 DEF KeyAt
  <2> QED
    BY <1>6, <2>2, <2>3 DEF FromLayer
<1>7. CASE i = 5
  <2> DEFINE l == Library(name, s)
  <2>1. j \in DOMAIN l /\ Lower(h.name) = Lower(Dashed(l[j].name)) /\ h.value = l[j].value
    BY <1>1, <1>5, <1>7
  <2>2. IsContentType(l[j]) \/ (s # NoSecret /\ l[j] = Header(name, s))
    BY <2>1, LibraryIs
  <2> HIDE DEF l
  <2>3. CASE IsContentType(l[j])
    BY <2>1, <2>3 DEF IsContentType, FromLibrary
  <2>4. CASE s # NoSecret /\ l[j] = Header(name, s)
    BY <2>1, <2>4, HeaderIs DEF FromLibrary
  <2> QED
    BY <2>2, <2>3, <2>4
<1> QED
  BY <1>1, <1>6, <1>7

LEMMA BuiltDict ==
    ASSUME NEW p, LayersOk(p), NEW name \in SecretNames, NEW s \in Secrets \cup {NoSecret}
    PROVE  Dict(BuildHeaders(name, s, p))
<1>1. All(p, name, s) \in Seq(Seq(AnyHeader))
  BY AllLayers
<1> QED
  BY <1>1, MergedDict DEF BuildHeaders, All

\* A header of the application is sent with its layer's value or a higher one's.
LEMMA BuiltCovers ==
    ASSUME NEW p, LayersOk(p), NEW name \in SecretNames, NEW s \in Secrets \cup {NoSecret},
           NEW i \in 1..4, NEW j \in DOMAIN p[i]
    PROVE  \E h \in BuildHeaders(name, s, p) :
              /\ Lower(h.name) = KeyAt(p, i, j)
              /\ \/ \E k \in 1..4 : /\ k >= i /\ h.value = Layers[k]
                                    /\ \E m \in DOMAIN p[k] : KeyAt(p, k, m) = KeyAt(p, i, j)
                 \/ FromLibrary(name, s, KeyAt(p, i, j), h.value)
<1> DEFINE all == All(p, name, s)
<1>1. /\ all \in Seq(Seq(AnyHeader)) /\ DOMAIN all = 1..5
      /\ all[5] = Library(name, s)
      /\ \A x \in 1..4 : all[x] = p[x]
  BY AllLayers
<1>2. BuildHeaders(name, s, p) = MergeHeaders(all)
  BY DEF BuildHeaders, All
<1> HIDE DEF all
<1>3. i \in DOMAIN all /\ all[i] = p[i] /\ j \in DOMAIN all[i] /\ KeyAt(all, i, j) = KeyAt(p, i, j)
  BY <1>1 DEF KeyAt
<1>4. PICK k \in DOMAIN all : \E m \in DOMAIN all[k] :
         Survives(all, k, m) /\ KeyAt(all, k, m) = KeyAt(all, i, j) /\ k >= i
  BY <1>1, <1>3, MergedCovers
<1>5. PICK m \in DOMAIN all[k] :
         Survives(all, k, m) /\ KeyAt(all, k, m) = KeyAt(all, i, j) /\ k >= i
  BY <1>4
<1> DEFINE h == Header(Dashed(all[k][m].name), all[k][m].value)
<1>6. h \in BuildHeaders(name, s, p) /\ Lower(h.name) = KeyAt(p, i, j) /\ h.value = all[k][m].value
  <2>1. h \in MergeHeaders(all)
    BY <1>5, MergedIs
  <2>2. h.name = Dashed(all[k][m].name) /\ h.value = all[k][m].value
    BY HeaderIs
  <2>3. Lower(h.name) = KeyAt(all, k, m)
    BY <2>2 DEF KeyAt
  <2> QED
    BY <1>2, <1>3, <1>5, <2>1, <2>2, <2>3
<1> HIDE DEF h
<1>7. CASE k \in 1..4
  <2>1. all[k] = p[k] /\ m \in DOMAIN p[k]
    BY <1>1, <1>7
  <2>2. h.value = Layers[k]
    BY <1>6, <1>7, <2>1, LayerValue
  <2>3. KeyAt(p, k, m) = KeyAt(p, i, j)
    BY <1>3, <1>5, <2>1 DEF KeyAt
  <2> QED
    BY <1>5, <1>6, <1>7, <2>1, <2>2, <2>3
<1>8. CASE k = 5
  <2> DEFINE l == Library(name, s)
  <2>1. all[k] = l /\ m \in DOMAIN l
    BY <1>1, <1>8
  <2>2. h.value = l[m].value /\ Lower(Dashed(l[m].name)) = KeyAt(p, i, j)
    BY <1>3, <1>5, <1>6, <2>1 DEF KeyAt
  <2>3. IsContentType(l[m]) \/ (s # NoSecret /\ l[m] = Header(name, s))
    BY <2>1, LibraryIs
  <2> HIDE DEF l
  <2>4. FromLibrary(name, s, KeyAt(p, i, j), h.value)
    <3>1. CASE IsContentType(l[m])
      BY <2>2, <3>1 DEF IsContentType, FromLibrary
    <3>2. CASE s # NoSecret /\ l[m] = Header(name, s)
      BY <2>2, <3>2, HeaderIs DEF FromLibrary
    <3> QED
      BY <2>3, <3>1, <3>2
  <2> QED
    BY <1>6, <2>4
<1> QED
  BY <1>1, <1>7, <1>8

\* The client's secret is sent, unless its header is named Content-Type.
LEMMA BuiltSecret ==
    ASSUME NEW p, LayersOk(p), NEW name \in SecretNames, NEW s \in Secrets,
           Lower(Dashed(name)) # Name("content-type")
    PROVE  \E h \in BuildHeaders(name, s, p) : Lower(h.name) = Lower(Dashed(name)) /\ h.value = s
<1>0. s \in Secrets \cup {NoSecret} /\ s # NoSecret
  BY HeadersAssumption
<1> DEFINE all == All(p, name, s)
           l == Library(name, s)
<1>1. all \in Seq(Seq(AnyHeader)) /\ DOMAIN all = 1..5 /\ all[5] = l
  BY <1>0, AllLayers
<1>2. 1 \in DOMAIN l /\ l[1] = Header(name, s)
  BY <1>0, LibraryIs
<1>3. \A m \in DOMAIN l : IsContentType(l[m]) \/ l[m] = Header(name, s)
  BY <1>0, LibraryIs
<1>4. BuildHeaders(name, s, p) = MergeHeaders(all)
  BY DEF BuildHeaders, All
<1> HIDE DEF all, l
<1>5. 5 \in DOMAIN all /\ 1 \in DOMAIN all[5] /\ KeyAt(all, 5, 1) = Lower(Dashed(name))
  BY <1>1, <1>2, HeaderIs DEF KeyAt
<1>6. PICK k \in DOMAIN all : \E m \in DOMAIN all[k] :
         Survives(all, k, m) /\ KeyAt(all, k, m) = KeyAt(all, 5, 1) /\ k >= 5
  BY <1>1, <1>5, MergedCovers
<1>7. PICK m \in DOMAIN all[k] :
         Survives(all, k, m) /\ KeyAt(all, k, m) = KeyAt(all, 5, 1) /\ k >= 5
  BY <1>6
<1>8. k = 5 /\ m \in DOMAIN l
  BY <1>1, <1>7
<1>9. l[m] = Header(name, s)
  BY <1>1, <1>3, <1>5, <1>7, <1>8 DEF KeyAt, IsContentType
<1> DEFINE h == Header(Dashed(name), s)
<1>10. h \in MergeHeaders(all)
  BY <1>1, <1>7, <1>8, <1>9, HeaderIs, MergedIs
<1>11. Lower(h.name) = Lower(Dashed(name)) /\ h.value = s
  BY HeaderIs
<1> QED
  BY <1>4, <1>10, <1>11

-----------------------------------------------------------------------------
(***************************************************************************)
(* The inductive invariant                                                 *)
(***************************************************************************)

PushedInv == IF request = "none" THEN pushed = <<>> ELSE LayersOk(pushed)

\* A request carries what was built from the layers of the push, none of them reserved.
SentInv ==
    IF request \in {"none", "ValueError"} THEN sent = {}
    ELSE /\ sent = BuildHeaders(secretName, used, pushed)
         /\ \A h \in MergeHeaders(pushed) : ~Reserved(h.name)

Answered(headers) ==
    /\ request = "run" <=> Authentic(headers)
    /\ request = "run" => context = Visible(headers, secretName)

\* The worker answered by what one of the gateways made of the request, and would again:
\* the authenticator, once it is built, stays.
AnswerInv ==
    /\ request # "run" => context = <<>>
    /\ request \in {"403", "run"} =>
          /\ authenticator # Unbuilt
          /\ \E gateway \in {"asgi", "wsgi"} : \E headers :
                Normalized(Forwarded(sent), gateway, headers) /\ Answered(headers)

HeadersInv == TypeOK /\ PushedInv /\ SentInv /\ AnswerInv

LEMMA WiderSeq ==
    ASSUME NEW A, NEW B, A \subseteq B, NEW q \in Seq(A)
    PROVE  q \in Seq(B)
<1>1. \A i \in 1..Len(q) : q[i] \in B
  BY ElementOfSeq
<1>2. Len(q) \in Nat /\ q = [i \in 1..Len(q) |-> q[i]]
  OBVIOUS
<1> QED
  BY <1>1, <1>2

LEMMA LayerDictIs ==
    ASSUME NEW l, NEW d \in LayerDicts(l)
    PROVE  d \in Seq([name : AppNames, value : {l}])
<1>1. CASE d = <<>>
  BY <1>1
<1>2. CASE \E n \in AppNames : d = <<Header(n, l)>>
  <2>1. PICK n \in AppNames : d = <<Header(n, l)>>
    BY <1>2
  <2>2. Header(n, l) \in [name : AppNames, value : {l}]
    BY DEF Header
  <2> QED
    BY <2>1, <2>2
<1> QED
  BY <1>1, <1>2 DEF LayerDicts

LEMMA PushLayersOk ==
    ASSUME TypeOK, NEW ctx \in LayerDicts("context"), NEW extra \in LayerDicts("push")
    PROVE  LayersOk(PushLayers(ctx, decorator, instance, extra))
<1> DEFINE p == PushLayers(ctx, decorator, instance, extra)
           Layer(i) == [name : AppNames, value : {Layers[i]}]
<1>1. /\ ctx \in Seq([name : AppNames, value : {"context"}])
      /\ decorator \in Seq([name : AppNames, value : {"decorator"}])
      /\ instance \in Seq([name : AppNames, value : {"task"}])
      /\ extra \in Seq([name : AppNames, value : {"push"}])
  BY LayerDictIs DEF TypeOK
<1>2. /\ Layers[1] = "context" /\ Layers[2] = "decorator"
      /\ Layers[3] = "task" /\ Layers[4] = "push"
  BY DEF Layers
<1>3. /\ ctx \in Seq(Layer(1)) /\ decorator \in Seq(Layer(2))
      /\ instance \in Seq(Layer(3)) /\ extra \in Seq(Layer(4))
  BY <1>1, <1>2
<1>4. ASSUME NEW i \in 1..4 PROVE Layer(i) \subseteq AnyHeader
  <2>1. Layers[i] \in Values
    BY DEF Values
  <2>2. AppNames \subseteq Spellings
    BY HeadersAssumption
  <2> QED
    BY <2>1, <2>2 DEF AnyHeader
<1> HIDE DEF Layer
<1>5. /\ ctx \in Seq(AnyHeader) /\ decorator \in Seq(AnyHeader)
      /\ instance \in Seq(AnyHeader) /\ extra \in Seq(AnyHeader)
  <2>1. 1 \in 1..4 /\ 2 \in 1..4 /\ 3 \in 1..4 /\ 4 \in 1..4
    OBVIOUS
  <2> QED
    BY <1>3, <1>4, <2>1, WiderSeq
<1>6. p = <<ctx, decorator, instance, extra>>
  BY DEF PushLayers
<1> HIDE DEF p
<1>7. Len(p) = 4 /\ p[1] = ctx /\ p[2] = decorator /\ p[3] = instance /\ p[4] = extra
  BY <1>6
<1>8. p \in Seq(Seq(AnyHeader))
  BY <1>5, <1>6
<1>9. ASSUME NEW i \in 1..4 PROVE p[i] \in Seq(Layer(i))
  <2>1. i = 1 \/ i = 2 \/ i = 3 \/ i = 4
    OBVIOUS
  <2> QED
    BY <1>3, <1>7, <2>1
<1> QED
  BY <1>7, <1>8, <1>9 DEF LayersOk, Layer, p

LEMMA UpdatedIs ==
    ASSUME NEW S, NEW d \in Seq(S), NEW h \in S
    PROVE  Updated(d, h) \in Seq(S)
<1>1. CASE \E i \in DOMAIN d : d[i].name = h.name
  <2>1. Updated(d, h) = [i \in 1..Len(d) |-> IF d[i].name = h.name THEN h ELSE d[i]]
    BY <1>1, SMTT(30) DEF Updated
  <2>2. \A i \in 1..Len(d) : (IF d[i].name = h.name THEN h ELSE d[i]) \in S
    BY ElementOfSeq
  <2>3. Len(d) \in Nat
    OBVIOUS
  <2> DEFINE e == [i \in 1..Len(d) |-> IF d[i].name = h.name THEN h ELSE d[i]]
  <2>4. e \in [1..Len(d) -> S]
    BY <2>2
  <2> QED
    BY <2>1, <2>3, <2>4
<1>2. CASE ~\E i \in DOMAIN d : d[i].name = h.name
  BY <1>2, AppendProperties DEF Updated
<1> QED
  BY <1>1, <1>2

LEMMA SentDict ==
    ASSUME TypeOK, PushedInv, SentInv
    PROVE  Dict(sent)
<1>1. CASE request \in {"none", "ValueError"}
  BY <1>1 DEF SentInv, Dict
<1>2. CASE request \notin {"none", "ValueError"}
  <2>1. LayersOk(pushed)
    BY <1>2 DEF PushedInv
  <2>2. secretName \in SecretNames /\ used \in Secrets \cup {NoSecret}
    BY DEF TypeOK
  <2>3. sent = BuildHeaders(secretName, used, pushed)
    BY <1>2 DEF SentInv
  <2> QED
    BY <2>1, <2>2, <2>3, BuiltDict
<1> QED
  BY <1>1, <1>2

LEMMA NormalKeyTyped ==
    ASSUME NEW n \in Spellings, n.sep = "-", NEW gateway \in {"asgi", "wsgi"}
    PROVE  /\ NormalKey(Spelled(n, gateway)) \in Spellings
           /\ NormalKey(Spelled(n, gateway)).case = "lower"
<1>1. n \in Names /\ n.http \in 0..2
  BY SpellingsAreNames
<1>2. Lower(n) \in Names /\ Lower(n).case = "lower" /\ Lower(n).http = n.http
  BY <1>1, LowerFields
<1>3. Stripped(Lower(n)) \in Names /\ Stripped(Lower(n)).case = "lower"
      /\ Stripped(Lower(n)).http = IF Lower(n).http > 0 THEN Lower(n).http - 1 ELSE 0
  BY <1>2, StrippedFields
<1>4. Lower(n).http \in 0..2 /\ Stripped(Lower(n)).http \in 0..2
  <2> DEFINE k == n.http
             l == Lower(n).http
             m == Stripped(Lower(n)).http
  <2>1. k \in 0..2 /\ l = k /\ m = IF l > 0 THEN l - 1 ELSE 0
    BY <1>1, <1>2, <1>3
  <2> HIDE DEF k, l, m
  <2>2. l \in 0..2 /\ m \in 0..2
    BY <2>1
  <2> QED
    BY <2>2 DEF l, m
<1>5. Lower(n) \in Spellings /\ Stripped(Lower(n)) \in Spellings
  BY <1>2, <1>3, <1>4, SpellingsAreNames
<1> QED
  BY <1>1, <1>2, <1>3, <1>5, SpelledBack

LEMMA SeenTyped ==
    ASSUME NEW hs, Dict(hs), NEW gateway \in {"asgi", "wsgi"},
           NEW headers, Normalized(hs, gateway, headers), NEW n \in DOMAIN headers
    PROVE  n \in Spellings /\ n.case = "lower" /\ headers[n] \in Values
<1>1. SentAs(hs, gateway, n, headers[n])
  BY NormalizedIs
<1>2. PICK h \in hs : NormalKey(Spelled(h.name, gateway)) = n /\ headers[n] = h.value
  BY <1>1 DEF SentAs
<1>3. h.name \in Spellings /\ h.name.sep = "-" /\ h.value \in Values
  BY DEF Dict
<1> QED
  BY <1>2, <1>3, NormalKeyTyped

LEMMA VisibleIs ==
    ASSUME NEW headers, NEW name
    PROVE  /\ DOMAIN Visible(headers, name) =
                 DOMAIN headers \ {Name("authorization"), Lower(name)}
           /\ \A n \in DOMAIN Visible(headers, name) : Visible(headers, name)[n] = headers[n]
  BY DEF Visible, Hidden

LEMMA InitInv == Init => HeadersInv
<1> SUFFICES ASSUME Init PROVE HeadersInv
  OBVIOUS
<1>1. TypeOK
  BY DEF Init, TypeOK
<1>2. PushedInv /\ SentInv /\ AnswerInv
  BY DEF Init, PushedInv, SentInv, AnswerInv
<1> QED
  BY <1>1, <1>2 DEF HeadersInv

LEMMA PushStep == HeadersInv /\ Push => HeadersInv'
<1> SUFFICES ASSUME HeadersInv, Push PROVE HeadersInv'
  OBVIOUS
<1> USE DEF HeadersInv
<1>1. PICK ctx \in LayerDicts("context"), extra \in LayerDicts("push") :
         LET layers == PushLayers(ctx, decorator, instance, extra) IN
         /\ pushed' = layers
         /\ IF \E h \in MergeHeaders(layers) : Reserved(h.name)
              THEN request' = "ValueError" /\ UNCHANGED sent
              ELSE request' = "sent" /\ sent' = BuildHeaders(secretName, secret, layers)
  BY DEF Push
<1>2. /\ request = "none" /\ used' = secret /\ context' = context /\ secretName' = secretName
      /\ decorator' = decorator /\ secret' = secret /\ authenticator' = authenticator
      /\ instance' = instance
  BY DEF Push, config
<1>3. LayersOk(pushed') /\ request' \in {"ValueError", "sent"}
  BY <1>1, PushLayersOk
<1>4. SentInv'
  <2>1. CASE request' = "ValueError"
    <3>1. sent' = {}
      BY <1>1, <1>2, <2>1 DEF SentInv
    <3> QED
      BY <2>1, <3>1 DEF SentInv
  <2>2. CASE request' = "sent"
    <3>1. sent' = BuildHeaders(secretName', used', pushed')
      BY <1>1, <1>2, <2>2
    <3>2. \A h \in MergeHeaders(pushed') : ~Reserved(h.name)
      BY <1>1, <2>2
    <3> QED
      BY <2>2, <3>1, <3>2 DEF SentInv
  <2> QED
    BY <1>3, <2>1, <2>2
<1>5. PushedInv' /\ AnswerInv'
  BY <1>2, <1>3 DEF PushedInv, AnswerInv
<1>6. TypeOK'
  <2>1. /\ secretName' \in SecretNames /\ secret' \in Secrets \cup {NoSecret}
        /\ authenticator' \in Secrets \cup {NoSecret, Unbuilt}
        /\ decorator' \in LayerDicts("decorator")
        /\ instance' \in Seq([name : AppNames, value : {"task"}])
        /\ used' \in Secrets \cup {NoSecret}
    BY <1>2 DEF TypeOK
  <2>2. \A h \in sent' : h.name \in Spellings /\ h.value \in Values
    <3>1. Dict(sent')
      <4>1. CASE request' = "ValueError"
        BY <1>4, <4>1 DEF SentInv, Dict
      <4>2. CASE request' = "sent"
        BY <1>3, <1>4, <2>1, <4>2, BuiltDict DEF SentInv
      <4> QED
        BY <1>3, <4>1, <4>2
    <3> QED
      BY <3>1 DEF Dict
  <2>3. \A n \in DOMAIN context' : FALSE
    BY <1>2 DEF AnswerInv
  <2>4. \A x \in DOMAIN pushed' : pushed'[x] \in Seq([name : AppNames, value : {Layers[x]}])
    BY <1>3, LenProperties DEF LayersOk
  <2> QED
    BY <1>3, <2>1, <2>2, <2>3, <2>4 DEF TypeOK
<1> QED
  BY <1>4, <1>5, <1>6

LEMMA DeliverStep == HeadersInv /\ Deliver => HeadersInv'
<1> SUFFICES ASSUME HeadersInv, Deliver PROVE HeadersInv'
  OBVIOUS
<1> USE DEF HeadersInv
<1>1. PICK gateway \in {"asgi", "wsgi"}, strayLast \in BOOLEAN :
         LET received == {Header(Spelled(h.name, gateway), h.value) : h \in Forwarded(sent)}
             headers == NormalizeHeaders(received, strayLast)
         IN  IF Authentic(headers)
               THEN request' = "run" /\ context' = Visible(headers, secretName)
               ELSE request' = "403" /\ UNCHANGED context
  BY DEF Deliver
<1> DEFINE made == NormalizeHeaders(Received(Forwarded(sent), gateway), strayLast)
<1>2. IF Authentic(made)
        THEN request' = "run" /\ context' = Visible(made, secretName)
        ELSE request' = "403" /\ context' = context
  BY <1>1 DEF Received
<1>3. Normalized(Forwarded(sent), gateway, made)
  BY DEF Normalized
<1> HIDE DEF made
<1>4. PICK headers :
         /\ Normalized(Forwarded(sent), gateway, headers)
         /\ IF Authentic(headers)
              THEN request' = "run" /\ context' = Visible(headers, secretName)
              ELSE request' = "403" /\ context' = context
  BY <1>2, <1>3
<1>5. /\ request = "sent" /\ authenticator # Unbuilt
      /\ secretName' = secretName /\ decorator' = decorator /\ secret' = secret
      /\ authenticator' = authenticator /\ instance' = instance
      /\ sent' = sent /\ pushed' = pushed /\ used' = used
  BY DEF Deliver, config
<1>6. request' \in {"403", "run"}
  BY <1>4
<1>7. PushedInv' /\ SentInv'
  BY <1>5, <1>6 DEF PushedInv, SentInv
<1>8. AnswerInv'
  <2>1. Authentic(headers)' <=> Authentic(headers)
    BY <1>5 DEF Authentic
  <2>2. Answered(headers)'
    BY <1>4, <1>5, <2>1 DEF Answered
  <2>3. (Normalized(Forwarded(sent), gateway, headers) /\ Answered(headers))'
    BY <1>4, <1>5, <2>2
  <2>4. request' # "run" => context' = <<>>
    BY <1>4, <1>5 DEF AnswerInv
  <2> QED
    BY <1>5, <2>3, <2>4 DEF AnswerInv
<1>9. TypeOK'
  <2>1. \A n \in DOMAIN context' :
           n \in Spellings /\ n.case = "lower" /\ context'[n] \in Values
    <3>1. CASE request' = "run"
      <4>1. Dict(Forwarded(sent))
        BY SentDict, ForwardedIs
      <4>2. \A n \in DOMAIN headers : n \in Spellings /\ n.case = "lower" /\ headers[n] \in Values
        BY <1>4, <4>1, SeenTyped
      <4>3. context' = Visible(headers, secretName)
        BY <1>4, <3>1
      <4>4. /\ DOMAIN context' = DOMAIN headers \ {Name("authorization"), Lower(secretName)}
            /\ \A n \in DOMAIN context' : context'[n] = headers[n]
        BY <4>3, VisibleIs
      <4> QED
        BY <4>2, <4>4
    <3>2. CASE request' = "403"
      BY <1>4, <1>5, <3>2 DEF AnswerInv
    <3> QED
      BY <1>6, <3>1, <3>2
  <2>2. /\ secretName' \in SecretNames /\ secret' \in Secrets \cup {NoSecret}
        /\ authenticator' \in Secrets \cup {NoSecret, Unbuilt}
        /\ decorator' \in LayerDicts("decorator")
        /\ instance' \in Seq([name : AppNames, value : {"task"}])
        /\ used' \in Secrets \cup {NoSecret}
    BY <1>5 DEF TypeOK
  <2>3. /\ \A h \in sent' : h.name \in Spellings /\ h.value \in Values
        /\ \A i \in DOMAIN pushed' : pushed'[i] \in Seq([name : AppNames, value : {Layers[i]}])
    BY <1>5 DEF TypeOK
  <2> QED
    BY <1>6, <2>1, <2>2, <2>3 DEF TypeOK
<1> QED
  BY <1>7, <1>8, <1>9

LEMMA Invariant == Spec => []HeadersInv
<1>1. Init => HeadersInv
  BY InitInv
<1>2. HeadersInv /\ [Next]_vars => HeadersInv'
  <2> SUFFICES ASSUME HeadersInv, [Next]_vars PROVE HeadersInv'
    OBVIOUS
  <2> USE DEF HeadersInv
  <2>1. CASE Push
    BY <2>1, PushStep
  <2>2. CASE Deliver
    BY <2>2, DeliverStep
  <2>3. CASE BuildAuthenticator
    <3>1. /\ secretName' = secretName /\ decorator' = decorator /\ secret' = secret
          /\ instance' = instance /\ request' = request /\ sent' = sent /\ context' = context
          /\ pushed' = pushed /\ used' = used
      BY <2>3 DEF BuildAuthenticator, config, pushVars
    <3>2. request \notin {"403", "run"} /\ authenticator' \in Secrets \cup {NoSecret, Unbuilt}
      BY <2>3 DEF BuildAuthenticator, AnswerInv, TypeOK
    <3>3. TypeOK'
      BY <3>1, <3>2 DEF TypeOK
    <3>4. PushedInv' /\ SentInv'
      BY <3>1 DEF PushedInv, SentInv
    <3>5. AnswerInv'
      BY <3>1, <3>2 DEF AnswerInv
    <3> QED
      BY <3>3, <3>4, <3>5
  <2>4. CASE \E n \in AppNames : SetHeaders(n)
    <3>1. PICK n \in AppNames : SetHeaders(n)
      BY <2>4
    <3>2. /\ secretName' = secretName /\ decorator' = decorator /\ secret' = secret
          /\ authenticator' = authenticator /\ request' = request /\ sent' = sent
          /\ context' = context /\ pushed' = pushed /\ used' = used
      BY <3>1 DEF SetHeaders, config, pushVars
    <3>3. instance' \in Seq([name : AppNames, value : {"task"}])
      <4>1. Header(n, "task") \in [name : AppNames, value : {"task"}]
        BY DEF Header
      <4> QED
        BY <3>1, <4>1, UpdatedIs DEF SetHeaders, TypeOK
    <3>4. TypeOK'
      BY <3>2, <3>3 DEF TypeOK
    <3>5. PushedInv' /\ SentInv'
      BY <3>2 DEF PushedInv, SentInv
    <3>6. AnswerInv'
      BY <3>1, <3>2 DEF AnswerInv, SetHeaders
    <3> QED
      BY <3>4, <3>5, <3>6
  <2>5. CASE \E s \in Secrets \cup {NoSecret} : AssignSecret(s)
    <3>1. /\ secretName' = secretName /\ decorator' = decorator /\ instance' = instance
          /\ authenticator' = authenticator /\ request' = request /\ sent' = sent
          /\ context' = context /\ pushed' = pushed /\ used' = used
      BY <2>5 DEF AssignSecret, config, pushVars
    <3>2. secret' \in Secrets \cup {NoSecret}
      BY <2>5 DEF AssignSecret
    <3>3. TypeOK'
      BY <3>1, <3>2 DEF TypeOK
    <3>4. PushedInv' /\ SentInv'
      BY <3>1 DEF PushedInv, SentInv
    <3>5. AnswerInv'
      BY <3>1 DEF AnswerInv, Answered, Authentic
    <3> QED
      BY <3>3, <3>4, <3>5
  <2>6. CASE UNCHANGED vars
    <3>1. /\ secretName' = secretName /\ decorator' = decorator /\ secret' = secret
          /\ instance' = instance /\ request' = request /\ sent' = sent /\ context' = context
          /\ authenticator' = authenticator /\ pushed' = pushed /\ used' = used
      BY <2>6 DEF vars, config, pushVars
    <3>2. TypeOK'
      BY <3>1 DEF TypeOK
    <3>3. PushedInv' /\ SentInv'
      BY <3>1 DEF PushedInv, SentInv
    <3>4. AnswerInv'
      BY <3>1 DEF AnswerInv, Answered, Authentic
    <3> QED
      BY <3>2, <3>3, <3>4
  <2> QED
    BY <2>1, <2>2, <2>3, <2>4, <2>5, <2>6 DEF Next
<1> QED
  BY <1>1, <1>2, PTL DEF Spec

(***************************************************************************)
(* The headers stay of their types through every step: what is sent is in  *)
(* dashed names, and what a task sees in lower-case ones (_merge_headers,  *)
(* normalize_headers, from_headers).                                       *)
(***************************************************************************)
THEOREM TypeCorrect == Spec => []TypeOK
<1>1. HeadersInv => TypeOK
  BY DEF HeadersInv
<1> QED
  BY <1>1, Invariant, PTL

-----------------------------------------------------------------------------
(***************************************************************************)
(* What a worker and an immediate run make of a request                    *)
(***************************************************************************)

LEMMA CleanDelivery ==
    ASSUME HeadersInv, request \in {"403", "run"}, ~Stray
    PROVE  \E headers : LowerNamed(Forwarded(sent), headers) /\ Answered(headers)
<1>1. PICK gateway \in {"asgi", "wsgi"} : \E headers :
         Normalized(Forwarded(sent), gateway, headers) /\ Answered(headers)
  BY DEF HeadersInv, AnswerInv
<1>2. PICK headers : Normalized(Forwarded(sent), gateway, headers) /\ Answered(headers)
  BY <1>1
<1>3. Dict(sent)
  BY SentDict DEF HeadersInv
<1>4. \A h \in sent : h.name.http = 0
  <2> SUFFICES ASSUME NEW h \in sent PROVE h.name.http = 0
    OBVIOUS
  <2>1. h.name \in Spellings /\ ~(h.name.http > 0)
    BY <1>3 DEF Dict, Stray
  <2>2. h.name.http \in 0..2
    BY <2>1, SpellingsAreNames
  <2> QED
    BY <2>1, <2>2
<1>5. Dict(Forwarded(sent)) /\ \A h \in Forwarded(sent) : h.name.http = 0
  BY <1>3, <1>4, ForwardedIs
<1>6. LowerNamed(Forwarded(sent), headers)
  BY <1>2, <1>5, NormalizedClean
<1> QED
  BY <1>2, <1>6

LEMMA LoweredIs ==
    ASSUME NEW hs, Dict(hs)
    PROVE  LowerNamed(hs, Lowered(hs))
<1>1. DOMAIN Lowered(hs) = {Lower(h.name) : h \in hs}
  BY DEF Lowered
<1>2. ASSUME NEW h \in hs PROVE Lowered(hs)[Lower(h.name)] = h.value
  <2> DEFINE g == CHOOSE x \in hs : Lower(x.name) = Lower(h.name)
  <2>1. Lowered(hs)[Lower(h.name)] = g.value
    BY DEF Lowered
  <2>2. g \in hs /\ Lower(g.name) = Lower(h.name)
    OBVIOUS
  <2> HIDE DEF g
  <2>3. g = h
    BY <2>2 DEF Dict
  <2> QED
    BY <2>1, <2>3
<1> QED
  BY <1>1, <1>2 DEF LowerNamed

\* What an immediate run shows.
LEMMA EagerIs ==
    ASSUME NEW hs, Dict(hs), NEW name
    PROVE  /\ DOMAIN EagerContext(hs, name) =
                 {Lower(h.name) : h \in hs} \ {Name("authorization"), Lower(name)}
           /\ \A h \in hs : Lower(h.name) \in DOMAIN EagerContext(hs, name)
                               => EagerContext(hs, name)[Lower(h.name)] = h.value
<1> DEFINE l == Lowered(hs)
           e == Visible(l, name)
<1>1. EagerContext(hs, name) = e
  BY DEF EagerContext
<1>2. DOMAIN l = {Lower(h.name) : h \in hs} /\ \A h \in hs : l[Lower(h.name)] = h.value
  BY LoweredIs DEF LowerNamed
<1> HIDE DEF l
<1>3. /\ DOMAIN e = DOMAIN l \ {Name("authorization"), Lower(name)}
      /\ \A n \in DOMAIN e : e[n] = l[n]
  BY VisibleIs
<1> HIDE DEF e
<1> QED
  BY <1>1, <1>2, <1>3

\* A plain secret_header_name is sent as it is configured.
LEMMA PlainIs ==
    ASSUME NEW name \in SecretNames, Plain(name)
    PROVE  Dashed(name) = name /\ Lower(name).http = 0
<1>1. name \in Names
  BY HeadersAssumption, SpellingsAreNames
<1>2. name.sep = "-" /\ name.http = 0
  BY DEF Plain
<1> QED
  BY <1>1, <1>2, DashedFields, LowerFields, SameName

(***************************************************************************)
(* secret_header_name is the name of no other header of the library or of  *)
(* Cloud Tasks, which would take its place in a request.                   *)
(***************************************************************************)
DistinctSecretNames ==
    \A n \in SecretNames :
        n.word \notin {"content-type", "x-cloudtasks-taskretrycount", "authorization"}

LEMMA SecretNameIs ==
    ASSUME DistinctSecretNames, NEW name \in SecretNames
    PROVE  \A n \in {Lower(name), Lower(Dashed(name))} :
              n \notin {Name("content-type"), Name("x-cloudtasks-taskretrycount"),
                        Name("authorization")}
<1>1. name \in Names
  BY HeadersAssumption, SpellingsAreNames
<1>2. name.word \notin {"content-type", "x-cloudtasks-taskretrycount", "authorization"}
  BY DEF DistinctSecretNames
<1>3. Dashed(name) \in Names /\ Dashed(name).word = name.word
  BY <1>1, DashedFields
<1>4. Lower(name).word = name.word /\ Lower(Dashed(name)).word = name.word
  BY <1>1, <1>3, LowerFields
<1>5. /\ "content-type" \in Words /\ "x-cloudtasks-taskretrycount" \in Words
      /\ "authorization" \in Words
  BY DEF Words
<1>6. /\ Name("content-type").word = "content-type"
      /\ Name("x-cloudtasks-taskretrycount").word = "x-cloudtasks-taskretrycount"
      /\ Name("authorization").word = "authorization"
  BY <1>5, NameIs
<1> QED
  BY <1>2, <1>4, <1>6

\* The values of no layer, and not the library's "json", are secrets.
LEMMA NoSecretElsewhere ==
    /\ \A i \in 1..4 : Layers[i] \notin Secrets
    /\ "json" \notin Secrets /\ "queue" \notin Secrets
  BY HeadersAssumption

\* Whatever is sent with a secret for its value is the secret's own header.
LEMMA SecretIsOwn ==
    ASSUME HeadersInv, NEW h \in sent, h.value \in Secrets
    PROVE  /\ used # NoSecret /\ h.value = used
           /\ Lower(h.name) = Lower(Dashed(secretName))
<1>1. LayersOk(pushed) /\ sent = BuildHeaders(secretName, used, pushed)
  BY DEF HeadersInv, PushedInv, SentInv
<1>2. secretName \in SecretNames /\ used \in Secrets \cup {NoSecret}
  BY DEF HeadersInv, TypeOK
<1>3. \/ FromLayer(pushed, Lower(h.name), h.value)
      \/ FromLibrary(secretName, used, Lower(h.name), h.value)
  BY <1>1, <1>2, BuiltIs
<1>4. ~FromLayer(pushed, Lower(h.name), h.value)
  BY NoSecretElsewhere DEF FromLayer
<1> QED
  BY <1>3, <1>4, NoSecretElsewhere DEF FromLibrary

-----------------------------------------------------------------------------
(***************************************************************************)
(* The theorems                                                            *)
(***************************************************************************)

LEMMA Requested ==
    ASSUME HeadersInv, request \notin {"none", "ValueError"}
    PROVE  /\ LayersOk(pushed)
           /\ secretName \in SecretNames /\ used \in Secrets \cup {NoSecret}
           /\ sent = BuildHeaders(secretName, used, pushed)
           /\ \A h \in MergeHeaders(pushed) : ~Reserved(h.name)
           /\ Dict(sent)
  BY SentDict DEF HeadersInv, PushedInv, SentInv, TypeOK

\* A name of the application in a request is not a reserved one.
LEMMA NotReserved ==
    ASSUME HeadersInv, request \notin {"none", "ValueError"},
           NEW i \in 1..4, NEW j \in DOMAIN pushed[i]
    PROVE  /\ KeyAt(pushed, i, j) # Name("x-cloudtasks-taskretrycount")
           /\ Oidc => KeyAt(pushed, i, j) # Name("authorization")
<1>1. LayersOk(pushed) /\ \A h \in MergeHeaders(pushed) : ~Reserved(h.name)
  BY Requested
<1>2. pushed \in Seq(Seq(AnyHeader)) /\ i \in DOMAIN pushed
  BY <1>1, LenProperties DEF LayersOk
<1>3. PICK k \in DOMAIN pushed : \E m \in DOMAIN pushed[k] :
         Survives(pushed, k, m) /\ KeyAt(pushed, k, m) = KeyAt(pushed, i, j) /\ k >= i
  BY <1>2, MergedCovers
<1>4. PICK m \in DOMAIN pushed[k] :
         Survives(pushed, k, m) /\ KeyAt(pushed, k, m) = KeyAt(pushed, i, j) /\ k >= i
  BY <1>3
<1> DEFINE h == Header(Dashed(pushed[k][m].name), pushed[k][m].value)
<1>5. h \in MergeHeaders(pushed)
  BY <1>4, MergedIs
<1>6. Lower(h.name) = KeyAt(pushed, i, j)
  BY <1>4, HeaderIs DEF KeyAt
<1> HIDE DEF h
<1>7. ~Reserved(h.name)
  BY <1>1, <1>5
<1> QED
  BY <1>6, <1>7 DEF Reserved

(***************************************************************************)
(* However often the secret was assigned, before and after the worker's    *)
(* authenticator was built, and whatever headers the application adds: the *)
(* worker runs a request exactly if it asks for no secret, or has the one  *)
(* that was in use at the push and looks for it under a plain name         *)
(* (_build_headers, authenticate, normalize_headers).                      *)
(***************************************************************************)
THEOREM SecretIsDecisive == DistinctSecretNames => (Spec => []SecretDecides)
<1> SUFFICES ASSUME DistinctSecretNames PROVE Spec => []SecretDecides
  OBVIOUS
<1>1. ASSUME HeadersInv, request \in {"403", "run"}, ~Stray
      PROVE  request = "run" <=> \/ authenticator = NoSecret
                                 \/ Plain(secretName) /\ authenticator = used
  <2>1. PICK headers : LowerNamed(Forwarded(sent), headers) /\ Answered(headers)
    BY <1>1, CleanDelivery
  <2>2. /\ LayersOk(pushed) /\ sent = BuildHeaders(secretName, used, pushed) /\ Dict(sent)
        /\ secretName \in SecretNames /\ used \in Secrets \cup {NoSecret}
        /\ authenticator \in Secrets \cup {NoSecret}
    BY <1>1, Requested DEF HeadersInv, TypeOK, AnswerInv
  <2>3. request = "run" <=> Authentic(headers)
    BY <2>1 DEF Answered
  <2>4. ASSUME Lower(secretName) \in DOMAIN headers,
               headers[Lower(secretName)] = authenticator, authenticator # NoSecret
        PROVE  authenticator = used /\ Plain(secretName)
    <3>1. PICK h \in Forwarded(sent) :
             Lower(h.name) = Lower(secretName) /\ h.value = authenticator
      BY <2>1, <2>4 DEF LowerNamed
    <3>2. h.value \in Secrets
      BY <2>2, <2>4, <3>1
    <3>3. h \in sent
      BY <3>1, <3>2, ForwardedAre, NoSecretElsewhere DEF Added
    <3>4. h.name \in Names /\ h.name.sep = "-" /\ ~(h.name.http > 0) /\ h.name.http \in 0..2
      BY <1>1, <2>2, <3>3, SpellingsAreNames DEF Dict, Stray
    <3>5. secretName \in Names
      BY <2>2, HeadersAssumption, SpellingsAreNames
    <3>6. Lower(h.name).sep = h.name.sep /\ Lower(h.name).http = h.name.http
      BY <3>4, LowerFields
    <3>7. Lower(secretName).sep = secretName.sep /\ Lower(secretName).http = secretName.http
      BY <3>5, LowerFields
    <3>8. secretName.sep = "-" /\ secretName.http = h.name.http
      BY <3>1, <3>4, <3>6, <3>7
    <3>9. h.name.http = 0
      <4> DEFINE k == h.name.http
      <4>1. k \in 0..2 /\ ~(k > 0)
        BY <3>4
      <4> HIDE DEF k
      <4>2. k = 0
        BY <4>1
      <4> QED
        BY <4>2 DEF k
    <3> QED
      BY <1>1, <3>1, <3>2, <3>3, <3>8, <3>9, SecretIsOwn DEF Plain
  <2>5. ASSUME Plain(secretName), used \in Secrets
        PROVE  Lower(secretName) \in DOMAIN headers /\ headers[Lower(secretName)] = used
    <3>1. /\ Dashed(secretName) = secretName
          /\ Lower(secretName) # Name("content-type")
          /\ ~Own(Lower(secretName))
      BY <2>2, <2>5, PlainIs, SecretNameIs DEF Own
    <3>2. PICK h \in sent : Lower(h.name) = Lower(secretName) /\ h.value = used
      BY <2>2, <3>1, <2>5, BuiltSecret
    <3>3. h \in Forwarded(sent)
      BY <3>1, <3>2, ForwardedAre
    <3> QED
      BY <2>1, <3>2, <3>3 DEF LowerNamed
  <2> QED
    BY <2>2, <2>3, <2>4, <2>5 DEF Authentic
<1>2. HeadersInv => SecretDecides
  BY <1>1 DEF SecretDecides
<1> QED
  BY <1>2, Invariant, PTL

(***************************************************************************)
(* No run shows a task its Authorization header, nor the secret when its   *)
(* header has a plain name, whatever the application names its headers:    *)
(* those that begin with "http-" are not excluded (from_headers,           *)
(* _eager_context).                                                        *)
(***************************************************************************)
THEOREM CredentialsHidden == Spec => []CredentialsNeverShown
<1>1. HeadersInv => CredentialsNeverShown
  <2> SUFFICES ASSUME HeadersInv PROVE CredentialsNeverShown
    OBVIOUS
  <2>0. Dict(sent) /\ secretName \in SecretNames
    BY SentDict DEF HeadersInv, TypeOK
  <2>1. ASSUME Plain(secretName) PROVE Dashed(secretName) = secretName /\ Lower(secretName).http = 0
    BY <2>0, <2>1, PlainIs
  <2>2. ASSUME Plain(secretName), NEW h \in sent, h.value \in Secrets
        PROVE  Lower(h.name) = Lower(secretName)
    BY <2>1, <2>2, SecretIsOwn
  <2>3. /\ Name("authorization") \notin DOMAIN context
        /\ Plain(secretName) => \A n \in DOMAIN context : context[n] \notin Secrets
    <3>1. CASE request # "run"
      BY <3>1 DEF HeadersInv, AnswerInv
    <3>2. CASE request = "run"
      <4>1. PICK gateway \in {"asgi", "wsgi"} : \E headers :
               Normalized(Forwarded(sent), gateway, headers) /\ Answered(headers)
        BY <3>2 DEF HeadersInv, AnswerInv
      <4>2. PICK headers : Normalized(Forwarded(sent), gateway, headers) /\ Answered(headers)
        BY <4>1
      <4>3. context = Visible(headers, secretName)
        BY <3>2, <4>2 DEF Answered
      <4>4. ASSUME Plain(secretName), NEW n \in DOMAIN context, context[n] \in Secrets
            PROVE  FALSE
        <5>1. n \in DOMAIN headers /\ n # Lower(secretName) /\ headers[n] \in Secrets
          <6>1. /\ DOMAIN context = DOMAIN headers \ {Name("authorization"), Lower(secretName)}
                /\ \A m \in DOMAIN context : context[m] = headers[m]
            BY <4>3, VisibleIs
          <6> QED
            BY <4>4, <6>1
        <5>2. SentAs(Forwarded(sent), gateway, n, headers[n])
          BY <2>0, <4>2, <5>1, ForwardedIs, NormalizedIs
        <5>3. PICK h \in Forwarded(sent) :
                 NormalKey(Spelled(h.name, gateway)) = n /\ headers[n] = h.value
          BY <5>2 DEF SentAs
        <5>4. h \in sent /\ h.value \in Secrets
          BY <5>1, <5>3, ForwardedAre, NoSecretElsewhere DEF Added
        <5>5. Lower(h.name) = Lower(secretName)
          BY <2>2, <4>4, <5>4
        <5>6. h.name \in Names /\ h.name.sep = "-"
          BY <2>0, <5>4, SpellingsAreNames DEF Dict
        <5>7. h.name.http = 0
          BY <2>1, <4>4, <5>5, <5>6, LowerFields
        <5>8. n = Lower(secretName)
          BY <5>3, <5>5, <5>6, <5>7, CleanKey
        <5> QED
          BY <5>1, <5>8
      <4> QED
        BY <4>3, <4>4, VisibleIs
    <3> QED
      BY <3>1, <3>2
  <2> DEFINE eager == EagerContext(sent, secretName)
  <2>4. /\ DOMAIN eager = {Lower(h.name) : h \in sent}
                             \ {Name("authorization"), Lower(secretName)}
        /\ \A h \in sent : Lower(h.name) \in DOMAIN eager => eager[Lower(h.name)] = h.value
    BY <2>0, EagerIs
  <2> HIDE DEF eager
  <2>5. /\ Name("authorization") \notin DOMAIN eager
        /\ Plain(secretName) => \A n \in DOMAIN eager : eager[n] \notin Secrets
    BY <2>2, <2>4
  <2> QED
    BY <2>3, <2>5 DEF CredentialsNeverShown, SecretNeverShown, Shown, eager
<1> QED
  BY <1>1, Invariant, PTL

(***************************************************************************)
(* What a task reads under a name is the value of the highest layer that   *)
(* set it in any spelling, unless the name is one of the library's own     *)
(* (_merge_headers, _get_context_headers, Task.headers).                   *)
(***************************************************************************)
THEOREM HighestLayerWins == Spec => []PrecedenceKept
<1>1. HeadersInv => PrecedenceKept
  <2> SUFFICES ASSUME HeadersInv, request = "run", ~Stray,
                      NEW i \in DOMAIN pushed, NEW j \in DOMAIN pushed[i],
                      Known(pushed[i][j].name) \notin
                         {Name("content-type"), Lower(Dashed(secretName)),
                          Name("authorization")},
                      ~\E k \in (i + 1)..4 : \E m \in DOMAIN pushed[k] :
                          Known(pushed[k][m].name) = Known(pushed[i][j].name)
               PROVE  /\ Known(pushed[i][j].name) \in DOMAIN context
                      /\ context[Known(pushed[i][j].name)] = Layers[i]
    BY DEF PrecedenceKept
  <2> DEFINE key == KeyAt(pushed, i, j)
  <2>1. /\ LayersOk(pushed) /\ sent = BuildHeaders(secretName, used, pushed) /\ Dict(sent)
        /\ secretName \in SecretNames /\ used \in Secrets \cup {NoSecret}
    BY Requested
  <2>2. i \in 1..4
    BY <2>1, LenProperties DEF LayersOk
  <2>4. PICK h \in sent :
           /\ Lower(h.name) = key
           /\ \/ \E k \in 1..4 : /\ k >= i /\ h.value = Layers[k]
                                 /\ \E m \in DOMAIN pushed[k] : KeyAt(pushed, k, m) = key
              \/ FromLibrary(secretName, used, key, h.value)
    BY <2>1, <2>2, BuiltCovers
  <2>5. Stripped(key) = key
    <3>1. h.name \in Names /\ ~(h.name.http > 0) /\ h.name.http \in 0..2
      BY <2>1, SpellingsAreNames DEF Dict, Stray
    <3>2. key \in Names /\ key.http = h.name.http
      BY <2>4, <3>1, LowerFields
    <3>3. key.http = 0
      <4> DEFINE k == h.name.http
      <4>1. k \in 0..2 /\ ~(k > 0) /\ key.http = k
        BY <3>1, <3>2
      <4> HIDE DEF k, key
      <4>2. k = 0
        BY <4>1
      <4> QED
        BY <4>1, <4>2
    <3> HIDE DEF key
    <3>4. Stripped(key) \in Names /\ Stripped(key).http = 0
      BY <3>2, <3>3, StrippedFields
    <3> QED
      BY <3>2, <3>3, <3>4, StrippedFields, SameName
  <2>6. \A k \in 1..4 : \A m \in DOMAIN pushed[k] :
           Known(pushed[k][m].name) = Stripped(KeyAt(pushed, k, m))
    BY DEF Known, KeyAt
  <2>7. Known(pushed[i][j].name) = key
    BY <2>2, <2>5, <2>6
  <2>8. ~FromLibrary(secretName, used, key, h.value)
    BY <2>7 DEF FromLibrary
  <2>9. h.value = Layers[i]
    <3>1. PICK k \in 1..4 : /\ k >= i /\ h.value = Layers[k]
                            /\ \E m \in DOMAIN pushed[k] : KeyAt(pushed, k, m) = key
      BY <2>4, <2>8
    <3>2. PICK m \in DOMAIN pushed[k] : KeyAt(pushed, k, m) = key
      BY <3>1
    <3>3. Known(pushed[k][m].name) = key
      BY <2>5, <2>6, <3>2
    <3>4. k \notin (i + 1)..4
      BY <2>7, <3>3
    <3>5. k = i
      BY <2>2, <3>1, <3>4
    <3> QED
      BY <3>1, <3>5
  <2>10. h \in Forwarded(sent)
    <3>1. ~Own(key)
      BY <2>2, NotReserved DEF Own
    <3> QED
      BY <2>4, <3>1, ForwardedAre
  <2>11. PICK headers : LowerNamed(Forwarded(sent), headers) /\ Answered(headers)
    BY CleanDelivery
  <2>12. context = Visible(headers, secretName)
    BY <2>11 DEF Answered
  <2>13. /\ DOMAIN context = DOMAIN headers \ {Name("authorization"), Lower(secretName)}
         /\ \A n \in DOMAIN context : context[n] = headers[n]
    <3>1. \A m : /\ DOMAIN Visible(headers, m) =
                        DOMAIN headers \ {Name("authorization"), Lower(m)}
                 /\ \A n \in DOMAIN Visible(headers, m) :
                        Visible(headers, m)[n] = headers[n]
      BY VisibleIs
    <3> HIDE DEF key
    <3> QED
      BY <2>12, <3>1
  <2>14. key \in DOMAIN headers /\ headers[key] = Layers[i]
    BY <2>4, <2>9, <2>10, <2>11 DEF LowerNamed
  <2>15. key # Lower(secretName)
    <3>1. h.name \in Names /\ h.name.sep = "-"
      BY <2>1, <2>4, SpellingsAreNames DEF Dict
    <3>2. key.sep = "-"
      BY <2>4, <3>1, LowerFields
    <3>3. secretName \in Names
      BY <2>1, HeadersAssumption, SpellingsAreNames
    <3> HIDE DEF key
    <3> SUFFICES ASSUME key = Lower(secretName) PROVE FALSE
      OBVIOUS
    <3>4. secretName.sep = "-"
      BY <3>2, <3>3, LowerFields
    <3>5. Dashed(secretName) = secretName
      BY <3>3, <3>4, DashedFields, SameName
    <3> QED
      BY <2>7, <3>5
  <2> HIDE DEF key
  <2> QED
    BY <2>7, <2>13, <2>14, <2>15
<1> QED
  BY <1>1, Invariant, PTL

(***************************************************************************)
(* The retry count a worker's task reads is the queue's, and an immediate  *)
(* run reads none: no header of the application stands in for it           *)
(* (_check_reserved_headers).                                              *)
(***************************************************************************)
THEOREM CountIsGenuine == DistinctSecretNames => (Spec => []CountIsTheQueues)
<1> SUFFICES ASSUME DistinctSecretNames PROVE Spec => []CountIsTheQueues
  OBVIOUS
<1> DEFINE count == Name("x-cloudtasks-taskretrycount")
<1>1. HeadersInv => CountIsTheQueues
  <2> SUFFICES ASSUME HeadersInv PROVE CountIsTheQueues
    OBVIOUS
  <2>0. /\ "x-cloudtasks-taskretrycount" \in Words /\ "authorization" \in Words
        /\ "content-type" \in Words
    BY DEF Words
  <2>1. count # Name("authorization") /\ count # Name("content-type") /\ Lower(count) = count
    BY <2>0, NameIs
  <2>2. secretName \in SecretNames /\ Dict(sent)
    BY SentDict DEF HeadersInv, TypeOK
  <2>3. Lower(secretName) # count /\ Lower(Dashed(secretName)) # count
    BY <2>2, SecretNameIs
  <2>4. ASSUME request = "run", ~Stray PROVE context[count] = "queue"
    <3>1. PICK headers : LowerNamed(Forwarded(sent), headers) /\ Answered(headers)
      BY <2>4, CleanDelivery
    <3> DEFINE h == Header(count, "queue")
    <3>2. h.name = count /\ h.value = "queue"
      BY HeaderIs
    <3>3. h \in Forwarded(sent)
      BY <3>2, ForwardedAre DEF Added
    <3> HIDE DEF h
    <3>4. count \in DOMAIN headers /\ headers[count] = "queue"
      BY <2>1, <3>1, <3>2, <3>3 DEF LowerNamed
    <3>5. context = Visible(headers, secretName)
      BY <2>4, <3>1 DEF Answered
    <3>6. /\ DOMAIN context = DOMAIN headers \ {Name("authorization"), Lower(secretName)}
          /\ \A n \in DOMAIN context : context[n] = headers[n]
      BY <3>5, VisibleIs
    <3> HIDE DEF count
    <3> QED
      BY <2>1, <2>3, <3>4, <3>6
  <2>5. ASSUME NEW h \in sent PROVE Lower(h.name) # count
    <3>1. request \notin {"none", "ValueError"}
      BY DEF HeadersInv, SentInv
    <3>2. /\ LayersOk(pushed) /\ sent = BuildHeaders(secretName, used, pushed)
          /\ used \in Secrets \cup {NoSecret}
      BY <3>1, Requested
    <3>3. \/ FromLayer(pushed, Lower(h.name), h.value)
          \/ FromLibrary(secretName, used, Lower(h.name), h.value)
      BY <2>2, <3>2, BuiltIs
    <3>4. CASE FromLayer(pushed, Lower(h.name), h.value)
      BY <3>1, <3>4, NotReserved DEF FromLayer
    <3>5. CASE FromLibrary(secretName, used, Lower(h.name), h.value)
      BY <2>1, <2>3, <3>5 DEF FromLibrary
    <3> QED
      BY <3>3, <3>4, <3>5
  <2>6. count \notin DOMAIN EagerContext(sent, secretName)
    <3>1. DOMAIN EagerContext(sent, secretName) =
             {Lower(h.name) : h \in sent} \ {Name("authorization"), Lower(secretName)}
      BY <2>2, EagerIs
    <3> HIDE DEF count
    <3> QED
      BY <2>5, <3>1
  <2> QED
    BY <2>4, <2>6 DEF CountIsTheQueues
<1> QED
  BY <1>1, Invariant, PTL

(***************************************************************************)
(* A task that reads its headers cannot tell an immediate run from a       *)
(* worker, but for the retry count, under every secret_header_name         *)
(* (_eager_context, from_headers).                                         *)
(***************************************************************************)
THEOREM EagerRunIsAlike == Spec => []EagerLikeWorker
<1> DEFINE count == Name("x-cloudtasks-taskretrycount")
<1>1. HeadersInv => EagerLikeWorker
  <2> SUFFICES ASSUME HeadersInv, request = "run", ~Stray,
                      NEW n \in DOMAIN context \cup DOMAIN EagerContext(sent, secretName),
                      n # count
               PROVE  /\ n \in DOMAIN context \cap DOMAIN EagerContext(sent, secretName)
                      /\ context[n] = EagerContext(sent, secretName)[n]
    BY DEF EagerLikeWorker
  <2> DEFINE eager == EagerContext(sent, secretName)
             hidden == {Name("authorization"), Lower(secretName)}
  <2>1. PICK headers : LowerNamed(Forwarded(sent), headers) /\ Answered(headers)
    BY CleanDelivery
  <2>2. context = Visible(headers, secretName)
    BY <2>1 DEF Answered
  <2>3. DOMAIN context = DOMAIN headers \ hidden /\ \A m \in DOMAIN context : context[m] = headers[m]
    BY <2>2, VisibleIs
  <2>4. Dict(sent)
    BY SentDict DEF HeadersInv
  <2>5. /\ DOMAIN eager = {Lower(h.name) : h \in sent} \ hidden
        /\ \A h \in sent : Lower(h.name) \in DOMAIN eager => eager[Lower(h.name)] = h.value
    BY <2>4, EagerIs
  <2>6. n \notin hidden /\ ~Own(n)
    BY <2>3, <2>5 DEF Own
  <2>7. \E h \in sent : Lower(h.name) = n
    <3>1. CASE n \in DOMAIN eager
      BY <2>5, <3>1
    <3>2. CASE n \in DOMAIN context
      <4>1. PICK h \in Forwarded(sent) : Lower(h.name) = n
        BY <2>1, <2>3, <3>2 DEF LowerNamed
      <4>2. ~Added(h)
        <5>1. "x-cloudtasks-taskretrycount" \in Words /\ "authorization" \in Words
          BY DEF Words
        <5>2. Added(h) => Own(Lower(h.name))
          BY <5>1, NameIs DEF Added, Own
        <5> QED
          BY <2>6, <4>1, <5>2
      <4> QED
        BY <4>1, <4>2, ForwardedAre
    <3> QED
      BY <3>1, <3>2
  <2>8. PICK h \in sent : Lower(h.name) = n
    BY <2>7
  <2>9. h \in Forwarded(sent)
    BY <2>6, <2>8, ForwardedAre
  <2>10. n \in DOMAIN headers /\ headers[n] = h.value
    BY <2>1, <2>8, <2>9 DEF LowerNamed
  <2> HIDE DEF eager, hidden
  <2>11. n \in DOMAIN eager /\ eager[n] = h.value
    BY <2>5, <2>6, <2>8
  <2>12. n \in DOMAIN context /\ context[n] = h.value
    BY <2>3, <2>6, <2>10
  <2> QED
    BY <2>11, <2>12 DEF eager
<1> QED
  BY <1>1, Invariant, PTL

=============================================================================
