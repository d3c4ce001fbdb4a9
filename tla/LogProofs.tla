----------------------------- MODULE LogProofs ------------------------------
(***************************************************************************)
(* TLAPS proofs about Log, for every number of pages and every size of     *)
(* areas and entries: the log on NVM is always a chain of areas that holds *)
(* whole entries up to a foot, through failed writes, crashes and          *)
(* restarts, and so it implements CommittedLog.                            *)
(*                                                                         *)
(* A log is described by the sequence d of its areas and the sequence st   *)
(* of the positions where its entries start; a position counts the words   *)
(* of the log from 0, links left out.                                      *)
(***************************************************************************)
EXTENDS Log, SharedLemmas

\* The area and the word of position x of a log's words, counted from 0.
Area(x) == (x \div AREA_WORDS) + 1
Offset(x) == (x % AREA_WORDS) + 1

\* A position is so many whole areas and a rest.
LEMMA DivFacts ==
  ASSUME NEW x \in Nat
  PROVE  /\ x \div AREA_WORDS \in Nat /\ x % AREA_WORDS \in 0 .. AREA_WORDS - 1
         /\ x = (x \div AREA_WORDS) * AREA_WORDS + (x % AREA_WORDS)
<1>1. AREA_WORDS \in Nat /\ AREA_WORDS > 0
  BY AreaAssumption
<1> QED BY <1>1

\* There is one way to write it so.
LEMMA DivUnique ==
  ASSUME NEW x \in Nat, NEW q \in Nat, NEW r \in 0 .. AREA_WORDS - 1,
         x = q * AREA_WORDS + r
  PROVE  x \div AREA_WORDS = q /\ x % AREA_WORDS = r
<1>1. AREA_WORDS \in Nat /\ AREA_WORDS > 0
  BY AreaAssumption
<1> DEFINE p == x \div AREA_WORDS
           s == x % AREA_WORDS
<1>2. p \in Nat /\ s \in 0 .. AREA_WORDS - 1 /\ x = p * AREA_WORDS + s
  BY DivFacts
<1> HIDE DEF p, s
<1>3. ASSUME p < q PROVE FALSE
  <2>1. p + 1 <= q
    BY <1>2, <1>3
  <2>2. (p + 1) * AREA_WORDS <= q * AREA_WORDS
    BY <1>1, <1>2, <2>1
  <2> QED BY <1>1, <1>2, <2>2
<1>4. ASSUME q < p PROVE FALSE
  <2>1. q + 1 <= p
    BY <1>2, <1>4
  <2>2. (q + 1) * AREA_WORDS <= p * AREA_WORDS
    BY <1>1, <1>2, <2>1
  <2> QED BY <1>1, <1>2, <2>2
<1>5. p = q
  BY <1>2, <1>3, <1>4
<1> QED BY <1>1, <1>2, <1>5 DEF p, s

\* A position is given by its area and its word.
LEMMA PosFacts ==
  ASSUME NEW x \in Nat
  PROVE  /\ Area(x) \in Nat \ {0} /\ Offset(x) \in 1 .. AREA_WORDS
         /\ x = (Area(x) - 1) * AREA_WORDS + Offset(x) - 1
<1> DEFINE q == x \div AREA_WORDS
           r == x % AREA_WORDS
<1>1. AREA_WORDS \in Nat /\ AREA_WORDS > 0
  BY AreaAssumption
<1>2. q \in Nat /\ r \in 0 .. AREA_WORDS - 1 /\ x = q * AREA_WORDS + r
  BY DivFacts
<1>3. Area(x) = q + 1 /\ Offset(x) = r + 1
  BY DEF Area, Offset
<1> HIDE DEF q, r
<1>4. Area(x) - 1 = q
  BY <1>2, <1>3
<1> QED BY <1>1, <1>2, <1>3, <1>4

\* No other area and word give that position.
LEMMA PosUnique ==
  ASSUME NEW x \in Nat, NEW n \in Nat \ {0}, NEW k \in 1 .. AREA_WORDS,
         x = (n - 1) * AREA_WORDS + k - 1
  PROVE  Area(x) = n /\ Offset(x) = k
<1>1. AREA_WORDS \in Nat /\ AREA_WORDS > 0
  BY AreaAssumption
<1>2. n - 1 \in Nat /\ k - 1 \in 0 .. AREA_WORDS - 1 /\ x = (n - 1) * AREA_WORDS + (k - 1)
  BY <1>1
<1>3. x \div AREA_WORDS = n - 1 /\ x % AREA_WORDS = k - 1
  BY <1>2, DivUnique
<1> QED BY <1>1, <1>3 DEF Area, Offset

\* The next position: the next word, or the first one of the next area.
LEMMA PosNext ==
  ASSUME NEW x \in Nat
  PROVE  /\ Offset(x) < AREA_WORDS => /\ Area(x + 1) = Area(x)
                                      /\ Offset(x + 1) = Offset(x) + 1
         /\ Offset(x) = AREA_WORDS => Area(x + 1) = Area(x) + 1 /\ Offset(x + 1) = 1
<1>1. AREA_WORDS \in Nat /\ AREA_WORDS > 0
  BY AreaAssumption
<1>2. /\ Area(x) \in Nat \ {0} /\ Offset(x) \in 1 .. AREA_WORDS
      /\ x = (Area(x) - 1) * AREA_WORDS + Offset(x) - 1
  BY PosFacts
<1>3. ASSUME Offset(x) < AREA_WORDS
      PROVE  Area(x + 1) = Area(x) /\ Offset(x + 1) = Offset(x) + 1
  <2>1. /\ x + 1 \in Nat /\ Offset(x) + 1 \in 1 .. AREA_WORDS
        /\ x + 1 = (Area(x) - 1) * AREA_WORDS + (Offset(x) + 1) - 1
    BY <1>1, <1>2, <1>3
  <2> QED BY <1>2, <2>1, PosUnique
<1>4. ASSUME Offset(x) = AREA_WORDS
      PROVE  Area(x + 1) = Area(x) + 1 /\ Offset(x + 1) = 1
  <2>1. /\ x + 1 \in Nat /\ 1 \in 1 .. AREA_WORDS /\ Area(x) + 1 \in Nat \ {0}
        /\ x + 1 = ((Area(x) + 1) - 1) * AREA_WORDS + 1 - 1
    BY <1>1, <1>2, <1>4
  <2> QED BY <2>1, PosUnique
<1> QED BY <1>3, <1>4

\* Areas are passed in order.
LEMMA PosOrder ==
  ASSUME NEW x \in Nat, NEW y \in Nat, x <= y
  PROVE  Area(x) <= Area(y)
<1>1. AREA_WORDS \in Nat /\ AREA_WORDS > 0
  BY AreaAssumption
<1> DEFINE n == Area(x)
           m == Area(y)
           j == Offset(x)
           k == Offset(y)
<1>2. /\ n \in Nat \ {0} /\ j \in 1 .. AREA_WORDS /\ x = (n - 1) * AREA_WORDS + j - 1
      /\ m \in Nat \ {0} /\ k \in 1 .. AREA_WORDS /\ y = (m - 1) * AREA_WORDS + k - 1
  BY PosFacts
<1> HIDE DEF n, m, j, k
<1>3. ASSUME m + 1 <= n PROVE FALSE
  <2>1. (m + 1) * AREA_WORDS <= n * AREA_WORDS
    BY <1>1, <1>2, <1>3
  <2> QED BY <1>1, <1>2, <2>1
<1>4. n <= m
  BY <1>2, <1>3
<1> QED BY <1>4 DEF n, m

\* Two positions with the same area and word are one.
LEMMA PosEqual ==
  ASSUME NEW x \in Nat, NEW y \in Nat, Area(x) = Area(y), Offset(x) = Offset(y)
  PROVE  x = y
<1> QED BY PosFacts

\* n areas have room for n times AREA_WORDS positions.
LEMMA PosRoom ==
  ASSUME NEW x \in Nat, NEW n \in Nat
  PROVE  Area(x) <= n <=> x < n * AREA_WORDS
<1>1. AREA_WORDS \in Nat /\ AREA_WORDS > 0
  BY AreaAssumption
<1> DEFINE m == Area(x)
           j == Offset(x)
<1>2. m \in Nat \ {0} /\ j \in 1 .. AREA_WORDS /\ x = (m - 1) * AREA_WORDS + j - 1
  BY PosFacts
<1> HIDE DEF m, j
<1>3. ASSUME m <= n PROVE x < n * AREA_WORDS
  <2>1. m * AREA_WORDS <= n * AREA_WORDS
    BY <1>1, <1>2, <1>3
  <2> QED BY <1>1, <1>2, <2>1
<1>4. ASSUME n < m PROVE ~(x < n * AREA_WORDS)
  <2>1. n <= m - 1
    BY <1>2, <1>4
  <2>2. n * AREA_WORDS <= (m - 1) * AREA_WORDS
    BY <1>1, <1>2, <2>1
  <2> QED BY <1>1, <1>2, <2>2
<1> QED BY <1>2, <1>3, <1>4 DEF m

\* The first area holds the first AREA_WORDS positions.
LEMMA PosFirst ==
  ASSUME NEW x \in 0 .. AREA_WORDS - 1
  PROVE  Area(x) = 1 /\ Offset(x) = x + 1
<1>1. AREA_WORDS \in Nat /\ AREA_WORDS > 0
  BY AreaAssumption
<1>2. /\ x \in Nat /\ x + 1 \in 1 .. AREA_WORDS /\ 1 \in Nat \ {0}
      /\ x = (1 - 1) * AREA_WORDS + (x + 1) - 1
  BY <1>1
<1> QED BY <1>2, PosUnique

-----------------------------------------------------------------------------
\* The chain of areas.

\* The areas d are linked in this order.
Chain(m, d) ==
  /\ d \in Seq(Pages) /\ Len(d) > 0 /\ IsInjective(d)
  /\ \A i \in 1 .. Len(d) - 1 : m[d[i]][0] = LinkWord(d[i + 1])

\* The address of position x.
At(d, x) == <<d[Area(x)], Offset(x)>>

\* Position x is in the areas d.
Inside(d, x) == x \in Nat /\ Area(x) <= Len(d)

\* A position in the chain has a valid address, which ContinousSpaceRead reads.
LEMMA AtFacts ==
  ASSUME NEW m, NEW d, Chain(m, d), NEW x, Inside(d, x)
  PROVE  /\ At(d, x) \in Addresses /\ At(d, x) # Wild
         /\ At(d, x)[1] = d[Area(x)] /\ At(d, x)[2] = Offset(x)
         /\ Area(x) \in 1 .. Len(d) /\ d[Area(x)] \in Pages /\ Offset(x) \in 1 .. AREA_WORDS
         /\ WordAt(m, At(d, x)) = m[d[Area(x)]][Offset(x)]
<1>1. x \in Nat /\ d \in Seq(Pages) /\ Len(d) \in Nat
  BY DEF Inside, Chain
<1>2. Area(x) \in Nat \ {0} /\ Offset(x) \in 1 .. AREA_WORDS
  BY <1>1, PosFacts
<1>3. Area(x) \in 1 .. Len(d)
  BY <1>1, <1>2 DEF Inside
<1>4. d[Area(x)] \in Pages
  BY <1>1, <1>3
<1>5. d[Area(x)] # NoPage
  BY <1>4, PageAssumption
<1> QED BY <1>2, <1>3, <1>4, <1>5 DEF At, Addresses, Wild, WordAt

\* Different positions have different addresses: no word is used twice.
LEMMA AtInjective ==
  ASSUME NEW m, NEW d, Chain(m, d), NEW x, NEW y, Inside(d, x), Inside(d, y),
         At(d, x) = At(d, y)
  PROVE  x = y
<1>1. x \in Nat /\ y \in Nat /\ d \in Seq(Pages) /\ DOMAIN d = 1 .. Len(d)
  BY DEF Inside, Chain
<1>2. Area(x) \in 1 .. Len(d) /\ Area(y) \in 1 .. Len(d)
  BY AtFacts
<1>3. d[Area(x)] = d[Area(y)] /\ Offset(x) = Offset(y)
  BY DEF At
<1>4. Area(x) = Area(y)
  BY <1>1, <1>2, <1>3 DEF Chain, IsInjective
<1> QED BY <1>1, <1>3, <1>4, PosEqual

\* Positions before one in the chain are in it.
LEMMA InsideLess ==
  ASSUME NEW d, NEW x \in Nat, NEW y, Inside(d, y), x <= y, Len(d) \in Nat
  PROVE  Inside(d, x)
<1>1. Area(x) <= Area(y) /\ Area(x) \in Nat /\ Area(y) \in Nat
  BY PosOrder, PosFacts DEF Inside
<1> QED BY <1>1 DEF Inside

\* The link of an area of the chain leads to the next one.
LEMMA LinkFacts ==
  ASSUME NEW m, NEW d, Chain(m, d), NEW i \in 1 .. Len(d) - 1
  PROVE  NextArea(m, d[i]) = d[i + 1]
<1>1. d \in Seq(Pages) /\ Len(d) \in Nat /\ i \in 1 .. Len(d) /\ i + 1 \in 1 .. Len(d)
  BY DEF Chain
<1>2. d[i] \in Pages /\ d[i + 1] \in Pages /\ d[i] # NoPage
  BY <1>1, PageAssumption
<1>3. m[d[i]][0] = LinkWord(d[i + 1])
  BY DEF Chain
<1>4. LinkWord(d[i + 1])[2] = d[i + 1]
  BY DEF LinkWord
<1> QED BY <1>2, <1>3, <1>4 DEF NextArea

\* One word on, over the end of an area if need be.
LEMMA NextWordOn ==
  ASSUME NEW m, NEW d, Chain(m, d), NEW x \in Nat, Inside(d, x + 1)
  PROVE  NextWord(m)[At(d, x)] = At(d, x + 1)
<1>1. Len(d) \in Nat /\ Inside(d, x) /\ AREA_WORDS \in Nat
  <2>1. Len(d) \in Nat /\ AREA_WORDS \in Nat
    BY AreaAssumption DEF Chain
  <2> QED BY <2>1, InsideLess
<1> DEFINE a == At(d, x)
<1>2. /\ a \in Addresses /\ a # Wild /\ a[1] = d[Area(x)] /\ a[2] = Offset(x)
      /\ Area(x) \in 1 .. Len(d) /\ Offset(x) \in 1 .. AREA_WORDS
  BY <1>1, AtFacts
<1>3. At(d, x + 1) = <<d[Area(x + 1)], Offset(x + 1)>>
  BY DEF At
<1>4. CASE Offset(x) < AREA_WORDS
  <2>1. Area(x + 1) = Area(x) /\ Offset(x + 1) = Offset(x) + 1
    BY <1>4, PosNext
  <2> HIDE DEF a
  <2> QED BY <1>2, <1>3, <1>4, <2>1 DEF NextWord, a
<1>5. CASE Offset(x) = AREA_WORDS
  <2>1. Area(x + 1) = Area(x) + 1 /\ Offset(x + 1) = 1
    BY <1>5, PosNext
  <2>2. Area(x) \in 1 .. Len(d) - 1
    BY <1>1, <1>2, <2>1 DEF Inside
  <2>3. NextArea(m, d[Area(x)]) = d[Area(x) + 1]
    BY <2>2, LinkFacts
  <2>4. d[Area(x) + 1] # NoPage
    <3>1. d[Area(x + 1)] \in Pages
      BY AtFacts, <1>1
    <3> QED BY <3>1, <2>1, PageAssumption
  <2> HIDE DEF a
  <2> QED BY <1>1, <1>2, <1>3, <1>5, <2>1, <2>3, <2>4 DEF NextWord, a
<1> QED BY <1>1, <1>2, <1>4, <1>5

\* ContinousSpaceCalculateNextAddr stays on the chain.
LEMMA AdvanceOn ==
  ASSUME NEW m, NEW d, Chain(m, d), NEW s \in Nat, NEW n \in Nat, Inside(d, s + n)
  PROVE  CalculateNextAddr(m, At(d, s), n) = At(d, s + n)
<1> DEFINE a == At(d, s)
           f == [i \in 0 .. n |-> At(d, s + i)]
           Body(g) == [i \in 0 .. n |-> IF i = 0 THEN a ELSE NextWord(m)[g[i - 1]]]
           g == Advancing(m, a, n)
<1>1. \A i \in 1 .. n : NextWord(m)[At(d, s + (i - 1))] = At(d, s + i)
  <2> TAKE i \in 1 .. n
  <2>1. Len(d) \in Nat /\ s + i \in Nat /\ s + i <= s + n /\ s + (i - 1) \in Nat
        /\ (s + (i - 1)) + 1 = s + i
    BY DEF Chain
  <2>2. Inside(d, s + i)
    BY <2>1, InsideLess
  <2> QED BY <2>1, <2>2, NextWordOn
<1>2. f = Body(f)
  <2>1. \A i \in 0 .. n : i # 0 => i - 1 \in 0 .. n /\ i \in 1 .. n
    OBVIOUS
  <2>2. At(d, s + 0) = a
    OBVIOUS
  <2> HIDE DEF a
  <2> QED BY <1>1, <2>1, <2>2
<1>3. g = CHOOSE h : h = Body(h)
  BY Zenon DEF Advancing
<1>4. g = Body(g)
  <2> HIDE DEF Body, f, g
  <2> QED BY <1>2, <1>3
<1>5. \A i \in 0 .. n : i \in {j \in 0 .. n : g[j] = At(d, s + j)}
  <2> DEFINE T == {j \in 0 .. n : g[j] = At(d, s + j)}
  <2> HIDE DEF g
  <2>1. 0 \in T
    <3>1. At(d, s + 0) = a
      OBVIOUS
    <3> QED BY <1>4, <3>1
  <2>2. ASSUME NEW i \in 0 .. n - 1, i \in T PROVE i + 1 \in T
    <3>1. i + 1 \in 1 .. n /\ i + 1 \in 0 .. n /\ (i + 1) - 1 = i /\ i + 1 # 0
      OBVIOUS
    <3>2. g[i + 1] = NextWord(m)[g[i]]
      <4> HIDE DEF a
      <4> QED BY <1>4, <3>1
    <3>3. NextWord(m)[At(d, s + i)] = At(d, s + (i + 1))
      BY <1>1, <3>1
    <3> QED BY <2>2, <3>1, <3>2, <3>3
  <2> HIDE DEF T
  <2>3. \A i \in 0 .. n : i \in T
    BY <2>1, <2>2, LoopInduction
  <2> QED BY <2>3 DEF T
<1>6. g[n] = At(d, s + n)
  BY <1>5
<1> QED BY <1>6 DEF CalculateNextAddr

-----------------------------------------------------------------------------
\* Entries on the chain.

\* The words of an entry.
LEMMA EntryFacts ==
  ASSUME NEW e \in Entries
  PROVE  /\ Len(e.data) \in Nat /\ Len(e.data) \in Sizes
         /\ e.data \in [1 .. Len(e.data) -> Words] /\ HeadWord(e) \in Words
         /\ e = [type |-> e.type, data |-> [k \in 1 .. Len(e.data) |-> e.data[k]]]
         /\ HeadWord(e)[1] = "head" /\ HeadWord(e)[2] = e.type
         /\ HeadWord(e)[3] = Len(e.data)
<1>1. PICK type \in Types, n \in Sizes : e = MakeEntry(type, n)
  BY DEF Entries
<1>2. n \in Nat
  BY AreaAssumption
<1>3. /\ e = [type |-> type, data |-> [k \in 1 .. n |-> DataWord(type, k)]]
      /\ e.type = type /\ e.data = [k \in 1 .. n |-> DataWord(type, k)]
  BY <1>1 DEF MakeEntry
<1>4. Len(e.data) = n
  BY <1>2, <1>3
<1>5. e.data = [k \in 1 .. Len(e.data) |-> e.data[k]]
  BY <1>2, <1>3, <1>4
<1>6. \A k \in 1 .. n : e.data[k] \in Words
  <2> TAKE k \in 1 .. n
  <2>1. e.data[k] \in Range(e.data)
    BY <1>3 DEF Range
  <2> QED BY <2>1 DEF Words
<1>7. HeadWord(e) \in Words
  BY DEF Words
<1>8. HeadWord(e)[1] = "head" /\ HeadWord(e)[2] = e.type /\ HeadWord(e)[3] = Len(e.data)
  BY DEF HeadWord
<1>9. e = [type |-> e.type, data |-> e.data]
  BY <1>3
<1>10. e.data \in [1 .. n -> Words]
  BY <1>5, <1>6, <1>4
<1> QED BY <1>2, <1>4, <1>5, <1>7, <1>8, <1>9, <1>10

\* The entries start at the positions st; st[Len(ents)] is where they end.
Starts(ents, st) ==
  /\ st \in [0 .. Len(ents) -> Nat]
  /\ st[0] = RESERVE
  /\ \A i \in 1 .. Len(ents) : st[i] = st[i - 1] + Len(ents[i].data) + 1

\* The entries lie one behind the other, before the end.
LEMMA StartsFacts ==
  ASSUME NEW ents \in Seq(Entries), NEW st, Starts(ents, st)
  PROVE  /\ \A i \in 0 .. Len(ents) : st[i] \in Nat /\ st[i] <= st[Len(ents)] /\ i <= st[i]
         /\ \A i \in 1 .. Len(ents) : /\ ents[i] \in Entries /\ Len(ents[i].data) \in Nat
                                      /\ st[i - 1] + Len(ents[i].data) < st[Len(ents)]
<1> DEFINE n == Len(ents)
           T == {j \in 0 .. n : /\ j <= st[j]
                                /\ \A i \in 0 .. j : st[i] <= st[j]}
<1>1. n \in Nat /\ \A i \in 1 .. n : ents[i] \in Entries
  OBVIOUS
<1>2. \A i \in 1 .. n : Len(ents[i].data) \in Nat
  BY <1>1, EntryFacts
<1>3. RESERVE \in Nat
  BY AreaAssumption
<1>4. /\ \A i \in 0 .. n : st[i] \in Nat
      /\ st[0] = RESERVE
      /\ \A i \in 1 .. n : st[i] = st[i - 1] + Len(ents[i].data) + 1
  BY DEF Starts
<1> HIDE DEF n
<1>5. 0 \in T
  <2>1. \A i \in 0 .. 0 : i = 0
    OBVIOUS
  <2> QED BY <1>1, <1>3, <1>4, <2>1
<1>6. ASSUME NEW j \in 0 .. n - 1, j \in T PROVE j + 1 \in T
  <2>1. j + 1 \in 1 .. n /\ (j + 1) - 1 = j /\ j \in 0 .. n /\ j + 1 \in 0 .. n
    BY <1>1
  <2>2. st[j + 1] = st[j] + Len(ents[j + 1].data) + 1 /\ Len(ents[j + 1].data) \in Nat
    BY <1>2, <1>4, <2>1
  <2>3. st[j] \in Nat /\ j <= st[j] /\ \A i \in 0 .. j : st[i] \in Nat /\ st[i] <= st[j]
    BY <1>1, <1>4, <1>6, <2>1
  <2>4. \A i \in 0 .. j + 1 : st[i] <= st[j + 1]
    <3> TAKE i \in 0 .. j + 1
    <3>1. i \in 0 .. j \/ i = j + 1
      BY <2>1
    <3> QED BY <2>2, <2>3, <3>1, <1>4, <2>1
  <2> QED BY <2>1, <2>2, <2>3, <2>4
<1>7. \A j \in 0 .. n : j \in T
  <2> HIDE DEF T
  <2> QED BY <1>1, <1>5, <1>6, LoopInduction
<1>8. n \in 0 .. n
  BY <1>1
<1>9. \A i \in 0 .. n : st[i] \in Nat /\ st[i] <= st[n] /\ i <= st[i]
  BY <1>4, <1>7, <1>8
<1>10. ASSUME NEW i \in 1 .. n PROVE st[i - 1] + Len(ents[i].data) < st[n]
  <2>1. i \in 0 .. n /\ i - 1 \in 0 .. n
    BY <1>1
  <2>2. st[i] = st[i - 1] + Len(ents[i].data) + 1 /\ Len(ents[i].data) \in Nat
    BY <1>2, <1>4
  <2>3. st[i] \in Nat /\ st[i - 1] \in Nat /\ st[n] \in Nat /\ st[i] <= st[n]
    BY <1>4, <1>8, <1>9, <2>1
  <2> QED BY <2>2, <2>3
<1> QED BY <1>1, <1>2, <1>9, <1>10 DEF n

\* The first k data words of entry e are at position s and behind.
DataAt(m, d, s, e, k) == \A j \in 1 .. k : WordAt(m, At(d, s + j)) = e.data[j]

\* Entry e is at position s.
EntryOn(m, d, s, e) ==
  WordAt(m, At(d, s)) = HeadWord(e) /\ DataAt(m, d, s, e, Len(e.data))

\* The chain d from area first holds the entries ents, and a foot behind them.
Holds(m, first, d, ents, st) ==
  /\ Chain(m, d) /\ d[1] = first
  /\ ents \in Seq(Entries) /\ Starts(ents, st)
  /\ Inside(d, st[Len(ents)])
  /\ \A i \in 1 .. Len(ents) : EntryOn(m, d, st[i - 1], ents[i])
  /\ WordAt(m, At(d, st[Len(ents)])) = Zero

\* All positions of a log are in its chain.
LEMMA HoldsInside ==
  ASSUME NEW m, NEW first, NEW d, NEW ents, NEW st, Holds(m, first, d, ents, st)
  PROVE  /\ Len(ents) \in Nat /\ Len(d) \in Nat /\ d # << >>
         /\ \A i \in 0 .. Len(ents) : Inside(d, st[i]) /\ st[i] \in Nat
         /\ \A x \in 0 .. st[Len(ents)] : Inside(d, x)
<1>1. ents \in Seq(Entries) /\ Starts(ents, st) /\ Chain(m, d) /\ Inside(d, st[Len(ents)])
  BY DEF Holds
<1>2. Len(ents) \in Nat /\ Len(d) \in Nat /\ d # << >>
  BY <1>1 DEF Chain
<1>3. st[Len(ents)] \in Nat
  BY <1>1 DEF Inside
<1>4. \A x \in 0 .. st[Len(ents)] : Inside(d, x)
  BY <1>1, <1>2, <1>3, InsideLess
<1>5. \A i \in 0 .. Len(ents) : st[i] \in Nat /\ st[i] <= st[Len(ents)]
  BY <1>1, StartsFacts
<1> QED BY <1>2, <1>3, <1>4, <1>5

\* The areas are not more than there are pages.
LEMMA ChainLength ==
  ASSUME NEW m, NEW d, Chain(m, d)
  PROVE  /\ Cardinality(Pages) \in Nat /\ Len(d) \in 1 .. Cardinality(Pages)
         /\ Cardinality(Range(d)) = Len(d) /\ Range(d) \subseteq Pages
<1>1. d \in Seq(Pages) /\ IsInjective(d) /\ Len(d) > 0 /\ Len(d) \in Nat
  BY DEF Chain
<1>2. IsFiniteSet(ToSet(d)) /\ Cardinality(ToSet(d)) = Len(d)
  BY <1>1, InjectiveCard
<1>3. Range(d) = ToSet(d)
  BY DEF Range, ToSet
<1>4. Range(d) \subseteq Pages
  BY <1>1 DEF Range
<1>5. Cardinality(Pages) \in Nat /\ IsFiniteSet(Pages)
  BY PageAssumption, FS_CardinalityType
<1>6. Cardinality(Range(d)) <= Cardinality(Pages)
  BY <1>4, <1>5, FS_Subset
<1> QED BY <1>1, <1>2, <1>3, <1>4, <1>5, <1>6

\* There are fewer entries than words.
LEMMA EntryCount ==
  ASSUME NEW m, NEW first, NEW d, NEW ents, NEW st, Holds(m, first, d, ents, st)
  PROVE  MaxVisits \in Nat /\ Len(ents) \in 0 .. MaxVisits - 1
<1>1. Chain(m, d) /\ ents \in Seq(Entries) /\ Starts(ents, st) /\ Inside(d, st[Len(ents)])
  BY DEF Holds
<1> DEFINE c == Cardinality(Pages)
           e == st[Len(ents)]
           k == Len(d)
<1>2. c \in Nat /\ k \in 1 .. c
  BY <1>1, ChainLength
<1>3. AREA_WORDS \in Nat
  BY AreaAssumption
<1>4. Len(ents) \in Nat /\ e \in Nat /\ Len(ents) <= e
  <2>1. Len(ents) \in Nat
    BY <1>1
  <2> QED BY <2>1, <1>1, StartsFacts
<1>5. e < k * AREA_WORDS
  BY <1>1, <1>2, <1>4, PosRoom DEF Inside
<1> HIDE DEF c, e, k
<1>6. k * AREA_WORDS <= c * AREA_WORDS /\ c * AREA_WORDS \in Nat /\ k * AREA_WORDS \in Nat
  BY <1>2, <1>3
<1>7. MaxVisits = c * AREA_WORDS
  BY DEF MaxVisits, c
<1> QED BY <1>4, <1>5, <1>6, <1>7

\* From one head to the next, and no further than the foot.
LEMMA NextHeadOn ==
  ASSUME NEW m, NEW first, NEW d, NEW ents, NEW st, Holds(m, first, d, ents, st)
  PROVE  /\ \A i \in 1 .. Len(ents) :
              /\ IsHead(m, At(d, st[i - 1]))
              /\ NextHead(m)[At(d, st[i - 1])] = At(d, st[i])
              /\ EntryAt(m)[At(d, st[i - 1])] = ents[i]
         /\ ~IsHead(m, At(d, st[Len(ents)]))
         /\ NextHead(m)[At(d, st[Len(ents)])] = At(d, st[Len(ents)])
<1>1. Chain(m, d) /\ ents \in Seq(Entries) /\ Starts(ents, st) /\ Inside(d, st[Len(ents)])
  BY DEF Holds
<1>2. /\ Len(ents) \in Nat /\ Len(d) \in Nat
      /\ \A i \in 0 .. Len(ents) : Inside(d, st[i]) /\ st[i] \in Nat
      /\ \A x \in 0 .. st[Len(ents)] : Inside(d, x)
  BY HoldsInside
<1>3. ASSUME NEW i \in 1 .. Len(ents)
      PROVE  /\ IsHead(m, At(d, st[i - 1]))
             /\ NextHead(m)[At(d, st[i - 1])] = At(d, st[i])
             /\ EntryAt(m)[At(d, st[i - 1])] = ents[i]
  <2> DEFINE s == st[i - 1]
             e == ents[i]
             a == At(d, s)
  <2>1. i - 1 \in 0 .. Len(ents) /\ i \in 0 .. Len(ents)
    BY <1>2
  <2>2. /\ e \in Entries /\ Len(e.data) \in Nat /\ s + Len(e.data) < st[Len(ents)]
    BY <1>1, StartsFacts
  <2>3. st[i] = s + Len(e.data) + 1 /\ s \in Nat /\ Inside(d, s) /\ Inside(d, st[i])
    BY <1>1, <1>2, <2>1 DEF Starts
  <2>4. EntryOn(m, d, s, e)
    BY DEF Holds
  <2>5. a \in Addresses
    BY <1>1, <2>3, AtFacts
  <2>6. /\ WordAt(m, a) = HeadWord(e) /\ HeadWord(e)[1] = "head"
        /\ HeadWord(e)[2] = e.type /\ HeadWord(e)[3] = Len(e.data)
        /\ e = [type |-> e.type, data |-> [k \in 1 .. Len(e.data) |-> e.data[k]]]
    BY <2>2, <2>4, EntryFacts DEF EntryOn
  <2> HIDE DEF e, s
  <2>7. CalculateNextAddr(m, a, Len(e.data) + 1) = At(d, st[i])
    <3>1. s + (Len(e.data) + 1) = st[i] /\ Len(e.data) + 1 \in Nat
      BY <2>2, <2>3
    <3> QED BY <1>1, <2>3, <3>1, AdvanceOn
  <2>8. \A k \in 1 .. Len(e.data) : WordAt(m, CalculateNextAddr(m, a, k)) = e.data[k]
    <3> TAKE k \in 1 .. Len(e.data)
    <3>1. k \in Nat /\ s + k \in Nat /\ s + k <= st[i]
      BY <2>2, <2>3
    <3>2. Inside(d, s + k)
      BY <1>2, <2>3, <3>1, InsideLess
    <3>3. CalculateNextAddr(m, a, k) = At(d, s + k)
      BY <1>1, <2>3, <3>1, <3>2, AdvanceOn
    <3> QED BY <2>4, <3>3 DEF EntryOn, DataAt
  <2> HIDE DEF a
  <2>9. IsHead(m, a)
    BY <2>6 DEF IsHead
  <2>10. NextHead(m)[a] = At(d, st[i])
    BY <2>5, <2>6, <2>7, <2>9 DEF NextHead
  <2>11. EntryAt(m)[a] = e
    <3>1. EntryAt(m)[a] =
            [type |-> e.type,
             data |-> [k \in 1 .. Len(e.data) |-> WordAt(m, CalculateNextAddr(m, a, k))]]
      BY <2>5, <2>6 DEF EntryAt
    <3>2. [k \in 1 .. Len(e.data) |-> WordAt(m, CalculateNextAddr(m, a, k))] =
            [k \in 1 .. Len(e.data) |-> e.data[k]]
      BY <2>8
    <3> QED BY <2>6, <3>1, <3>2
  <2> QED BY <2>9, <2>10, <2>11 DEF a, s, e
<1> DEFINE z == At(d, st[Len(ents)])
<1>4. z \in Addresses /\ WordAt(m, z) = Zero
  BY <1>1, AtFacts DEF Holds
<1> HIDE DEF z
<1>5. ~IsHead(m, z)
  BY <1>4 DEF IsHead, Zero
<1>6. NextHead(m)[z] = z
  BY <1>4, <1>5 DEF NextHead
<1> QED BY <1>3, <1>5, <1>6 DEF z

\* LogForEachEntryImpl visits the heads in order and stays at the foot.
LEMMA VisitingOn ==
  ASSUME NEW m, NEW first, NEW d, NEW ents, NEW st, Holds(m, first, d, ents, st)
  PROVE  \A i \in 0 .. MaxVisits :
           Visiting(m, first, RESERVE)[i] =
             At(d, st[IF i <= Len(ents) THEN i ELSE Len(ents)])
<1> DEFINE n == Len(ents)
           N == MaxVisits
           start == CalculateNextAddr(m, <<first, 1>>, RESERVE)
           V(i) == At(d, st[IF i <= n THEN i ELSE n])
           f == [i \in 0 .. N |-> V(i)]
           Body(h) == [i \in 0 .. N |-> IF i = 0 THEN start ELSE NextHead(m)[h[i - 1]]]
           g == Visiting(m, first, RESERVE)
<1>1. N \in Nat /\ n \in 0 .. N - 1
  BY EntryCount
<1>2. start = V(0)
  <2>1. Chain(m, d) /\ d[1] = first /\ st[0] = RESERVE /\ Inside(d, st[0])
    <3>1. 0 \in 0 .. Len(ents)
      BY <1>1
    <3>2. Inside(d, st[0])
      BY <3>1, HoldsInside
    <3> QED BY <3>2 DEF Holds, Starts
  <2>2. AREA_WORDS \in Nat /\ AREA_WORDS > 0 /\ RESERVE \in Nat
    BY AreaAssumption
  <2>3. At(d, 0) = <<first, 1>>
    <3>1. Area(0) = 1 /\ Offset(0) = 1
      <4>1. 0 \in 0 .. AREA_WORDS - 1
        BY <2>2
      <4> QED BY <4>1, PosFirst
    <3> QED BY <2>1, <3>1 DEF At
  <2>4. 0 + RESERVE = RESERVE
    BY <2>2
  <2>5. CalculateNextAddr(m, At(d, 0), RESERVE) = At(d, RESERVE)
    BY <2>1, <2>2, <2>4, AdvanceOn
  <2> QED BY <1>1, <2>1, <2>3, <2>5
<1>3. \A i \in 1 .. N : NextHead(m)[V(i - 1)] = V(i)
  <2> TAKE i \in 1 .. N
  <2>1. CASE i <= n
    <3>1. i \in 1 .. n /\ i - 1 <= n
      BY <1>1, <2>1
    <3>2. NextHead(m)[At(d, st[i - 1])] = At(d, st[i])
      BY <3>1, NextHeadOn
    <3> QED BY <2>1, <3>1, <3>2
  <2>2. CASE ~(i <= n)
    <3>1. (i - 1 <= n /\ i - 1 = n) \/ ~(i - 1 <= n)
      BY <1>1, <2>2
    <3>2. V(i - 1) = At(d, st[n]) /\ V(i) = At(d, st[n])
      BY <2>2, <3>1
    <3> QED BY <3>2, NextHeadOn
  <2> QED BY <2>1, <2>2
<1> HIDE DEF start, V, n, N
<1>4. f = Body(f)
  <2>1. \A i \in 0 .. N : i # 0 => i - 1 \in 0 .. N /\ i \in 1 .. N
    BY <1>1
  <2> QED BY <1>2, <1>3, <2>1
<1>5. g = CHOOSE h : h = Body(h)
  BY Zenon DEF Visiting, start, N
<1>6. g = Body(g)
  <2> HIDE DEF Body, f, g
  <2> QED BY <1>4, <1>5
<1> DEFINE T == {j \in 0 .. N : g[j] = V(j)}
<1> HIDE DEF g
<1>7. 0 \in T
  BY <1>1, <1>2, <1>6
<1>8. ASSUME NEW i \in 0 .. N - 1, i \in T PROVE i + 1 \in T
  <2>1. i + 1 \in 1 .. N /\ i + 1 \in 0 .. N /\ (i + 1) - 1 = i /\ i + 1 # 0
    BY <1>1
  <2>2. g[i + 1] = NextHead(m)[g[i]]
    BY <1>6, <2>1
  <2> QED BY <1>3, <1>8, <2>1, <2>2
<1>9. \A i \in 0 .. N : i \in T
  <2> HIDE DEF T
  <2> QED BY <1>1, <1>7, <1>8, LoopInduction
<1>10. \A i \in 0 .. N : g[i] = V(i)
  BY <1>9
<1> QED BY <1>10 DEF g, V, n, N

\* What LogForEachEntry finds, and where it ends.
LEMMA WalkOn ==
  ASSUME NEW m, NEW first, NEW d, NEW ents, NEW st, Holds(m, first, d, ents, st)
  PROVE  /\ LogForEachEntry(m, first, RESERVE) = ents
         /\ LastReadAddr(m, first, RESERVE) = At(d, st[Len(ents)])
         /\ EndsAtFoot(m, first, RESERVE)
<1> DEFINE n == Len(ents)
           N == MaxVisits
           g == Visiting(m, first, RESERVE)
           heads == {i \in 0 .. N : IsHead(m, g[i])}
<1>1. N \in Nat /\ n \in 0 .. N - 1 /\ ents \in Seq(Entries)
  BY EntryCount DEF Holds
<1>2. \A i \in 0 .. N : g[i] = At(d, st[IF i <= n THEN i ELSE n])
  BY VisitingOn
<1> HIDE DEF g, n, N
<1>3. g[N] = At(d, st[n])
  <2>1. N \in 0 .. N /\ ~(N <= n)
    BY <1>1
  <2> QED BY <1>2, <2>1
<1>4. \A i \in 1 .. n : i - 1 \in 0 .. N /\ g[i - 1] = At(d, st[i - 1])
  <2> TAKE i \in 1 .. n
  <2>1. i - 1 \in 0 .. N /\ i - 1 <= n
    BY <1>1
  <2> QED BY <1>2, <2>1
<1>5. \A i \in 1 .. n : IsHead(m, g[i - 1]) /\ EntryAt(m)[g[i - 1]] = ents[i]
  BY <1>4, NextHeadOn DEF n
<1>6. \A i \in n .. N : ~IsHead(m, g[i])
  <2> TAKE i \in n .. N
  <2>1. i \in 0 .. N /\ (i <= n => i = n)
    BY <1>1
  <2>2. g[i] = At(d, st[n])
    BY <1>2, <2>1
  <2> QED BY <2>2, NextHeadOn DEF n
<1>7. heads = 0 .. n - 1
  <2>1. ASSUME NEW i \in 0 .. N, IsHead(m, g[i]) PROVE i \in 0 .. n - 1
    BY <1>1, <1>6, <2>1
  <2>2. ASSUME NEW i \in 0 .. n - 1 PROVE i \in 0 .. N /\ IsHead(m, g[i])
    <3>1. i + 1 \in 1 .. n /\ (i + 1) - 1 = i /\ i \in 0 .. N
      BY <1>1
    <3> QED BY <1>5, <3>1
  <2> QED BY <2>1, <2>2
<1>8. Cardinality(heads) = n
  <2>1. Cardinality(0 .. n - 1) = IF 0 > n - 1 THEN 0 ELSE (n - 1) - 0 + 1
    BY <1>1, FS_Interval
  <2> HIDE DEF heads
  <2>2. (IF 0 > n - 1 THEN 0 ELSE (n - 1) - 0 + 1) = n
    BY <1>1
  <2> QED BY <1>7, <2>1, <2>2
<1>9. LogForEachEntry(m, first, RESERVE) =
        [i \in 1 .. Cardinality(heads) |-> EntryAt(m)[g[i - 1]]]
  BY DEF LogForEachEntry, g, N
<1>10. ents = [i \in 1 .. n |-> ents[i]]
  BY <1>1 DEF n
<1>11. LogForEachEntry(m, first, RESERVE) = ents
  <2>1. [i \in 1 .. n |-> EntryAt(m)[g[i - 1]]] = [i \in 1 .. n |-> ents[i]]
    BY <1>5
  <2> HIDE DEF heads
  <2> QED BY <1>8, <1>9, <1>10, <2>1
<1>12. LastReadAddr(m, first, RESERVE) = At(d, st[n])
  BY <1>3 DEF LastReadAddr, g, N
<1>13. EndsAtFoot(m, first, RESERVE)
  BY <1>12 DEF EndsAtFoot, Holds, n
<1> QED BY <1>11, <1>12, <1>13 DEF n

-----------------------------------------------------------------------------
\* The areas of a chain.

\* Its first k areas.
Areas(d, k) == [i \in 1 .. k |-> d[i]]

\* The first areas of a chain are a chain.
LEMMA FrontFacts ==
  ASSUME NEW m, NEW d, Chain(m, d), NEW k \in 1 .. Len(d)
  PROVE  /\ Chain(m, Areas(d, k)) /\ Len(Areas(d, k)) = k /\ Areas(d, k)[1] = d[1]
         /\ \A x : Inside(Areas(d, k), x) => Inside(d, x) /\ At(Areas(d, k), x) = At(d, x)
         /\ Range(Areas(d, k)) \subseteq Range(d)
<1> DEFINE f == Areas(d, k)
<1>1. /\ d \in Seq(Pages) /\ Len(d) \in Nat /\ k \in Nat /\ DOMAIN d = 1 .. Len(d)
      /\ \A i \in 1 .. k : i \in 1 .. Len(d) /\ d[i] \in Pages
  BY DEF Chain
<1>2. f \in Seq(Pages) /\ Len(f) = k /\ DOMAIN f = 1 .. k /\ \A i \in 1 .. k : f[i] = d[i]
  BY <1>1 DEF Areas
<1> HIDE DEF f
<1>3. IsInjective(f)
  BY <1>1, <1>2 DEF Chain, IsInjective
<1>4. \A i \in 1 .. Len(f) - 1 : m[f[i]][0] = LinkWord(f[i + 1])
  <2> TAKE i \in 1 .. Len(f) - 1
  <2>1. i \in 1 .. k /\ i + 1 \in 1 .. k /\ i \in 1 .. Len(d) - 1
    BY <1>1, <1>2
  <2> QED BY <1>2, <2>1 DEF Chain
<1>5. Chain(m, f)
  BY <1>1, <1>2, <1>3, <1>4 DEF Chain
<1>6. ASSUME NEW x, Inside(f, x) PROVE Inside(d, x) /\ At(f, x) = At(d, x)
  <2>1. Area(x) \in 1 .. k
    BY <1>2, <1>5, <1>6, AtFacts
  <2>2. x \in Nat /\ Area(x) <= Len(d)
    BY <1>1, <1>6, <2>1 DEF Inside
  <2> QED BY <1>2, <2>1, <2>2 DEF Inside, At
<1>7. Range(f) \subseteq Range(d)
  BY <1>1, <1>2 DEF Range
<1>8. f[1] = d[1]
  BY <1>1, <1>2
<1> QED BY <1>2, <1>5, <1>6, <1>7, <1>8 DEF f

\* ContinousSpaceRecovery and ContinousSpaceRebuildEnd.
LEMMA FollowingOn ==
  ASSUME NEW m, NEW d, Chain(m, d), NEW x, Inside(d, x)
  PROVE  AreasUpTo(m, d[1], At(d, x)) = Range(Areas(d, Area(x)))
<1> DEFINE N == Cardinality(Pages)
           k == Area(x)
           a == At(d, x)
           V(i) == d[IF i < k THEN i + 1 ELSE k]
           f == [i \in 0 .. N |-> V(i)]
           Body(h) == [i \in 0 .. N |->
                         IF i = 0 THEN d[1]
                         ELSE IF h[i - 1] = a[1] THEN a[1] ELSE NextArea(m, h[i - 1])]
           g == Following(m, d[1], a)
<1>1. /\ k \in 1 .. Len(d) /\ a[1] = d[k] /\ Len(d) \in 1 .. N /\ N \in Nat
      /\ DOMAIN d = 1 .. Len(d)
  <2>1. d \in Seq(Pages)
    BY DEF Chain
  <2> QED BY <2>1, AtFacts, ChainLength
<1> HIDE DEF N, k, a
<1>2. \A i \in 1 .. N : V(i) = IF V(i - 1) = a[1] THEN a[1] ELSE NextArea(m, V(i - 1))
  <2> TAKE i \in 1 .. N
  <2>1. CASE i < k
    <3>1. /\ V(i - 1) = d[i] /\ V(i) = d[i + 1] /\ i \in 1 .. Len(d) - 1
          /\ i \in 1 .. Len(d)
      BY <1>1, <2>1
    <3>2. d[i] # d[k]
      BY <1>1, <2>1, <3>1 DEF Chain, IsInjective
    <3>3. NextArea(m, d[i]) = d[i + 1]
      BY <3>1, LinkFacts
    <3> HIDE DEF V
    <3> QED BY <1>1, <3>1, <3>2, <3>3
  <2>2. CASE ~(i < k)
    <3>1. V(i - 1) = d[k] /\ V(i) = d[k]
      BY <1>1, <2>2
    <3> HIDE DEF V
    <3> QED BY <1>1, <3>1
  <2> QED BY <2>1, <2>2
<1>3. V(0) = d[1]
  BY <1>1
<1> HIDE DEF V
<1>4. f = Body(f)
  <2>1. \A i \in 0 .. N : i # 0 => i - 1 \in 0 .. N /\ i \in 1 .. N
    BY <1>1
  <2> QED BY <1>2, <1>3, <2>1
<1>5. g = CHOOSE h : h = Body(h)
  BY Zenon DEF Following, N
<1>6. g = Body(g)
  <2> HIDE DEF Body, f, g
  <2> QED BY <1>4, <1>5
<1> DEFINE T == {j \in 0 .. N : g[j] = V(j)}
<1> HIDE DEF g
<1>7. 0 \in T
  BY <1>1, <1>3, <1>6
<1>8. ASSUME NEW i \in 0 .. N - 1, i \in T PROVE i + 1 \in T
  <2>1. i + 1 \in 1 .. N /\ i + 1 \in 0 .. N /\ (i + 1) - 1 = i /\ i + 1 # 0
    BY <1>1
  <2>2. g[i + 1] = IF g[i] = a[1] THEN a[1] ELSE NextArea(m, g[i])
    BY <1>6, <2>1
  <2>3. V(i + 1) = IF V(i) = a[1] THEN a[1] ELSE NextArea(m, V(i))
    BY <1>2, <2>1
  <2> QED BY <1>8, <2>1, <2>2, <2>3
<1>9. \A i \in 0 .. N : i \in T
  <2> HIDE DEF T
  <2> QED BY <1>1, <1>7, <1>8, LoopInduction
<1>10. \A i \in 0 .. N : g[i] = V(i)
  BY <1>9
<1>11. DOMAIN g = 0 .. N
  BY <1>6
<1>12. Range(g) = {V(i) : i \in 0 .. N}
  BY <1>10, <1>11 DEF Range
<1>13. Range(Areas(d, k)) = {d[i] : i \in 1 .. k}
  BY <1>1 DEF Areas, Range
<1>14. ASSUME NEW i \in 0 .. N PROVE V(i) \in {d[j] : j \in 1 .. k}
  BY <1>1 DEF V
<1>15. ASSUME NEW j \in 1 .. k PROVE \E i \in 0 .. N : d[j] = V(i)
  <2>1. j - 1 \in 0 .. N /\ d[j] = V(j - 1)
    BY <1>1 DEF V
  <2> QED BY <2>1
<1>16. {V(i) : i \in 0 .. N} = {d[j] : j \in 1 .. k}
  BY <1>14, <1>15
<1> QED BY <1>12, <1>13, <1>16 DEF AreasUpTo, g, a, k

\* The areas up to the foot hold the log as well.
LEMMA HoldsFront ==
  ASSUME NEW m, NEW first, NEW d, NEW ents, NEW st, Holds(m, first, d, ents, st)
  PROVE  /\ Area(st[Len(ents)]) \in 1 .. Len(d)
         /\ Holds(m, first, Areas(d, Area(st[Len(ents)])), ents, st)
<1> DEFINE n == Len(ents)
           k == Area(st[n])
           f == Areas(d, k)
<1>1. /\ Chain(m, d) /\ d[1] = first /\ ents \in Seq(Entries) /\ Starts(ents, st)
      /\ Inside(d, st[n])
      /\ \A i \in 1 .. n : EntryOn(m, d, st[i - 1], ents[i])
      /\ WordAt(m, At(d, st[n])) = Zero
  BY DEF Holds
<1>2. k \in 1 .. Len(d) /\ n \in Nat /\ st[n] \in Nat
  BY <1>1, AtFacts DEF Inside
<1>3. /\ Chain(m, f) /\ Len(f) = k /\ f[1] = d[1]
      /\ \A x : Inside(f, x) => At(f, x) = At(d, x)
  BY <1>1, <1>2, FrontFacts
<1>4. Inside(f, st[n])
  BY <1>2, <1>3 DEF Inside
<1> HIDE DEF f
<1>5. \A x \in 0 .. st[n] : At(f, x) = At(d, x)
  <2> TAKE x \in 0 .. st[n]
  <2>1. Inside(f, x)
    BY <1>2, <1>3, <1>4, InsideLess
  <2> QED BY <1>3, <2>1
<1>6. ASSUME NEW i \in 1 .. n PROVE EntryOn(m, f, st[i - 1], ents[i])
  <2>1. /\ Len(ents[i].data) \in Nat /\ st[i - 1] + Len(ents[i].data) < st[n]
        /\ st[i - 1] \in Nat
    <3>1. i - 1 \in 0 .. n
      BY <1>2
    <3> QED BY <1>1, <3>1, StartsFacts
  <2>2. At(f, st[i - 1]) = At(d, st[i - 1])
    BY <1>2, <1>5, <2>1
  <2>3. \A j \in 1 .. Len(ents[i].data) : At(f, st[i - 1] + j) = At(d, st[i - 1] + j)
    BY <1>2, <1>5, <2>1
  <2>4. EntryOn(m, d, st[i - 1], ents[i])
    BY <1>1
  <2> QED BY <2>2, <2>3, <2>4 DEF EntryOn, DataAt
<1>7. WordAt(m, At(f, st[n])) = Zero
  BY <1>1, <1>2, <1>5
<1>8. Holds(m, first, f, ents, st)
  BY <1>1, <1>3, <1>4, <1>6, <1>7 DEF Holds
<1> QED BY <1>2, <1>8 DEF f

\* LogRebuild.
LEMMA RebuiltOn ==
  ASSUME NEW m, NEW first, NEW d, NEW ents, NEW st, Holds(m, first, d, ents, st)
  PROVE  Rebuilt(m, first) =
           [firstArea |-> first,
            areaNum |-> Area(st[Len(ents)]),
            restSize |-> Area(st[Len(ents)]) * AREA_WORDS - st[Len(ents)],
            writeStart |-> At(d, st[Len(ents)])]
<1> DEFINE x == st[Len(ents)]
           k == Area(x)
           a == At(d, x)
<1>1. Chain(m, d) /\ d[1] = first /\ Inside(d, x)
  BY DEF Holds
<1>2. LastReadAddr(m, first, RESERVE) = a
  BY WalkOn
<1>3. AreasUpTo(m, first, a) = Range(Areas(d, k))
  BY <1>1, FollowingOn
<1>4. k \in 1 .. Len(d) /\ a[2] = Offset(x) /\ x \in Nat
  BY <1>1, AtFacts DEF Inside
<1>5. Chain(m, Areas(d, k)) /\ Len(Areas(d, k)) = k
  BY <1>1, <1>4, FrontFacts
<1>6. Cardinality(Range(Areas(d, k))) = k
  BY <1>5, ChainLength
<1>7. RestSizeOfCurrentArea(a) = k * AREA_WORDS - x
  <2>1. /\ k \in Nat \ {0} /\ Offset(x) \in 1 .. AREA_WORDS
        /\ x = (k - 1) * AREA_WORDS + Offset(x) - 1
    BY <1>4, PosFacts
  <2>2. AREA_WORDS \in Nat
    BY AreaAssumption
  <2>3. RestSizeOfCurrentArea(a) = AREA_WORDS + 1 - Offset(x)
    BY <1>4 DEF RestSizeOfCurrentArea
  <2> HIDE DEF k, x, a
  <2>4. (k - 1) * AREA_WORDS = k * AREA_WORDS - AREA_WORDS /\ k * AREA_WORDS \in Nat
    BY <2>1, <2>2
  <2> QED BY <2>1, <2>2, <2>3, <2>4
<1> HIDE DEF a, k, x
<1>8. Rebuilt(m, first) = [firstArea |-> first,
                           areaNum |-> Cardinality(AreasUpTo(m, first, a)),
                           restSize |-> RestSizeOfCurrentArea(a),
                           writeStart |-> a]
  BY <1>2 DEF Rebuilt
<1>9. Rebuilt(m, first) = [firstArea |-> first, areaNum |-> k,
                           restSize |-> k * AREA_WORDS - x, writeStart |-> a]
  BY <1>3, <1>6, <1>7, <1>8
<1> QED BY <1>9 DEF a, k, x

-----------------------------------------------------------------------------
\* Words written.

Memory == [Pages -> [0 .. AREA_WORDS -> Words]]

\* A word is written at position x.
LEMMA PutFacts ==
  ASSUME NEW m \in Memory, NEW d, Chain(m, d), NEW x, Inside(d, x), NEW w \in Words
  PROVE  /\ Put(m, At(d, x), w) \in Memory
         /\ Chain(Put(m, At(d, x), w), d)
         /\ WordAt(Put(m, At(d, x), w), At(d, x)) = w
         /\ \A y : Inside(d, y) /\ y # x =>
              WordAt(Put(m, At(d, x), w), At(d, y)) = WordAt(m, At(d, y))
<1> DEFINE a == At(d, x)
           p == d[Area(x)]
           o == Offset(x)
           m2 == Put(m, a, w)
<1>1. /\ a # Wild /\ a[1] = p /\ a[2] = o /\ p \in Pages /\ o \in 1 .. AREA_WORDS
      /\ WordAt(m, a) = m[p][o]
  BY AtFacts
<1>2. AREA_WORDS \in Nat
  BY AreaAssumption
<1>3. o \in 0 .. AREA_WORDS /\ o # 0
  BY <1>1, <1>2
<1> HIDE DEF a, p, o
<1>4. m2 = [m EXCEPT ![p][o] = w]
  BY <1>1 DEF Put
<1> HIDE DEF m2
<1>5. /\ m2 \in Memory
      /\ m2[p][o] = w
      /\ \A q \in Pages, k \in 0 .. AREA_WORDS : q # p \/ k # o => m2[q][k] = m[q][k]
  BY <1>1, <1>3, <1>4 DEF Memory
<1>6. Chain(m2, d)
  <2>1. \A i \in 1 .. Len(d) - 1 : m2[d[i]][0] = LinkWord(d[i + 1])
    <3> TAKE i \in 1 .. Len(d) - 1
    <3>1. d[i] \in Pages /\ m[d[i]][0] = LinkWord(d[i + 1])
      <4>1. d \in Seq(Pages) /\ Len(d) \in Nat
        BY DEF Chain
      <4>2. i \in 1 .. Len(d)
        BY <4>1
      <4> QED BY <4>1, <4>2 DEF Chain
    <3>2. m2[d[i]][0] = m[d[i]][0]
      BY <1>2, <1>3, <1>5, <3>1
    <3> QED BY <3>1, <3>2
  <2> QED BY <2>1 DEF Chain
<1>7. WordAt(m2, a) = w
  BY <1>1, <1>5 DEF WordAt
<1>8. ASSUME NEW y, Inside(d, y), y # x PROVE WordAt(m2, At(d, y)) = WordAt(m, At(d, y))
  <2> DEFINE b == At(d, y)
  <2>1. /\ b # Wild /\ b[1] \in Pages /\ b[2] \in 1 .. AREA_WORDS
        /\ b = <<b[1], b[2]>> /\ a = <<a[1], a[2]>>
    BY <1>8, AtFacts DEF At, a
  <2>2. b # a
    BY <1>8, AtInjective DEF a
  <2>3. b[1] # p \/ b[2] # o
    <3> HIDE DEF b
    <3> QED BY <1>1, <2>1, <2>2
  <2>4. b[2] \in 0 .. AREA_WORDS
    BY <1>2, <2>1
  <2> HIDE DEF b
  <2>5. WordAt(m2, b) = m2[b[1]][b[2]] /\ WordAt(m, b) = m[b[1]][b[2]]
    BY <2>1 DEF WordAt
  <2>6. m2[b[1]][b[2]] = m[b[1]][b[2]]
    BY <1>5, <2>1, <2>3, <2>4
  <2> QED BY <2>5, <2>6 DEF b
<1> QED BY <1>5, <1>6, <1>7, <1>8 DEF m2, a

\* What is written behind the foot leaves the log as it is.
LEMMA HoldsKept ==
  ASSUME NEW m, NEW m2, NEW first, NEW d, NEW ents, NEW st,
         Holds(m, first, d, ents, st), Chain(m2, d),
         \A x \in 0 .. st[Len(ents)] : WordAt(m2, At(d, x)) = WordAt(m, At(d, x))
  PROVE  Holds(m2, first, d, ents, st)
<1> DEFINE n == Len(ents)
<1>1. /\ ents \in Seq(Entries) /\ Starts(ents, st) /\ Inside(d, st[n])
      /\ \A i \in 1 .. n : EntryOn(m, d, st[i - 1], ents[i])
  BY DEF Holds
<1>2. n \in Nat /\ st[n] \in Nat
  BY <1>1 DEF Inside
<1>3. ASSUME NEW i \in 1 .. n PROVE EntryOn(m2, d, st[i - 1], ents[i])
  <2>1. /\ Len(ents[i].data) \in Nat /\ st[i - 1] + Len(ents[i].data) < st[n]
        /\ st[i - 1] \in Nat
    <3>1. i - 1 \in 0 .. n
      BY <1>2
    <3> QED BY <1>1, <3>1, StartsFacts
  <2>2. st[i - 1] \in 0 .. st[n]
    BY <1>2, <2>1
  <2>3. \A j \in 1 .. Len(ents[i].data) : st[i - 1] + j \in 0 .. st[n]
    BY <1>2, <2>1
  <2>4. EntryOn(m, d, st[i - 1], ents[i])
    BY <1>1
  <2> QED BY <2>2, <2>3, <2>4 DEF EntryOn, DataAt
<1>4. WordAt(m2, At(d, st[n])) = Zero
  BY <1>2 DEF Holds
<1> QED BY <1>1, <1>3, <1>4 DEF Holds

\* A word written behind the foot leaves the log as it is.
LEMMA HoldsPut ==
  ASSUME NEW m \in Memory, NEW first, NEW d, NEW ents, NEW st,
         Holds(m, first, d, ents, st), NEW x, Inside(d, x), x > st[Len(ents)],
         NEW w \in Words
  PROVE  Holds(Put(m, At(d, x), w), first, d, ents, st)
<1>1. Chain(m, d) /\ st[Len(ents)] \in Nat /\ x \in Nat
  BY DEF Holds, Inside
<1>2. /\ Chain(Put(m, At(d, x), w), d)
      /\ \A y : Inside(d, y) /\ y # x =>
           WordAt(Put(m, At(d, x), w), At(d, y)) = WordAt(m, At(d, y))
  BY <1>1, PutFacts
<1>3. \A y \in 0 .. st[Len(ents)] : Inside(d, y) /\ y # x
  BY <1>1, HoldsInside
<1> QED BY <1>2, <1>3, HoldsKept

\* A page is linked behind the last area.
LEMMA LinkedOn ==
  ASSUME NEW m \in Memory, NEW first, NEW d, NEW ents, NEW st,
         Holds(m, first, d, ents, st), NEW p \in Pages \ Range(d)
  PROVE  LET m2 == [m EXCEPT ![d[Len(d)]][0] = LinkWord(p)]
             d2 == Append(d, p)
         IN  m2 \in Memory /\ Holds(m2, first, d2, ents, st)
<1> DEFINE q == d[Len(d)]
           n == Len(d)
           m2 == [m EXCEPT ![q][0] = LinkWord(p)]
           d2 == Append(d, p)
<1>1. Chain(m, d) /\ d \in Seq(Pages) /\ n \in Nat /\ n > 0 /\ d[1] = first
  BY DEF Holds, Chain
<1>2. n \in 1 .. n /\ q \in Pages
  BY <1>1
<1>3. AREA_WORDS \in Nat /\ 0 \in 0 .. AREA_WORDS
  BY AreaAssumption
<1>4. LinkWord(p) \in Words
  BY DEF Words
<1> HIDE DEF q
<1>5. /\ m2 \in Memory
      /\ m2[q][0] = LinkWord(p)
      /\ \A r \in Pages, k \in 0 .. AREA_WORDS : r # q \/ k # 0 => m2[r][k] = m[r][k]
  BY <1>2, <1>3, <1>4 DEF Memory
<1>6. /\ d2 \in Seq(Pages) /\ Len(d2) = n + 1 /\ DOMAIN d2 = 1 .. n + 1
      /\ \A i \in 1 .. n : d2[i] = d[i]
      /\ d2[n + 1] = p
  BY <1>1
<1> HIDE DEF m2, d2, n
<1>7. \A i \in 1 .. n : d[i] # p /\ d[i] \in Pages
  BY <1>1 DEF Range, n
<1>8. \A i, j \in 1 .. n : d[i] = d[j] => i = j
  BY <1>1 DEF Chain, IsInjective, n
<1>9. IsInjective(d2)
  <2> SUFFICES ASSUME NEW i \in 1 .. n + 1, NEW j \in 1 .. n + 1, d2[i] = d2[j]
               PROVE  i = j
    BY <1>6 DEF IsInjective
  <2>1. (i \in 1 .. n \/ i = n + 1) /\ (j \in 1 .. n \/ j = n + 1)
    BY <1>1 DEF n
  <2> QED BY <1>6, <1>7, <1>8, <2>1
<1>10. \A i \in 1 .. Len(d2) - 1 : m2[d2[i]][0] = LinkWord(d2[i + 1])
  <2> TAKE i \in 1 .. Len(d2) - 1
  <2>1. i \in 1 .. n
    BY <1>1, <1>6 DEF n
  <2>2. CASE i = n
    BY <1>5, <1>6, <2>1, <2>2 DEF q, n
  <2>3. CASE i # n
    <3>1. i \in 1 .. n - 1 /\ i + 1 \in 1 .. n /\ n \in 1 .. n
      BY <1>1, <2>1, <2>3 DEF n
    <3>2. d[i] # q
      BY <1>8, <2>1, <2>3, <3>1 DEF q, n
    <3>3. m2[d[i]][0] = m[d[i]][0]
      BY <1>3, <1>5, <1>7, <2>1, <3>2
    <3>4. m[d[i]][0] = LinkWord(d[i + 1])
      BY <1>1, <3>1 DEF Chain, n
    <3> QED BY <1>6, <2>1, <3>1, <3>3, <3>4
  <2> QED BY <2>2, <2>3
<1>11. Chain(m2, d2)
  BY <1>1, <1>6, <1>9, <1>10 DEF Chain, n
<1>12. \A x : Inside(d, x) => /\ Inside(d2, x) /\ At(d2, x) = At(d, x)
                              /\ WordAt(m2, At(d2, x)) = WordAt(m, At(d, x))
  <2> TAKE x
  <2> HAVE Inside(d, x)
  <2>1. /\ Area(x) \in 1 .. n /\ d[Area(x)] \in Pages /\ Offset(x) \in 1 .. AREA_WORDS
        /\ WordAt(m, At(d, x)) = m[d[Area(x)]][Offset(x)] /\ x \in Nat
    BY <1>1, AtFacts DEF Inside, n
  <2>2. Inside(d2, x) /\ At(d2, x) = At(d, x)
    BY <1>1, <1>6, <2>1 DEF Inside, At, n
  <2>3. WordAt(m2, At(d2, x)) = m2[d2[Area(x)]][Offset(x)]
    BY <1>11, <2>2, AtFacts
  <2>4. d2[Area(x)] = d[Area(x)] /\ Offset(x) \in 0 .. AREA_WORDS /\ Offset(x) # 0
    BY <1>3, <1>6, <2>1
  <2>5. m2[d[Area(x)]][Offset(x)] = m[d[Area(x)]][Offset(x)]
    BY <1>5, <2>1, <2>4
  <2> QED BY <2>1, <2>2, <2>3, <2>4, <2>5
<1> DEFINE k == Len(ents)
<1>13. /\ ents \in Seq(Entries) /\ Starts(ents, st) /\ Inside(d, st[k])
       /\ \A i \in 1 .. k : EntryOn(m, d, st[i - 1], ents[i])
       /\ WordAt(m, At(d, st[k])) = Zero
  BY DEF Holds
<1>14. k \in Nat /\ st[k] \in Nat /\ \A x \in 0 .. st[k] : Inside(d, x)
  BY <1>13, HoldsInside DEF Inside
<1>15. ASSUME NEW i \in 1 .. k PROVE EntryOn(m2, d2, st[i - 1], ents[i])
  <2>1. /\ Len(ents[i].data) \in Nat /\ st[i - 1] + Len(ents[i].data) < st[k]
        /\ st[i - 1] \in Nat
    <3>1. i - 1 \in 0 .. k
      BY <1>14
    <3> QED BY <1>13, <3>1, StartsFacts
  <2>2. st[i - 1] \in 0 .. st[k]
    BY <1>14, <2>1
  <2>3. \A j \in 1 .. Len(ents[i].data) : st[i - 1] + j \in 0 .. st[k]
    BY <1>14, <2>1
  <2>4. EntryOn(m, d, st[i - 1], ents[i])
    BY <1>13
  <2>5. WordAt(m2, At(d2, st[i - 1])) = HeadWord(ents[i])
    BY <1>12, <1>14, <2>2, <2>4 DEF EntryOn
  <2>6. DataAt(m2, d2, st[i - 1], ents[i], Len(ents[i].data))
    BY <1>12, <1>14, <2>3, <2>4 DEF EntryOn, DataAt
  <2> QED BY <2>5, <2>6 DEF EntryOn
<1>16. Inside(d2, st[k]) /\ WordAt(m2, At(d2, st[k])) = Zero
  BY <1>12, <1>13
<1>17. d2[1] = first
  BY <1>1, <1>6 DEF n
<1>18. Holds(m2, first, d2, ents, st)
  BY <1>11, <1>13, <1>15, <1>16, <1>17 DEF Holds
<1> QED BY <1>5, <1>18 DEF m2, d2, q

\* The positions with one more entry.
More(ents, st, e) ==
  [i \in 0 .. Len(ents) + 1 |->
     IF i <= Len(ents) THEN st[i] ELSE st[Len(ents)] + Len(e.data) + 1]

\* The head makes an entry that is written, with its foot, part of the log.
LEMMA HeadCommits ==
  ASSUME NEW m \in Memory, NEW first, NEW d, NEW ents, NEW st,
         Holds(m, first, d, ents, st), NEW e \in Entries,
         Inside(d, st[Len(ents)] + Len(e.data) + 1),
         DataAt(m, d, st[Len(ents)], e, Len(e.data)),
         WordAt(m, At(d, st[Len(ents)] + Len(e.data) + 1)) = Zero
  PROVE  /\ Holds(Put(m, At(d, st[Len(ents)]), HeadWord(e)), first, d, Append(ents, e),
                  More(ents, st, e))
         /\ More(ents, st, e)[Len(ents) + 1] = st[Len(ents)] + Len(e.data) + 1
<1> DEFINE n == Len(ents)
           s == st[n]
           x == s + Len(e.data) + 1
           m2 == Put(m, At(d, s), HeadWord(e))
           ents2 == Append(ents, e)
           st2 == More(ents, st, e)
<1>1. /\ Chain(m, d) /\ d[1] = first /\ ents \in Seq(Entries) /\ Starts(ents, st)
      /\ Inside(d, s)
      /\ \A i \in 1 .. n : EntryOn(m, d, st[i - 1], ents[i])
  BY DEF Holds
<1>2. n \in Nat /\ s \in Nat /\ Len(e.data) \in Nat /\ HeadWord(e) \in Words /\ x \in Nat
  <2>1. Len(e.data) \in Nat /\ HeadWord(e) \in Words
    BY EntryFacts
  <2> QED BY <1>1, <2>1 DEF Inside
<1>3. /\ Chain(m2, d) /\ WordAt(m2, At(d, s)) = HeadWord(e)
      /\ \A y : Inside(d, y) /\ y # s => WordAt(m2, At(d, y)) = WordAt(m, At(d, y))
  BY <1>1, <1>2, PutFacts
<1>4. \A y \in 0 .. x : Inside(d, y)
  <2>1. Len(d) \in Nat
    BY <1>1 DEF Chain
  <2> QED BY <1>2, <2>1, InsideLess
<1>5. \A y \in 0 .. x : y # s => WordAt(m2, At(d, y)) = WordAt(m, At(d, y))
  BY <1>3, <1>4
<1>6. /\ ents2 \in Seq(Entries) /\ Len(ents2) = n + 1
      /\ \A i \in 1 .. n : ents2[i] = ents[i]
      /\ ents2[n + 1] = e
  BY <1>1
<1>7. /\ st \in [0 .. n -> Nat] /\ st[0] = RESERVE
      /\ \A i \in 1 .. n : st[i] = st[i - 1] + Len(ents[i].data) + 1
  BY <1>1 DEF Starts
<1>8. /\ st2 \in [0 .. n + 1 -> Nat] /\ st2[n + 1] = x
      /\ \A i \in 0 .. n : st2[i] = st[i]
  <2>1. st2 = [i \in 0 .. n + 1 |-> IF i <= n THEN st[i] ELSE x]
    BY DEF More
  <2> HIDE DEF x
  <2>2. \A i \in 0 .. n + 1 : i <= n => i \in 0 .. n
    BY <1>2
  <2>3. n + 1 \in 0 .. n + 1 /\ ~(n + 1 <= n) /\ \A i \in 0 .. n : i \in 0 .. n + 1 /\ i <= n
    BY <1>2
  <2> HIDE DEF n, st2
  <2> QED BY <1>2, <1>7, <2>1, <2>2, <2>3
<1> HIDE DEF st2, ents2, m2
<1>9. Starts(ents2, st2)
  <2>1. \A i \in 1 .. n + 1 : st2[i] = st2[i - 1] + Len(ents2[i].data) + 1
    <3> TAKE i \in 1 .. n + 1
    <3>1. CASE i = n + 1
      <4>1. i - 1 = n /\ n \in 0 .. n
        BY <1>2, <3>1
      <4> QED BY <1>6, <1>8, <3>1, <4>1
    <3>2. CASE i # n + 1
      <4>1. i \in 1 .. n /\ i \in 0 .. n /\ i - 1 \in 0 .. n
        BY <1>2, <3>2
      <4> QED BY <1>6, <1>7, <1>8, <4>1
    <3> QED BY <3>1, <3>2
  <2>2. st2[0] = RESERVE
    BY <1>2, <1>7, <1>8
  <2> QED BY <1>6, <1>8, <2>1, <2>2 DEF Starts
<1>10. ASSUME NEW i \in 1 .. n + 1 PROVE EntryOn(m2, d, st2[i - 1], ents2[i])
  <2>1. CASE i = n + 1
    <3>1. i - 1 = n /\ n \in 0 .. n
      BY <1>2, <2>1
    <3>2. st2[i - 1] = s /\ ents2[i] = e
      BY <1>6, <1>8, <2>1, <3>1
    <3>3. \A j \in 1 .. Len(e.data) : s + j \in 0 .. x /\ s + j # s
      BY <1>2
    <3>4. DataAt(m2, d, s, e, Len(e.data))
      BY <1>5, <3>3 DEF DataAt
    <3> QED BY <1>3, <3>2, <3>4 DEF EntryOn
  <2>2. CASE i # n + 1
    <3>1. i \in 1 .. n /\ i - 1 \in 0 .. n
      BY <1>2, <2>2
    <3>2. /\ Len(ents[i].data) \in Nat /\ st[i - 1] + Len(ents[i].data) < s
          /\ st[i - 1] \in Nat
      BY <1>1, <3>1, StartsFacts
    <3>3. st2[i - 1] = st[i - 1] /\ ents2[i] = ents[i]
      BY <1>6, <1>8, <3>1
    <3> DEFINE t == st[i - 1]
               l == Len(ents[i].data)
               q == Len(e.data)
    <3>8. t \in Nat /\ l \in Nat /\ q \in Nat /\ s \in Nat /\ t + l < s /\ x = s + q + 1
      BY <1>2, <3>2
    <3>9. t \in 0 .. x /\ t # s /\ \A j \in 1 .. l : t + j \in 0 .. x /\ t + j # s
      <4> HIDE DEF t, l, q, x, s
      <4> QED BY <3>8
    <3>4. st[i - 1] \in 0 .. x /\ st[i - 1] # s
      BY <3>9
    <3>5. \A j \in 1 .. Len(ents[i].data) : st[i - 1] + j \in 0 .. x /\ st[i - 1] + j # s
      BY <3>9
    <3>6. EntryOn(m, d, st[i - 1], ents[i])
      BY <1>1, <3>1
    <3>7. EntryOn(m2, d, st[i - 1], ents[i])
      <4>1. WordAt(m2, At(d, st[i - 1])) = HeadWord(ents[i])
        BY <1>5, <3>4, <3>6 DEF EntryOn
      <4>2. DataAt(m2, d, st[i - 1], ents[i], Len(ents[i].data))
        BY <1>5, <3>5, <3>6 DEF EntryOn, DataAt
      <4> QED BY <4>1, <4>2 DEF EntryOn
    <3> QED BY <3>3, <3>7
  <2> QED BY <2>1, <2>2
<1>11. WordAt(m2, At(d, x)) = Zero
  <2>1. x \in 0 .. x /\ x # s
    BY <1>2
  <2> QED BY <1>5, <2>1
<1>12. Holds(m2, first, d, ents2, st2)
  BY <1>1, <1>3, <1>6, <1>8, <1>9, <1>10, <1>11 DEF Holds
<1> QED BY <1>8, <1>12 DEF m2, ents2, st2

\* A log without entries, in one area.
LEMMA FreshOn ==
  ASSUME NEW m, NEW p \in Pages
  PROVE  /\ Chain(m, <<p>>) /\ Area(RESERVE) = 1
         /\ At(<<p>>, RESERVE) = <<p, RESERVE + 1>>
         /\ CalculateNextAddr(m, <<p, 1>>, RESERVE) = <<p, RESERVE + 1>>
         /\ m[p][RESERVE + 1] = Zero =>
              Holds(m, p, <<p>>, << >>, [i \in 0 .. 0 |-> RESERVE])
<1> DEFINE d == <<p>>
           st == [i \in 0 .. 0 |-> RESERVE]
<1>1. /\ AREA_WORDS \in Nat /\ AREA_WORDS > 0 /\ RESERVE \in 0 .. AREA_WORDS - 1
      /\ RESERVE \in Nat
  BY AreaAssumption
<1>2. Area(RESERVE) = 1 /\ Offset(RESERVE) = RESERVE + 1 /\ Area(0) = 1 /\ Offset(0) = 1
  <2>1. 0 \in 0 .. AREA_WORDS - 1
    BY <1>1
  <2> QED BY <1>1, <2>1, PosFirst
<1>3. d \in Seq(Pages) /\ Len(d) = 1 /\ d[1] = p
  OBVIOUS
<1>4. Chain(m, d)
  <2>1. IsInjective(d)
    BY <1>3 DEF IsInjective
  <2> QED BY <1>3, <2>1 DEF Chain
<1>5. Inside(d, RESERVE) /\ At(d, RESERVE) = <<p, RESERVE + 1>> /\ At(d, 0) = <<p, 1>>
  BY <1>1, <1>2, <1>3 DEF Inside, At
<1>6. CalculateNextAddr(m, At(d, 0), RESERVE) = At(d, RESERVE)
  <2>1. 0 + RESERVE = RESERVE
    BY <1>1
  <2> QED BY <1>1, <1>4, <1>5, <2>1, AdvanceOn
<1>7. ASSUME m[p][RESERVE + 1] = Zero PROVE Holds(m, p, d, << >>, st)
  <2>1. << >> \in Seq(Entries) /\ Len(<< >>) = 0 /\ 1 .. 0 = {}
    OBVIOUS
  <2>2. Starts(<< >>, st) /\ st[0] = RESERVE
    BY <1>1, <2>1 DEF Starts
  <2>3. WordAt(m, At(d, RESERVE)) = Zero
    BY <1>2, <1>3, <1>4, <1>5, <1>7, AtFacts
  <2> HIDE DEF d, st
  <2> QED BY <1>3, <1>4, <1>5, <2>1, <2>2, <2>3 DEF Holds
<1> QED BY <1>2, <1>4, <1>5, <1>6, <1>7

-----------------------------------------------------------------------------
\* Helpers for the actions.

\* UINT64 arithmetic that does not wrap.
LEMMA ModSmall ==
  ASSUME NEW x \in Int
  PROVE  /\ x % SIZE_RANGE \in 0 .. SIZE_RANGE - 1
         /\ x \in 0 .. SIZE_RANGE - 1 => x % SIZE_RANGE = x
<1>1. SIZE_RANGE \in Nat /\ SIZE_RANGE > 0
  BY AreaAssumption
<1> QED BY <1>1

\* A link is a page or none.
LEMMA NextAreaType ==
  ASSUME NEW m, NEW p
  PROVE  NextArea(m, p) \in Pages \cup {NoPage}
<1>1. CASE p # NoPage /\ m[p][0] \in {LinkWord(q) : q \in Pages}
  <2>1. PICK q \in Pages : m[p][0] = LinkWord(q)
    BY <1>1
  <2>2. LinkWord(q)[2] = q
    BY DEF LinkWord
  <2> QED BY <1>1, <2>1, <2>2 DEF NextArea
<1> QED BY <1>1 DEF NextArea

\* The areas still to be linked, or to be freed, after the first of them.
LEMMA TailOf ==
  ASSUME NEW S, NEW s \in Seq(S), s # << >>, IsInjective(s)
  PROVE  /\ Len(s) \in Nat \ {0} /\ Head(s) \in S /\ Head(s) = s[1]
         /\ Tail(s) \in Seq(S) /\ Len(Tail(s)) = Len(s) - 1 /\ IsInjective(Tail(s))
         /\ \A i \in 1 .. Len(s) - 1 : Tail(s)[i] = s[i + 1]
         /\ Head(s) \notin Range(Tail(s)) /\ Range(s) = {Head(s)} \cup Range(Tail(s))
<1> DEFINE n == Len(s)
           t == Tail(s)
<1>1. n \in Nat \ {0} /\ DOMAIN s = 1 .. n
  BY EmptySeq
<1>2. /\ s[1] \in S /\ Head(s) = s[1] /\ t \in Seq(S) /\ Len(t) = n - 1
      /\ DOMAIN t = 1 .. n - 1 /\ \A i \in 1 .. n - 1 : t[i] = s[i + 1]
  BY <1>1
<1> HIDE DEF t
<1>3. \A i, j \in 1 .. n : s[i] = s[j] => i = j
  BY <1>1 DEF IsInjective
<1> HIDE DEF n
<1>4. \A i \in 1 .. n - 1 : i + 1 \in 1 .. n /\ i + 1 # 1
  BY <1>1
<1>5. IsInjective(t)
  BY <1>1, <1>2, <1>3, <1>4 DEF IsInjective
<1>6. s[1] \notin Range(t)
  BY <1>1, <1>2, <1>3, <1>4 DEF Range
<1>7. Range(s) = {s[1]} \cup Range(t)
  <2>1. ASSUME NEW i \in 1 .. n PROVE i = 1 \/ (i - 1 \in 1 .. n - 1 /\ s[i] = t[i - 1])
    BY <1>1, <1>2
  <2>2. Range(s) = {s[i] : i \in 1 .. n} /\ Range(t) = {t[i] : i \in 1 .. n - 1}
    BY <1>1, <1>2 DEF Range
  <2>3. \A i \in 1 .. n : s[i] \in {s[1]} \cup {t[j] : j \in 1 .. n - 1}
    BY <2>1
  <2>4. \A j \in 1 .. n - 1 : t[j] \in {s[i] : i \in 1 .. n}
    BY <1>2, <1>4
  <2>5. 1 \in 1 .. n
    BY <1>1
  <2> QED BY <2>2, <2>3, <2>4, <2>5
<1> QED BY <1>1, <1>2, <1>5, <1>6, <1>7 DEF t, n

\* One element more.
LEMMA AppendRange ==
  ASSUME NEW S, NEW s \in Seq(S), NEW x \in S
  PROVE  /\ Append(s, x) \in Seq(S) /\ Len(Append(s, x)) = Len(s) + 1
         /\ Append(s, x)[Len(s) + 1] = x /\ Range(Append(s, x)) = Range(s) \cup {x}
<1> DEFINE n == Len(s)
           t == Append(s, x)
<1>1. n \in Nat /\ DOMAIN s = 1 .. n
  OBVIOUS
<1>2. /\ t \in Seq(S) /\ Len(t) = n + 1 /\ DOMAIN t = 1 .. n + 1
      /\ \A i \in 1 .. n : t[i] = s[i]
      /\ t[n + 1] = x
  BY <1>1
<1> HIDE DEF t, n
<1>3. \A i \in 1 .. n + 1 : i \in 1 .. n \/ i = n + 1
  BY <1>1
<1>4. \A i \in 1 .. n : i \in 1 .. n + 1
  BY <1>1
<1>5. Range(t) = Range(s) \cup {x}
  <2>1. n + 1 \in 1 .. n + 1
    BY <1>1
  <2> QED BY <1>1, <1>2, <1>3, <1>4, <2>1 DEF Range
<1> QED BY <1>2, <1>5 DEF t, n

\* PagesNeeded is exactly what the foot asks for.
LEMMA NeededAreas ==
  ASSUME NEW e \in Entries, NEW k \in Nat \ {0}, NEW s \in Nat, Area(s) = k,
         log.restSize = k * AREA_WORDS - s
  PROVE  /\ PagesNeeded(e) \in Nat
         /\ Area(s + Len(e.data) + 1) = k + PagesNeeded(e)
<1> DEFINE W == AREA_WORDS
           n == Len(e.data)
           rest == log.restSize
           need == n + 2
<1>1. W \in Nat /\ W > 0 /\ n \in Nat /\ k * W \in Nat
  <2>1. W \in Nat /\ W > 0
    BY AreaAssumption
  <2>2. n \in Nat
    BY EntryFacts
  <2> HIDE DEF W, n
  <2>3. k * W \in Nat
    BY <2>1
  <2> QED BY <2>1, <2>2, <2>3
<1>2. s < k * W
  BY <1>1, PosRoom
<1>3. rest = k * W - s /\ rest \in Nat
  BY <1>1, <1>2
<1>4. PagesNeeded(e) = IF rest >= need THEN 0 ELSE (need - rest + W - 1) \div W
  BY DEF PagesNeeded
<1> HIDE DEF W, n, rest
<1>5. CASE rest >= need
  <2>1. s + n + 1 \in Nat /\ s <= s + n + 1 /\ s + n + 1 < k * W
    BY <1>1, <1>3, <1>5
  <2>2. Area(s + n + 1) <= k /\ k <= Area(s + n + 1)
    BY <2>1, PosRoom, PosOrder DEF W
  <2>3. Area(s + n + 1) \in Nat
    BY <2>1, PosFacts
  <2> QED BY <1>4, <1>5, <2>2, <2>3 DEF n
<1>6. CASE rest < need
  <2> DEFINE t == need - rest - 1
             q == t \div W
             r == t % W
  <2>1. t \in Nat
    BY <1>1, <1>3, <1>6
  <2>2. q \in Nat /\ r \in 0 .. W - 1 /\ t = q * W + r
    BY <2>1, DivFacts DEF W
  <2>3. need - rest + W - 1 = t + W /\ s + n + 1 = k * W + t
    BY <1>1, <1>3
  <2> HIDE DEF t, q, r
  <2>4. (t + W) \div W = q + 1
    <3>1. t + W \in Nat /\ q + 1 \in Nat /\ t + W = (q + 1) * W + r
      BY <1>1, <2>1, <2>2
    <3> QED BY <2>2, <3>1, DivUnique DEF W
  <2>5. Area(s + n + 1) = k + q + 1
    <3>1. /\ k + q + 1 \in Nat \ {0} /\ r + 1 \in 1 .. W /\ s + n + 1 \in Nat
          /\ s + n + 1 = ((k + q + 1) - 1) * W + (r + 1) - 1
      <4>1. ((k + q + 1) - 1) * W = k * W + q * W /\ q * W \in Nat
        BY <1>1, <2>2
      <4> QED BY <1>1, <2>1, <2>2, <2>3, <4>1
    <3> QED BY <3>1, PosUnique DEF W
  <2>6. PagesNeeded(e) = q + 1
    BY <1>3, <1>1, <1>4, <1>6, <2>3, <2>4
  <2>7. k + (q + 1) = k + q + 1
    BY <2>2
  <2> QED BY <2>2, <2>5, <2>6, <2>7 DEF n
<1> QED BY <1>1, <1>3, <1>5, <1>6

-----------------------------------------------------------------------------
\* The inductive invariant.

\* Where the entry being written ends.
Foot(st) == st[Len(acked)] + Len(entry.data) + 1

\* The areas d are the log's, and no others.
Owns(d) ==
  log.firstArea = linked /\ log.areaNum = Len(d) /\ free = Pages \ Range(d)

\* LogFormat and InodeFormat: area p, which nothing finds yet.
Fresh(p) ==
  /\ log = [firstArea |-> p, areaNum |-> 1, restSize |-> AREA_WORDS - RESERVE,
            writeStart |-> <<p, RESERVE + 1>>]
  /\ free = Pages \ {p}
  /\ pc # "format" => nvm[p][RESERVE + 1] = Zero

\* Between operations.
Idle(d, st) ==
  /\ Holds(nvm, linked, d, acked, st)
  /\ Owns(d)
  /\ log.writeStart = At(d, st[Len(acked)])
  /\ Area(st[Len(acked)]) = Len(d)
  /\ ~failed => log.restSize = Len(d) * AREA_WORDS - st[Len(acked)]

\* LinkAreas: d has the areas linked so far.
Linking(d, st) ==
  /\ Holds(nvm, linked, d, acked, st)
  /\ log.firstArea = linked /\ log.areaNum = Len(d)
  /\ IsInjective(areas) /\ Range(areas) \cap Range(d) = {}
  /\ free = Pages \ (Range(d) \cup Range(areas))
  /\ entry \in Entries /\ head = At(d, st[Len(acked)]) /\ cur = d[Len(d)] /\ pos = 0
  /\ log.restSize = Len(d) * AREA_WORDS - st[Len(acked)]
  /\ Area(Foot(st)) = Len(d) + Len(areas)

\* The entry is written behind the log's end; the foot is in the last area.
Writing(d, st) ==
  /\ Owns(d)
  /\ entry \in Entries /\ head = At(d, st[Len(acked)])
  /\ log.restSize = Len(d) * AREA_WORDS - Foot(st)
  /\ Area(Foot(st)) = Len(d)

\* Before its head.
Busy(d, st) ==
  /\ Holds(nvm, linked, d, acked, st)
  /\ Writing(d, st)
  /\ pos <= Len(entry.data) /\ DataAt(nvm, d, st[Len(acked)], entry, pos)
  /\ pc = "data" => pos < Len(entry.data)
  /\ pc = "foot" => pos = IF stepped THEN 0 ELSE Len(entry.data)
  /\ pc = "head" => pos = Len(entry.data)
  /\ pc = "head" \/ (stepped /\ pc = "data") => WordAt(nvm, At(d, Foot(st))) = Zero

\* After its head, which has made it part of the log.
Returning(d, st) ==
  /\ Holds(nvm, linked, d, Append(acked, entry), st)
  /\ Writing(d, st)
  /\ st[Len(acked) + 1] = Foot(st)

\* ContinousSpaceDestroy: the areas d are still to be freed.
Leaving(d) ==
  Chain(nvm, d) /\ d[1] = cur /\ log.areaNum = Len(d) /\ free = Pages \ Range(d)

Labels == {"none", "format", "reserve", "publish", "idle", "link", "data", "foot",
           "head", "return", "destroy", "down"}

Phase ==
  /\ pc \in Labels
  /\ pc \in {"none", "format", "reserve", "publish", "destroy"} => linked = NoPage
  /\ pc \in {"idle", "link", "data", "foot", "head", "return"} => linked # NoPage
  /\ pc = "none" => free = Pages
  /\ pc \in {"format", "reserve", "publish"} => \E p \in Pages : Fresh(p)
  /\ pc = "idle" => \E d, st : Idle(d, st)
  /\ pc = "link" => \E d, st : Linking(d, st)
  /\ pc \in {"data", "foot", "head"} => \E d, st : Busy(d, st)
  /\ pc = "return" => \E d, st : Returning(d, st)
  /\ pc = "destroy" => (log.areaNum = 0 /\ free = Pages) \/ \E d : Leaving(d)
  /\ pc = "down" /\ linked # NoPage =>
       \E d, ents, st : Holds(nvm, linked, d, ents, st) /\ IsPrefix(acked, ents)

IInv == spoiled \in BOOLEAN /\ (~spoiled => TypeOK /\ Phase)

\* The invariant holds of an empty system.
LEMMA InitIInv == Init => IInv
<1> SUFFICES ASSUME Init PROVE IInv
  OBVIOUS
<1>1. SIZE_RANGE \in Nat /\ SIZE_RANGE > 0 /\ MaxOps \in Nat
  BY AreaAssumption
<1>2. Junk \in Words
  BY DEF Words
<1>3. nvm \in [Pages -> [0 .. AREA_WORDS -> Words]]
  BY <1>2 DEF Init
<1>4. /\ linked \in Pages \cup {NoPage} /\ free \subseteq Pages
      /\ entry \in Entries \cup {NoEntry} /\ areas \in Seq(Pages)
      /\ cur \in Pages \cup {NoPage} /\ pos \in Nat /\ acked \in Seq(Entries)
      /\ ops \in 0 .. MaxOps
  BY <1>1 DEF Init
<1>5. head \in Addresses /\ Wild \in Addresses
  BY DEF Init, Addresses
<1>6. log \in [firstArea : Pages \cup {NoPage}, areaNum : Nat,
               restSize : 0 .. SIZE_RANGE - 1, writeStart : Addresses]
  BY <1>1, <1>5 DEF Init, NoLog, Wild
<1>7. stepped \in BOOLEAN /\ failed \in BOOLEAN /\ spoiled \in BOOLEAN
  BY Zenon DEF Init
<1>8. TypeOK
  BY <1>3, <1>4, <1>5, <1>6, <1>7 DEF TypeOK
<1>9. Phase
  BY DEF Init, Phase, Labels
<1> QED BY <1>7, <1>8, <1>9, Zenon DEF IInv

-----------------------------------------------------------------------------
\* One lemma for each action.

Logs == [firstArea : Pages \cup {NoPage}, areaNum : Nat,
         restSize : 0 .. SIZE_RANGE - 1, writeStart : Addresses]

\* The bound on operations is kept.
LEMMA OneMoreOp ==
  ASSUME TypeOK, ops < MaxOps, ops' = ops + 1
  PROVE  ops' \in 0 .. MaxOps
<1>1. ops \in 0 .. MaxOps
  BY DEF TypeOK
<1>2. MaxOps \in Nat
  BY AreaAssumption
<1> QED BY <1>1, <1>2

\* LogFormat takes one page for the log and leaves room for the reserved data.
LEMMA LogFormatKeeps ==
  ASSUME TypeOK, Phase, NEW q \in Pages, LogFormat(q)
  PROVE  TypeOK' /\ Phase'
<1>1. /\ pc = "none" /\ pc' = "format" /\ free' = free \ {q} /\ ops < MaxOps
      /\ ops' = ops + 1 /\ failed' = FALSE
      /\ UNCHANGED <<nvm, linked, entry, stepped, areas, cur, head, pos, acked, spoiled>>
  BY DEF LogFormat, Begin
<1>2. linked = NoPage /\ free = Pages
  BY <1>1 DEF Phase
<1>3. /\ AREA_WORDS \in Nat /\ RESERVE \in 0 .. AREA_WORDS - 1 /\ SIZE_RANGE \in Nat
      /\ SIZE_RANGE > AREA_WORDS
  BY AreaAssumption
<1>4. Less(AREA_WORDS, RESERVE) = AREA_WORDS - RESERVE
      /\ AREA_WORDS - RESERVE \in 0 .. SIZE_RANGE - 1
  <2>1. AREA_WORDS - RESERVE \in 0 .. SIZE_RANGE - 1 /\ AREA_WORDS - RESERVE \in Int
    BY <1>3
  <2> QED BY <2>1, ModSmall DEF Less
<1>5. CalculateNextAddr(nvm, <<q, 1>>, RESERVE) = <<q, RESERVE + 1>>
  BY FreshOn
<1>6. log' = [firstArea |-> q, areaNum |-> 1, restSize |-> AREA_WORDS - RESERVE,
              writeStart |-> <<q, RESERVE + 1>>]
  BY <1>4, <1>5 DEF LogFormat, ContinousSpaceFormat
<1>7. log' \in Logs
  <2>1. <<q, RESERVE + 1>> \in Addresses
    BY <1>3 DEF Addresses
  <2> QED BY <1>4, <1>6, <2>1 DEF Logs
<1>8. TypeOK'
  <2>1. ops' \in 0 .. MaxOps
    BY <1>1, OneMoreOp
  <2>2. failed' \in BOOLEAN
    BY <1>1, Zenon
  <2> QED BY <1>1, <1>2, <1>7, <2>1, <2>2 DEF TypeOK, Logs
<1>9. Fresh(q)'
  BY <1>1, <1>2, <1>6 DEF Fresh
<1>10. Phase'
  BY <1>1, <1>2, <1>9 DEF Phase, Labels
<1> QED BY <1>8, <1>10

\* LogFormat writes the foot behind the reserved data.
LEMMA FormatFootKeeps ==
  ASSUME TypeOK, Phase, FormatFoot
  PROVE  TypeOK' /\ Phase'
<1>1. /\ pc = "format" /\ pc' = "reserve" /\ nvm' = Put(nvm, log.writeStart, Zero)
      /\ UNCHANGED <<linked, free, log, entry, stepped, areas, cur, head, pos, acked,
                     failed, spoiled, ops>>
  BY DEF FormatFoot, failures
<1>2. PICK p \in Pages : Fresh(p)
  BY <1>1 DEF Phase
<1>3. linked = NoPage
  BY <1>1 DEF Phase
<1> DEFINE d == <<p>>
<1>4. nvm \in Memory /\ Zero \in Words
  BY DEF TypeOK, Memory, Words
<1>5. /\ Chain(nvm, d) /\ At(d, RESERVE) = <<p, RESERVE + 1>> /\ Inside(d, RESERVE)
      /\ Area(RESERVE) = 1 /\ d[1] = p
  <2>1. Len(d) = 1 /\ d[1] = p
    OBVIOUS
  <2>2. Chain(nvm, d) /\ At(d, RESERVE) = <<p, RESERVE + 1>> /\ Area(RESERVE) = 1
    BY FreshOn
  <2>3. RESERVE \in Nat
    BY AreaAssumption
  <2> QED BY <2>1, <2>2, <2>3 DEF Inside
<1>6. nvm' = Put(nvm, At(d, RESERVE), Zero)
  BY <1>1, <1>2, <1>5 DEF Fresh
<1>7. nvm' \in Memory /\ Chain(nvm', d) /\ WordAt(nvm', At(d, RESERVE)) = Zero
  BY <1>4, <1>5, <1>6, PutFacts
<1>8. nvm'[p][RESERVE + 1] = Zero
  <2>1. WordAt(nvm', At(d, RESERVE)) = nvm'[d[Area(RESERVE)]][Offset(RESERVE)]
    BY <1>5, <1>7, AtFacts
  <2>2. Offset(RESERVE) = RESERVE + 1
    BY <1>5 DEF At
  <2> QED BY <1>5, <1>7, <2>1, <2>2
<1>9. TypeOK'
  BY <1>1, <1>7 DEF TypeOK, Memory
<1>10. Fresh(p)'
  BY <1>1, <1>2, <1>8 DEF Fresh
<1>11. Phase'
  BY <1>1, <1>3, <1>10 DEF Phase, Labels
<1> QED BY <1>9, <1>11

\* The reserved data do not touch the foot.
LEMMA ReserveKeeps ==
  ASSUME TypeOK, Phase, LogWriteReserveData
  PROVE  TypeOK' /\ Phase'
<1>1. /\ pc = "reserve" /\ pc' = "publish"
      /\ nvm' = [nvm EXCEPT ![log.firstArea] =
                  [i \in 0 .. AREA_WORDS |-> IF i \in 1 .. RESERVE
                                             THEN Reserved ELSE nvm[log.firstArea][i]]]
      /\ UNCHANGED <<linked, free, log, entry, stepped, areas, cur, head, pos, acked,
                     failed, spoiled, ops>>
  BY DEF LogWriteReserveData, failures
<1>2. PICK p \in Pages : Fresh(p)
  BY <1>1 DEF Phase
<1>3. linked = NoPage /\ log.firstArea = p /\ nvm[p][RESERVE + 1] = Zero
  BY <1>1, <1>2 DEF Phase, Fresh
<1>4. nvm \in Memory /\ Reserved \in Words
  BY DEF TypeOK, Memory, Words
<1>5. AREA_WORDS \in Nat /\ RESERVE + 1 \in 0 .. AREA_WORDS /\ RESERVE + 1 \notin 1 .. RESERVE
  BY AreaAssumption
<1>6. nvm' \in Memory
  BY <1>1, <1>3, <1>4 DEF Memory
<1>7. nvm'[p][RESERVE + 1] = Zero
  BY <1>1, <1>3, <1>4, <1>5 DEF Memory
<1>8. TypeOK'
  BY <1>1, <1>6 DEF TypeOK, Memory
<1>9. Fresh(p)'
  BY <1>1, <1>2, <1>7 DEF Fresh
<1>10. Phase'
  BY <1>1, <1>3, <1>9 DEF Phase, Labels
<1> QED BY <1>8, <1>10

\* A log that becomes visible is empty and complete.
LEMMA PublishKeeps ==
  ASSUME TypeOK, Phase, Publish
  PROVE  TypeOK' /\ Phase' /\ acked' = << >> /\ linked = NoPage /\ linked' # NoPage
<1>1. /\ pc = "publish" /\ pc' = "idle" /\ linked' = log.firstArea /\ acked' = << >>
      /\ UNCHANGED <<nvm, free, log, entry, stepped, areas, cur, head, pos,
                     failed, spoiled, ops>>
  BY DEF Publish, failures
<1>2. PICK p \in Pages : Fresh(p)
  BY <1>1 DEF Phase
<1> DEFINE d == <<p>>
           st == [i \in 0 .. 0 |-> RESERVE]
<1>3. /\ linked = NoPage /\ linked' = p /\ nvm[p][RESERVE + 1] = Zero
      /\ log = [firstArea |-> p, areaNum |-> 1, restSize |-> AREA_WORDS - RESERVE,
                writeStart |-> <<p, RESERVE + 1>>]
      /\ free = Pages \ {p}
  BY <1>1, <1>2 DEF Phase, Fresh
<1>4. p # NoPage
  BY PageAssumption
<1>5. TypeOK'
  BY <1>1, <1>3 DEF TypeOK
<1>6. /\ Holds(nvm, p, d, << >>, st) /\ At(d, RESERVE) = <<p, RESERVE + 1>>
      /\ Area(RESERVE) = 1
  BY <1>3, FreshOn
<1>7. Len(d) = 1 /\ Range(d) = {p} /\ Len(<< >>) = 0 /\ st[0] = RESERVE
  BY DEF Range
<1>8. 1 * AREA_WORDS = AREA_WORDS
  BY AreaAssumption
<1> HIDE DEF d, st
<1>9. Idle(d, st)'
  BY <1>1, <1>3, <1>6, <1>7, <1>8 DEF Idle, Owns
<1>10. Phase'
  BY <1>1, <1>3, <1>4, <1>9 DEF Phase, Labels
<1> QED BY <1>1, <1>3, <1>4, <1>5, <1>10

\* When the dentry cannot be added the destruction starts from the one area.
LEMMA PublishFailsKeeps ==
  ASSUME TypeOK, Phase, PublishFails
  PROVE  TypeOK' /\ Phase'
<1>1. /\ pc = "publish" /\ pc' = "destroy" /\ linked' = NoPage /\ cur' = log.firstArea
      /\ UNCHANGED <<nvm, free, log, entry, stepped, areas, head, pos, acked,
                     failed, spoiled, ops>>
  BY DEF PublishFails, StartDestroy, failures
<1>2. PICK p \in Pages : Fresh(p)
  BY <1>1 DEF Phase
<1> DEFINE d == <<p>>
<1>3. cur' = p /\ log.areaNum = 1 /\ free = Pages \ {p}
  BY <1>1, <1>2 DEF Fresh
<1>4. TypeOK'
  BY <1>1, <1>3 DEF TypeOK
<1>5. Chain(nvm, d) /\ Len(d) = 1 /\ Range(d) = {p} /\ d[1] = p
  <2>1. Len(d) = 1 /\ Range(d) = {p} /\ d[1] = p
    BY DEF Range
  <2> QED BY <2>1, FreshOn
<1> HIDE DEF d
<1>6. Leaving(d)'
  BY <1>1, <1>3, <1>5 DEF Leaving
<1>7. Phase'
  BY <1>1, <1>6 DEF Phase, Labels
<1> QED BY <1>4, <1>7

\* LogDestroy.
LEMMA DestroyKeeps ==
  ASSUME TypeOK, Phase, LogDestroy
  PROVE  TypeOK' /\ Phase'
<1>1. /\ pc = "idle" /\ pc' = "destroy" /\ linked' = NoPage /\ cur' = log.firstArea
      /\ ops < MaxOps /\ ops' = ops + 1
      /\ UNCHANGED <<nvm, free, log, entry, stepped, areas, head, pos, acked,
                     failed, spoiled>>
  BY DEF LogDestroy, Begin, StartDestroy, failures
<1>2. PICK d, st : Idle(d, st)
  BY <1>1 DEF Phase
<1>3. TypeOK'
  <2>1. ops' \in 0 .. MaxOps
    BY <1>1, OneMoreOp
  <2> QED BY <1>1, <2>1 DEF TypeOK
<1>4. Leaving(d)'
  BY <1>1, <1>2 DEF Leaving, Idle, Owns, Holds
<1>5. Phase'
  BY <1>1, <1>4 DEF Phase, Labels
<1> QED BY <1>3, <1>5

\* ContinousSpaceDestroy frees the area at hand and goes on along the links.
LEMMA FreeAreaKeeps ==
  ASSUME TypeOK, Phase, FreeArea
  PROVE  TypeOK' /\ Phase'
<1>1. /\ pc = "destroy" /\ pc' = pc /\ log.areaNum > 0 /\ free' = free \cup {cur}
      /\ cur' = NextArea(nvm, cur) /\ log' = [log EXCEPT !.areaNum = log.areaNum - 1]
      /\ UNCHANGED <<nvm, linked, entry, stepped, areas, head, pos, acked,
                     failed, spoiled, ops>>
  BY DEF FreeArea, failures
<1>2. PICK d : Leaving(d)
  BY <1>1 DEF Phase
<1>3. /\ Chain(nvm, d) /\ d[1] = cur /\ log.areaNum = Len(d) /\ free = Pages \ Range(d)
      /\ linked = NoPage
  BY <1>1, <1>2 DEF Leaving, Phase
<1>4. d \in Seq(Pages) /\ IsInjective(d) /\ d # << >>
  BY <1>3 DEF Chain
<1> DEFINE t == Tail(d)
<1>5. /\ Len(d) \in Nat \ {0} /\ Head(d) \in Pages /\ Head(d) = d[1]
      /\ t \in Seq(Pages) /\ Len(t) = Len(d) - 1 /\ IsInjective(t)
      /\ \A i \in 1 .. Len(d) - 1 : t[i] = d[i + 1]
      /\ Head(d) \notin Range(t) /\ Range(d) = {Head(d)} \cup Range(t)
  BY <1>4, TailOf
<1> HIDE DEF t
<1>6. cur \in Pages /\ cur' \in Pages \cup {NoPage}
  BY <1>1, <1>3, <1>5, NextAreaType
<1>7. log' \in Logs /\ log'.areaNum = Len(d) - 1
  <2>1. log \in Logs
    BY DEF TypeOK, Logs
  <2>2. Len(d) - 1 \in Nat
    BY <1>5
  <2> QED BY <1>1, <1>3, <2>1, <2>2 DEF Logs
<1>8. Range(t) \subseteq Pages
  BY <1>5 DEF Range
<1>9. free' = Pages \ Range(t)
  BY <1>1, <1>3, <1>5, <1>6, <1>8
<1>10. TypeOK'
  BY <1>1, <1>6, <1>7, <1>9 DEF TypeOK, Logs
<1>11. CASE Len(d) = 1
  <2>1. Range(t) = {}
    BY <1>5, <1>11 DEF Range
  <2>2. log'.areaNum = 0 /\ free' = Pages
    BY <1>7, <1>9, <1>11, <2>1
  <2>3. Phase'
    BY <1>1, <1>3, <2>2 DEF Phase, Labels
  <2> QED BY <1>10, <2>3
<1>12. CASE Len(d) # 1
  <2>1. 1 \in 1 .. Len(d) - 1 /\ Len(t) > 0
    BY <1>5, <1>12
  <2>2. cur' = t[1]
    BY <1>1, <1>3, <1>5, <2>1, LinkFacts
  <2>3. \A i \in 1 .. Len(t) - 1 : nvm[t[i]][0] = LinkWord(t[i + 1])
    <3> TAKE i \in 1 .. Len(t) - 1
    <3>1. /\ i \in 1 .. Len(d) - 1 /\ i + 1 \in 1 .. Len(d) - 1
          /\ t[i] = d[i + 1] /\ t[i + 1] = d[(i + 1) + 1]
      BY <1>5
    <3> QED BY <1>3, <3>1 DEF Chain
  <2>4. Chain(nvm, t)
    BY <1>5, <2>1, <2>3 DEF Chain
  <2>5. Leaving(t)'
    BY <1>1, <1>5, <1>7, <1>9, <2>2, <2>4 DEF Leaving
  <2>6. Phase'
    BY <1>1, <1>3, <2>5 DEF Phase, Labels
  <2> QED BY <1>10, <2>6
<1> QED BY <1>11, <1>12

\* A destroyed log has given all its pages back.
LEMMA DestroyedKeeps ==
  ASSUME TypeOK, Phase, Destroyed
  PROVE  TypeOK' /\ Phase'
<1>1. /\ pc = "destroy" /\ pc' = "none" /\ log.areaNum = 0 /\ log' = NoLog
      /\ UNCHANGED <<nvm, linked, free, entry, stepped, areas, cur, head, pos, acked,
                     failed, spoiled, ops>>
  BY DEF Destroyed, failures
<1>2. \A d : ~Leaving(d)
  BY <1>1 DEF Leaving, Chain
<1>3. free = Pages /\ linked = NoPage
  BY <1>1, <1>2 DEF Phase
<1>4. SIZE_RANGE \in Nat /\ SIZE_RANGE > 0
  BY AreaAssumption
<1>5. log' \in Logs
  BY <1>1, <1>4 DEF Logs, NoLog, Addresses, Wild
<1>6. TypeOK'
  BY <1>1, <1>5 DEF TypeOK, Logs
<1>7. Phase'
  BY <1>1, <1>3 DEF Phase, Labels
<1> QED BY <1>6, <1>7

-----------------------------------------------------------------------------
\* LogWrite.

\* What the invariant says of a log that holds its entries.
LEMMA HoldsFacts ==
  ASSUME NEW m, NEW first, NEW d, NEW ents, NEW st, Holds(m, first, d, ents, st)
  PROVE  /\ Chain(m, d) /\ d \in Seq(Pages) /\ Len(d) \in Nat \ {0} /\ Range(d) \subseteq Pages
         /\ ents \in Seq(Entries) /\ Len(ents) \in Nat
         /\ st[Len(ents)] \in Nat /\ Inside(d, st[Len(ents)])
         /\ Area(st[Len(ents)]) \in 1 .. Len(d) /\ d[Area(st[Len(ents)])] \in Pages
         /\ At(d, st[Len(ents)]) \in Addresses
<1>1. Chain(m, d) /\ ents \in Seq(Entries) /\ Inside(d, st[Len(ents)])
  BY DEF Holds
<1>2. d \in Seq(Pages) /\ Len(d) \in Nat \ {0} /\ Len(ents) \in Nat /\ st[Len(ents)] \in Nat
  BY <1>1 DEF Chain, Inside
<1>3. Range(d) \subseteq Pages
  BY <1>1, ChainLength
<1>4. /\ Area(st[Len(ents)]) \in 1 .. Len(d) /\ d[Area(st[Len(ents)])] \in Pages
      /\ At(d, st[Len(ents)]) \in Addresses
  BY <1>1, AtFacts
<1> QED BY <1>1, <1>2, <1>3, <1>4

\* ContinousSpaceEssureEnoughSpace takes just the areas the entry's foot needs.
LEMMA EnoughKeeps ==
  ASSUME TypeOK, Phase, NEW e \in Entries, NEW s \in BOOLEAN, EssureEnoughSpace(e, s),
         ~spoiled'
  PROVE  TypeOK' /\ Phase'
<1>1. /\ pc = "idle" /\ pc' = "link" /\ ops < MaxOps /\ ops' = ops + 1
      /\ entry' = e /\ stepped' = s /\ cur' = log.writeStart[1] /\ head' = log.writeStart
      /\ pos' = 0
      /\ UNCHANGED <<nvm, linked, log, acked, failed>>
  BY DEF EssureEnoughSpace, Begin
<1>2. ~failed /\ spoiled' = FALSE
  <2>1. spoiled' = (spoiled \/ failed)
    BY DEF EssureEnoughSpace
  <2> QED BY <2>1
<1>3. linked # NoPage
  BY <1>1 DEF Phase
<1>4. PICK d, st : Idle(d, st)
  BY <1>1 DEF Phase
<1> DEFINE n == PagesNeeded(e)
           x == st[Len(acked)]
<1>5. /\ Holds(nvm, linked, d, acked, st) /\ log.firstArea = linked /\ log.areaNum = Len(d)
      /\ free = Pages \ Range(d) /\ log.writeStart = At(d, x) /\ Area(x) = Len(d)
      /\ log.restSize = Len(d) * AREA_WORDS - x
  BY <1>2, <1>4 DEF Idle, Owns
<1>6. /\ Chain(nvm, d) /\ Len(d) \in Nat \ {0} /\ x \in Nat /\ d[Area(x)] \in Pages
      /\ At(d, x) \in Addresses
  BY <1>5, HoldsFacts
<1>7. n \in Nat /\ Area(x + Len(e.data) + 1) = Len(d) + n
  BY <1>5, <1>6, NeededAreas
<1>8. PICK ps \in [1 .. n -> free] : IsInjective(ps) /\ areas' = ps /\ free' = free \ Range(ps)
  BY DEF EssureEnoughSpace
<1> HIDE DEF n
<1>9. free \subseteq Pages
  BY DEF TypeOK
<1>10. ps \in Seq(Pages) /\ Len(ps) = n /\ Range(ps) \subseteq free
  <2>1. ps \in [1 .. n -> Pages]
    BY <1>8, <1>9
  <2>2. ps \in Seq(Pages) /\ Len(ps) = n
    BY <1>7, <2>1
  <2>3. Range(ps) \subseteq free
    BY <1>8 DEF Range
  <2> QED BY <2>2, <2>3
<1>11. cur' = d[Len(d)] /\ cur' \in Pages
  BY <1>1, <1>5, <1>6 DEF At
<1>12. TypeOK'
  <2>1. ops' \in 0 .. MaxOps
    BY <1>1, OneMoreOp
  <2>2. stepped' \in BOOLEAN /\ failed' \in BOOLEAN /\ spoiled' \in BOOLEAN
    BY <1>1, <1>2, Zenon DEF TypeOK
  <2>3. areas' \in Seq(Pages) /\ free' \subseteq Pages
    BY <1>8, <1>9, <1>10
  <2>4. head' \in Addresses /\ cur' \in Pages \cup {NoPage} /\ pos' \in Nat
    BY <1>1, <1>5, <1>6, <1>11
  <2> QED BY <1>1, <2>1, <2>2, <2>3, <2>4 DEF TypeOK
<1>13. Range(ps) \cap Range(d) = {} /\ free' = Pages \ (Range(d) \cup Range(ps))
  BY <1>5, <1>8, <1>10
<1>14. Linking(d, st)'
  <2>1. Foot(st)' = x + Len(e.data) + 1
    BY <1>1 DEF Foot
  <2> QED BY <1>1, <1>5, <1>7, <1>8, <1>10, <1>11, <1>13, <2>1 DEF Linking
<1>15. Phase'
  BY <1>1, <1>3, <1>14 DEF Phase, Labels
<1> QED BY <1>12, <1>15

\* AllocAreas fails.
LEMMA NoSpaceKeeps ==
  ASSUME TypeOK, Phase, NEW e \in Entries, NoSpace(e)
  PROVE  TypeOK' /\ Phase'
<1>1. /\ pc = "idle" /\ pc' = pc /\ ops < MaxOps /\ ops' = ops + 1 /\ failed' = TRUE
      /\ log' = [log EXCEPT !.restSize = Less(log.restSize, Len(e.data) + 1)]
      /\ UNCHANGED <<nvm, linked, free, entry, stepped, areas, cur, head, pos, acked,
                     spoiled>>
  BY DEF NoSpace, Begin
<1>2. linked # NoPage
  BY <1>1 DEF Phase
<1>3. PICK d, st : Idle(d, st)
  BY <1>1 DEF Phase
<1>4. log \in Logs
  BY DEF TypeOK, Logs
<1>5. Less(log.restSize, Len(e.data) + 1) \in 0 .. SIZE_RANGE - 1
  <2>1. Len(e.data) \in Nat
    BY EntryFacts
  <2>2. log.restSize \in Int
    BY <1>4 DEF Logs
  <2>3. log.restSize - (Len(e.data) + 1) \in Int
    BY <2>1, <2>2
  <2> QED BY <2>3, ModSmall DEF Less
<1>6. /\ log' \in Logs /\ log'.firstArea = log.firstArea /\ log'.areaNum = log.areaNum
      /\ log'.writeStart = log.writeStart
  BY <1>1, <1>4, <1>5 DEF Logs
<1>7. TypeOK'
  <2>1. ops' \in 0 .. MaxOps
    BY <1>1, OneMoreOp
  <2>2. failed' \in BOOLEAN
    BY <1>1, Zenon
  <2> QED BY <1>1, <1>6, <2>1, <2>2 DEF TypeOK, Logs
<1>8. Idle(d, st)'
  BY <1>1, <1>3, <1>6 DEF Idle, Owns
<1>9. Phase'
  BY <1>1, <1>2, <1>8 DEF Phase, Labels
<1> QED BY <1>7, <1>9

\* An iteration of LinkAreas.
LEMMA LinkAreaKeeps ==
  ASSUME TypeOK, Phase, LinkArea
  PROVE  TypeOK' /\ Phase'
<1>1. /\ pc = "link" /\ pc' = pc /\ areas # << >>
      /\ nvm' = [nvm EXCEPT ![cur][0] = LinkWord(Head(areas))]
      /\ cur' = Head(areas) /\ areas' = Tail(areas)
      /\ log' = [log EXCEPT !.areaNum = log.areaNum + 1,
                            !.restSize = (log.restSize + AREA_WORDS) % SIZE_RANGE]
      /\ UNCHANGED <<linked, free, entry, stepped, head, pos, acked, failed, spoiled, ops>>
  BY DEF LinkArea, failures
<1>2. linked # NoPage
  BY <1>1 DEF Phase
<1>3. PICK d, st : Linking(d, st)
  BY <1>1 DEF Phase
<1>0. PICK p : p = Head(areas)
  OBVIOUS
<1> DEFINE k == Len(d)
           x == st[Len(acked)]
           t == Tail(areas)
           d2 == Append(d, p)
           l == Len(entry.data)
           W == AREA_WORDS
<1>4. /\ Holds(nvm, linked, d, acked, st) /\ log.firstArea = linked /\ log.areaNum = k
      /\ IsInjective(areas) /\ Range(areas) \cap Range(d) = {}
      /\ free = Pages \ (Range(d) \cup Range(areas))
      /\ entry \in Entries /\ head = At(d, x) /\ cur = d[k] /\ pos = 0
      /\ log.restSize = k * W - x
      /\ Foot(st) = x + l + 1 /\ Area(x + l + 1) = k + Len(areas)
  BY <1>3 DEF Linking, Foot
<1>5. /\ Len(areas) \in Nat \ {0} /\ p \in Pages /\ t \in Seq(Pages)
      /\ Len(t) = Len(areas) - 1 /\ IsInjective(t)
      /\ p \notin Range(t) /\ Range(areas) = {p} \cup Range(t)
  <2>1. areas \in Seq(Pages)
    BY DEF TypeOK
  <2> QED BY <1>0, <1>1, <1>4, <2>1, TailOf
<1>6. /\ Chain(nvm, d) /\ d \in Seq(Pages) /\ k \in Nat \ {0} /\ x \in Nat
      /\ Area(x) \in 1 .. k
  BY <1>4, HoldsFacts
<1>7. l \in Nat /\ l + W + 2 < SIZE_RANGE /\ W \in Nat /\ W > 0 /\ SIZE_RANGE \in Nat
  <2>1. l \in Nat /\ l \in Sizes
    BY <1>4, EntryFacts
  <2> QED BY <2>1, AreaAssumption
<1>8. p \in Pages \ Range(d)
  BY <1>4, <1>5
<1>9. /\ d2 \in Seq(Pages) /\ Len(d2) = k + 1 /\ d2[k + 1] = p
      /\ Range(d2) = Range(d) \cup {p}
  BY <1>5, <1>6, AppendRange
<1>10. At(d2, x) = At(d, x)
  <2>1. d2[Area(x)] = d[Area(x)]
    BY <1>5, <1>6
  <2> QED BY <2>1 DEF At
<1>11. nvm' \in Memory /\ Holds(nvm', linked, d2, acked, st)
  <2>1. nvm \in Memory
    BY DEF TypeOK, Memory
  <2>2. nvm' = [nvm EXCEPT ![d[Len(d)]][0] = LinkWord(p)]
    BY <1>0, <1>1, <1>4
  <2> QED BY <1>4, <1>8, <2>1, <2>2, LinkedOn
<1> HIDE DEF t, d2
<1>12. (log.restSize + W) % SIZE_RANGE = (k + 1) * W - x
       /\ (k + 1) * W - x \in 0 .. SIZE_RANGE - 1
  <2>1. x + l + 1 \in Nat
    BY <1>6, <1>7
  <2>2. k \in Nat /\ ~(Area(x + l + 1) <= k) /\ Area(x) <= k
    BY <1>4, <1>5, <1>6
  <2>3. x < k * W /\ ~(x + l + 1 < k * W)
    BY <1>6, <2>1, <2>2, PosRoom
  <2> DEFINE kw == k * W
  <2>4. kw \in Nat /\ kw + W = (k + 1) * W
    BY <1>6, <1>7
  <2>5. log.restSize + W = (kw + W) - x
    <3> HIDE DEF kw
    <3> QED BY <1>4, <1>6, <1>7, <2>4 DEF kw
  <2>6. x < kw /\ kw <= x + l + 1
    BY <1>6, <1>7, <2>1, <2>3, <2>4
  <2>7. (kw + W) - x \in 0 .. SIZE_RANGE - 1 /\ (kw + W) - x \in Int
    <3> HIDE DEF kw, x, l, W
    <3> QED BY <1>6, <1>7, <2>4, <2>6
  <2>8. ((kw + W) - x) % SIZE_RANGE = (kw + W) - x
    BY <2>7, ModSmall
  <2> DEFINE kw1 == (k + 1) * W
  <2>9. kw + W = kw1
    BY <2>4
  <2> HIDE DEF kw, kw1
  <2>10. (log.restSize + W) % SIZE_RANGE = kw1 - x /\ kw1 - x \in 0 .. SIZE_RANGE - 1
    BY <2>5, <2>7, <2>8, <2>9, Zenon
  <2> QED BY <2>10 DEF kw1
<1>13. /\ log' \in Logs /\ log'.firstArea = linked /\ log'.areaNum = k + 1
       /\ log'.restSize = (k + 1) * W - x
  <2>1. log \in Logs /\ k + 1 \in Nat
    BY <1>6 DEF TypeOK, Logs
  <2> HIDE DEF k, x, W
  <2> DEFINE rest == (k + 1) * W - x
  <2>2. log' = [log EXCEPT !.areaNum = k + 1, !.restSize = rest] /\ rest \in 0 .. SIZE_RANGE - 1
    BY <1>1, <1>4, <1>12 DEF W
  <2> HIDE DEF rest
  <2>3. log' \in Logs /\ log'.firstArea = linked /\ log'.areaNum = k + 1 /\ log'.restSize = rest
    BY <1>4, <2>1, <2>2 DEF Logs
  <2> QED BY <2>3 DEF rest
<1>14. TypeOK'
  BY <1>0, <1>1, <1>5, <1>11, <1>13 DEF TypeOK, Logs, Memory, t
<1>15. Range(t) \cap Range(d2) = {} /\ free = Pages \ (Range(d2) \cup Range(t))
  BY <1>4, <1>5, <1>9
<1>16. k + Len(areas) = (k + 1) + Len(t)
  BY <1>5, <1>6
<1>17. Linking(d2, st)'
  <2>1. Foot(st)' = x + l + 1
    BY <1>1 DEF Foot
  <2>2. areas' = t /\ cur' = d2[k + 1]
    BY <1>0, <1>1, <1>9 DEF t
  <2> HIDE DEF k, l
  <2> QED BY <1>1, <1>4, <1>5, <1>9, <1>10, <1>11, <1>13, <1>15, <1>16, <2>1, <2>2
          DEF Linking
<1>18. Phase'
  BY <1>1, <1>2, <1>17 DEF Phase, Labels
<1> QED BY <1>14, <1>18

\* The three addresses: where the entry's words and its foot are.
LEMMA WordsOfEntry ==
  ASSUME NEW d, NEW st, Holds(nvm, linked, d, acked, st), entry \in Entries,
         head = At(d, st[Len(acked)]), Area(Foot(st)) = Len(d)
  PROVE  /\ Foot(st) \in Nat /\ Inside(d, Foot(st)) /\ Foot(st) < Len(d) * AREA_WORDS
         /\ \A j \in 1 .. Len(entry.data) + 1 :
              /\ Inside(d, st[Len(acked)] + j)
              /\ CalculateNextAddr(nvm, head, j) = At(d, st[Len(acked)] + j)
         /\ footAddr = At(d, Foot(st)) /\ footAddr \in Addresses /\ footAddr # Wild
<1> DEFINE x == st[Len(acked)]
           l == Len(entry.data)
<1>1. Chain(nvm, d) /\ Len(d) \in Nat \ {0} /\ x \in Nat /\ l \in Nat
  <2>1. l \in Nat
    BY EntryFacts
  <2> QED BY <2>1, HoldsFacts
<1>2. Foot(st) = x + (l + 1) /\ Foot(st) \in Nat
  BY <1>1 DEF Foot
<1>3. Inside(d, Foot(st))
  BY <1>1, <1>2 DEF Inside
<1>4. Foot(st) < Len(d) * AREA_WORDS
  BY <1>1, <1>2, PosRoom
<1>5. ASSUME NEW j \in 1 .. l + 1
      PROVE  Inside(d, x + j) /\ CalculateNextAddr(nvm, head, j) = At(d, x + j)
  <2>1. j \in Nat /\ x + j \in Nat /\ x + j <= Foot(st)
    BY <1>1, <1>2
  <2>2. Inside(d, x + j)
    BY <1>1, <1>3, <2>1, InsideLess
  <2> QED BY <1>1, <2>1, <2>2, AdvanceOn
<1>6. footAddr = At(d, Foot(st))
  <2>1. l + 1 \in 1 .. l + 1
    BY <1>1
  <2> QED BY <1>2, <1>5, <2>1 DEF footAddr
<1>7. At(d, Foot(st)) \in Addresses /\ At(d, Foot(st)) # Wild
  BY <1>1, <1>3, AtFacts
<1> QED BY <1>2, <1>3, <1>4, <1>5, <1>6, <1>7

\* The space counted as used is that up to the foot, which is on the chain.
LEMMA NotifyKeeps ==
  ASSUME TypeOK, Phase, NotifyUsedSpace
  PROVE  TypeOK' /\ Phase'
<1>1. /\ pc = "link" /\ areas = << >>
      /\ log' = [log EXCEPT !.restSize = Less(log.restSize, Len(entry.data) + 1)]
      /\ UNCHANGED <<nvm, linked, free, entry, stepped, areas, cur, head, pos, acked,
                     failed, spoiled, ops>>
  BY DEF NotifyUsedSpace, failures
<1>2. linked # NoPage
  BY <1>1 DEF Phase
<1>3. PICK d, st : Linking(d, st)
  BY <1>1 DEF Phase
<1> DEFINE k == Len(d)
           x == st[Len(acked)]
           l == Len(entry.data)
           W == AREA_WORDS
<1>4. /\ Holds(nvm, linked, d, acked, st) /\ log.firstArea = linked /\ log.areaNum = k
      /\ free = Pages \ (Range(d) \cup Range(areas))
      /\ entry \in Entries /\ head = At(d, x) /\ pos = 0
      /\ log.restSize = k * W - x /\ Area(Foot(st)) = k + Len(areas)
  BY <1>3 DEF Linking
<1>5. /\ k \in Nat \ {0} /\ x \in Nat /\ l \in Nat /\ entry.data \in [1 .. l -> Words]
      /\ W \in Nat /\ SIZE_RANGE \in Nat
  <2>1. l \in Nat /\ entry.data \in [1 .. l -> Words]
    BY <1>4, EntryFacts
  <2>2. W \in Nat /\ SIZE_RANGE \in Nat
    BY AreaAssumption
  <2> QED BY <1>4, <2>1, <2>2, HoldsFacts
<1>6. Area(Foot(st)) = k /\ free = Pages \ Range(d)
  <2>1. Len(areas) = 0 /\ Range(areas) = {}
    BY <1>1 DEF Range
  <2> QED BY <1>4, <1>5, <2>1
<1>7. Foot(st) < k * W /\ Foot(st) \in Nat /\ footAddr # Wild
  BY <1>4, <1>6, WordsOfEntry
<1>8. /\ pc' = (IF stepped THEN "foot" ELSE IF entry.data = << >> THEN "foot" ELSE "data")
  BY <1>7 DEF NotifyUsedSpace, DataOr
<1>9. Less(log.restSize, l + 1) = k * W - Foot(st) /\ k * W - Foot(st) \in 0 .. SIZE_RANGE - 1
  <2> DEFINE kw == k * W
             f == Foot(st)
  <2>1. kw \in Nat
    BY <1>5
  <2>2. f = x + l + 1
    BY DEF Foot
  <2>3. log.restSize \in 0 .. SIZE_RANGE - 1 /\ log.restSize = kw - x
    BY <1>4 DEF TypeOK
  <2>4. f < kw /\ f \in Nat
    BY <1>7
  <2> HIDE DEF kw, f, x, l
  <2>5. log.restSize - (l + 1) = kw - f /\ kw - f \in 0 .. SIZE_RANGE - 1 /\ kw - f \in Int
    BY <1>5, <2>1, <2>2, <2>3, <2>4
  <2>6. (kw - f) % SIZE_RANGE = kw - f
    BY <2>5, ModSmall
  <2>7. Less(log.restSize, l + 1) = kw - f
    BY <2>5, <2>6, Zenon DEF Less
  <2> QED BY <2>5, <2>7 DEF kw, f
<1>10. /\ log' \in Logs /\ log'.firstArea = linked /\ log'.areaNum = k
       /\ log'.restSize = k * W - Foot(st)
  <2>1. log \in Logs
    BY DEF TypeOK, Logs
  <2> DEFINE rest == k * W - Foot(st)
  <2>2. log' = [log EXCEPT !.restSize = rest] /\ rest \in 0 .. SIZE_RANGE - 1
    BY <1>1, <1>9
  <2> HIDE DEF rest, k
  <2>3. log' \in Logs /\ log'.firstArea = linked /\ log'.areaNum = k /\ log'.restSize = rest
    BY <1>4, <2>1, <2>2 DEF Logs
  <2> QED BY <2>3 DEF rest
<1>11. TypeOK'
  BY <1>1, <1>10 DEF TypeOK, Logs
<1>12. Foot(st)' = Foot(st)
  BY <1>1 DEF Foot
<1>13. Writing(d, st)'
  BY <1>1, <1>4, <1>6, <1>10, <1>12 DEF Writing, Owns
<1>14. l = 0 <=> entry.data = << >>
  BY <1>5
<1>15. Busy(d, st)'
  <2>1. pc' = "data" => pos' < Len(entry.data)'
    BY <1>1, <1>4, <1>5, <1>8, <1>14
  <2>2. pc' = "foot" => pos' = IF stepped' THEN 0 ELSE Len(entry.data)'
    BY <1>1, <1>4, <1>8, <1>14
  <2>3. pc' # "head" /\ ~(stepped' /\ pc' = "data")
    BY <1>1, <1>8
  <2>4. pos' <= Len(entry.data)' /\ DataAt(nvm, d, st[Len(acked)], entry, pos)'
    BY <1>1, <1>4, <1>5 DEF DataAt
  <2>5. Holds(nvm, linked, d, acked, st)'
    BY <1>1, <1>4
  <2> QED BY <1>13, <2>1, <2>2, <2>3, <2>4, <2>5 DEF Busy
<1>16. Phase'
  BY <1>1, <1>2, <1>8, <1>15 DEF Phase, Labels
<1> QED BY <1>11, <1>16

\* A word of the entry's data is written.
LEMMA WriteDataKeeps ==
  ASSUME TypeOK, Phase, WriteData
  PROVE  TypeOK' /\ Phase'
<1>1. /\ pc = "data"
      /\ nvm' = Put(nvm, CalculateNextAddr(nvm, head, pos + 1), entry.data[pos + 1])
      /\ pos' = pos + 1
      /\ pc' = (IF pos + 1 < Len(entry.data) THEN "data"
                ELSE IF stepped THEN "head" ELSE "foot")
      /\ UNCHANGED <<linked, free, log, entry, stepped, areas, cur, head, acked,
                     failed, spoiled, ops>>
  BY DEF WriteData, failures
<1>2. linked # NoPage
  BY <1>1 DEF Phase
<1>3. PICK d, st : Busy(d, st)
  BY <1>1 DEF Phase
<1> DEFINE x == st[Len(acked)]
           l == Len(entry.data)
           y == x + (pos + 1)
           w == entry.data[pos + 1]
<1>4. /\ Holds(nvm, linked, d, acked, st) /\ Writing(d, st) /\ pos < l
      /\ DataAt(nvm, d, x, entry, pos)
      /\ stepped => WordAt(nvm, At(d, Foot(st))) = Zero
  BY <1>1, <1>3 DEF Busy
<1>5. entry \in Entries /\ head = At(d, x) /\ Area(Foot(st)) = Len(d)
  BY <1>4 DEF Writing
<1>6. l \in Nat /\ entry.data \in [1 .. l -> Words] /\ x \in Nat /\ pos \in Nat /\ Chain(nvm, d)
  <2>1. l \in Nat /\ entry.data \in [1 .. l -> Words]
    BY <1>5, EntryFacts
  <2>2. pos \in Nat
    BY DEF TypeOK
  <2> QED BY <1>4, <2>1, <2>2, HoldsFacts
<1>7. pos + 1 \in 1 .. l /\ pos + 1 \in 1 .. l + 1 /\ y > x /\ y \in Nat
  BY <1>4, <1>6
<1>8. w \in Words
  BY <1>6, <1>7
<1>9. /\ Inside(d, y) /\ CalculateNextAddr(nvm, head, pos + 1) = At(d, y)
      /\ Inside(d, Foot(st))
      /\ \A j \in 1 .. l + 1 : Inside(d, x + j)
  BY <1>4, <1>5, <1>7, WordsOfEntry
<1> HIDE DEF w
<1>10. nvm' = Put(nvm, At(d, y), w)
  BY <1>1, <1>9 DEF w
<1>11. nvm \in Memory
  BY DEF TypeOK, Memory
<1>12. /\ nvm' \in Memory /\ WordAt(nvm', At(d, y)) = w
       /\ \A z : Inside(d, z) /\ z # y => WordAt(nvm', At(d, z)) = WordAt(nvm, At(d, z))
  BY <1>6, <1>8, <1>9, <1>10, <1>11, PutFacts
<1>13. Holds(nvm', linked, d, acked, st)
  BY <1>4, <1>7, <1>8, <1>9, <1>10, <1>11, HoldsPut
<1>14. TypeOK'
  <2>1. pos' \in Nat
    BY <1>1, <1>6
  <2> QED BY <1>1, <1>12, <2>1 DEF TypeOK, Memory
<1>15. DataAt(nvm', d, x, entry, pos + 1)
  <2> SUFFICES ASSUME NEW j \in 1 .. pos + 1
               PROVE  WordAt(nvm', At(d, x + j)) = entry.data[j]
    BY DEF DataAt
  <2>1. CASE j = pos + 1
    BY <1>12, <2>1 DEF w
  <2>2. CASE j # pos + 1
    <3>1. j \in 1 .. pos /\ j \in 1 .. l + 1 /\ x + j # y
      BY <1>4, <1>6, <2>2
    <3>2. WordAt(nvm', At(d, x + j)) = WordAt(nvm, At(d, x + j))
      BY <1>9, <1>12, <3>1
    <3> QED BY <1>4, <3>1, <3>2 DEF DataAt
  <2> QED BY <2>1, <2>2
<1>16. Foot(st)' = Foot(st) /\ Foot(st) # y
  <2>1. Foot(st) = x + l + 1
    BY DEF Foot
  <2> QED BY <1>1, <1>4, <1>6, <2>1 DEF Foot
<1>17. Writing(d, st)'
  BY <1>1, <1>4, <1>16 DEF Writing, Owns
<1>18. Busy(d, st)'
  <2>1. pos' <= Len(entry.data)'
    BY <1>1, <1>4, <1>6
  <2>2. pc' = "data" => pos' < Len(entry.data)'
    BY <1>1, <1>4, <1>6
  <2>3. pc' = "foot" => pos' = IF stepped' THEN 0 ELSE Len(entry.data)'
    BY <1>1, <1>4, <1>6
  <2>4. pc' = "head" => pos' = Len(entry.data)'
    BY <1>1, <1>4, <1>6
  <2>5. pc' = "head" \/ (stepped' /\ pc' = "data") => stepped
    BY <1>1
  <2>6. stepped => WordAt(nvm', At(d, Foot(st)')) = Zero
    BY <1>4, <1>9, <1>12, <1>16
  <2>7. DataAt(nvm, d, st[Len(acked)], entry, pos)'
    BY <1>1, <1>15
  <2>8. Holds(nvm, linked, d, acked, st)'
    BY <1>1, <1>13
  <2> QED BY <1>17, <2>1, <2>2, <2>3, <2>4, <2>5, <2>6, <2>7, <2>8 DEF Busy
<1>19. Phase'
  BY <1>1, <1>2, <1>18 DEF Phase, Labels
<1> QED BY <1>14, <1>19

\* The foot is written.
LEMMA WriteFootKeeps ==
  ASSUME TypeOK, Phase, WriteFoot
  PROVE  TypeOK' /\ Phase'
<1>1. /\ pc = "foot" /\ nvm' = Put(nvm, footAddr, Zero)
      /\ log' = (IF stepped THEN [log EXCEPT !.writeStart = footAddr] ELSE log)
      /\ pc' = (IF stepped /\ entry.data # << >> THEN "data" ELSE "head")
      /\ UNCHANGED <<linked, free, entry, stepped, areas, cur, head, pos, acked,
                     failed, spoiled, ops>>
  BY DEF WriteFoot, failures, DataOr
<1>2. linked # NoPage
  BY <1>1 DEF Phase
<1>3. PICK d, st : Busy(d, st)
  BY <1>1 DEF Phase
<1> DEFINE x == st[Len(acked)]
           l == Len(entry.data)
           f == Foot(st)
<1>4. /\ Holds(nvm, linked, d, acked, st) /\ Writing(d, st) /\ pos <= l
      /\ DataAt(nvm, d, x, entry, pos) /\ pos = IF stepped THEN 0 ELSE l
  BY <1>1, <1>3 DEF Busy
<1>5. entry \in Entries /\ head = At(d, x) /\ Area(f) = Len(d)
  BY <1>4 DEF Writing
<1>6. l \in Nat /\ entry.data \in [1 .. l -> Words] /\ x \in Nat /\ pos \in Nat /\ Chain(nvm, d)
  <2>1. l \in Nat /\ entry.data \in [1 .. l -> Words]
    BY <1>5, EntryFacts
  <2>2. pos \in Nat
    BY DEF TypeOK
  <2> QED BY <1>4, <2>1, <2>2, HoldsFacts
<1>7. /\ Inside(d, f) /\ footAddr = At(d, f) /\ footAddr \in Addresses
      /\ \A j \in 1 .. l + 1 : Inside(d, x + j)
  BY <1>4, <1>5, WordsOfEntry
<1>8. f = x + l + 1 /\ f > x
  <2>1. f = x + l + 1
    BY DEF Foot
  <2> HIDE DEF f
  <2> QED BY <1>6, <2>1
<1>9. nvm \in Memory /\ Zero \in Words
  BY DEF TypeOK, Memory, Words
<1> HIDE DEF f
<1>10. nvm' = Put(nvm, At(d, f), Zero)
  BY <1>1, <1>7
<1>11. /\ nvm' \in Memory /\ WordAt(nvm', At(d, f)) = Zero
       /\ \A z : Inside(d, z) /\ z # f => WordAt(nvm', At(d, z)) = WordAt(nvm, At(d, z))
  BY <1>6, <1>7, <1>9, <1>10, PutFacts
<1>12. Holds(nvm', linked, d, acked, st)
  BY <1>4, <1>7, <1>8, <1>9, <1>10, HoldsPut
<1>13. /\ log' \in Logs /\ log'.firstArea = log.firstArea /\ log'.areaNum = log.areaNum
       /\ log'.restSize = log.restSize
  <2>1. log \in Logs
    BY DEF TypeOK, Logs
  <2> QED BY <1>1, <1>7, <2>1 DEF Logs
<1>14. TypeOK'
  BY <1>1, <1>11, <1>13 DEF TypeOK, Memory, Logs
<1>15. Foot(st)' = f
  BY <1>1 DEF Foot, f
<1>16. Writing(d, st)'
  BY <1>1, <1>4, <1>13, <1>15 DEF Writing, Owns, f
<1>17. DataAt(nvm', d, x, entry, pos)
  <2> SUFFICES ASSUME NEW j \in 1 .. pos
               PROVE  WordAt(nvm', At(d, x + j)) = entry.data[j]
    BY DEF DataAt
  <2>1. j \in 1 .. l + 1 /\ x + j # f
    BY <1>4, <1>6, <1>8
  <2>2. WordAt(nvm', At(d, x + j)) = WordAt(nvm, At(d, x + j))
    BY <1>7, <1>11, <2>1
  <2> QED BY <1>4, <2>2 DEF DataAt
<1>18. l = 0 <=> entry.data = << >>
  BY <1>6
<1>19. Busy(d, st)'
  <2>1. pc' = "data" => pos' < Len(entry.data)'
    BY <1>1, <1>4, <1>6, <1>18
  <2>2. pc' # "foot"
    BY <1>1
  <2>3. pc' = "head" => pos' = Len(entry.data)'
    BY <1>1, <1>4, <1>18
  <2>4. WordAt(nvm', At(d, Foot(st)')) = Zero
    BY <1>11, <1>15
  <2>5. pos' <= Len(entry.data)' /\ DataAt(nvm, d, st[Len(acked)], entry, pos)'
    BY <1>1, <1>4, <1>17
  <2>6. Holds(nvm, linked, d, acked, st)'
    BY <1>1, <1>12
  <2> QED BY <1>16, <2>1, <2>2, <2>3, <2>4, <2>5, <2>6 DEF Busy
<1>20. Phase'
  BY <1>1, <1>2, <1>19 DEF Phase, Labels
<1> QED BY <1>14, <1>20

\* The head: the entry is part of the log from this word on.
LEMMA WriteHeadKeeps ==
  ASSUME TypeOK, Phase, WriteHead
  PROVE  TypeOK' /\ Phase'
<1>1. /\ pc = "head" /\ pc' = "return" /\ nvm' = Put(nvm, head, HeadWord(entry))
      /\ UNCHANGED <<linked, free, log, entry, stepped, areas, cur, head, pos, acked,
                     failed, spoiled, ops>>
  BY DEF WriteHead, failures
<1>2. linked # NoPage
  BY <1>1 DEF Phase
<1>3. PICK d, st : Busy(d, st)
  BY <1>1 DEF Phase
<1>4. PICK n : n = Len(acked)
  OBVIOUS
<1> DEFINE x == st[n]
           l == Len(entry.data)
<1>5. /\ Holds(nvm, linked, d, acked, st) /\ Writing(d, st) /\ pos = l
      /\ DataAt(nvm, d, x, entry, l) /\ WordAt(nvm, At(d, Foot(st))) = Zero
  BY <1>1, <1>3, <1>4 DEF Busy
<1>6. /\ entry \in Entries /\ head = At(d, x) /\ Area(Foot(st)) = Len(d)
      /\ Foot(st) = x + l + 1
  BY <1>4, <1>5 DEF Writing, Foot
<1>7. x \in Nat /\ n \in Nat /\ Chain(nvm, d) /\ Inside(d, x) /\ Inside(d, Foot(st))
  <2>1. x \in Nat /\ n \in Nat /\ Chain(nvm, d) /\ Inside(d, x)
    BY <1>4, <1>5, HoldsFacts
  <2> QED BY <1>4, <1>5, <1>6, <2>1, WordsOfEntry
<1>8. nvm \in Memory /\ HeadWord(entry) \in Words
  BY <1>6, EntryFacts DEF TypeOK, Memory
<1>9. PICK st2 : st2 = More(acked, st, entry)
  OBVIOUS
<1>10. /\ Holds(nvm', linked, d, Append(acked, entry), st2) /\ st2[n + 1] = Foot(st)
  BY <1>1, <1>4, <1>5, <1>6, <1>7, <1>8, <1>9, HeadCommits
<1>11. st2[n] = x
  <2>1. n \in 0 .. n + 1 /\ n <= n
    BY <1>7
  <2> QED BY <1>4, <1>9, <2>1 DEF More
<1>12. Foot(st2) = Foot(st)
  BY <1>4, <1>11 DEF Foot
<1>13. nvm' \in Memory
  BY <1>1, <1>6, <1>7, <1>8, PutFacts
<1>14. TypeOK'
  BY <1>1, <1>13 DEF TypeOK, Memory
<1>15. Foot(st2)' = Foot(st2)
  BY <1>1 DEF Foot
<1>16. Writing(d, st2)
  BY <1>4, <1>5, <1>11, <1>12 DEF Writing
<1>17. Returning(d, st2)'
  <2>1. Writing(d, st2)'
    BY <1>1, <1>15, <1>16 DEF Writing, Owns
  <2>2. Holds(nvm, linked, d, Append(acked, entry), st2)'
    BY <1>1, <1>10
  <2>3. st2[Len(acked') + 1] = Foot(st2)'
    BY <1>1, <1>4, <1>10, <1>12, <1>15
  <2> QED BY <2>1, <2>2, <2>3 DEF Returning
<1>18. Phase'
  BY <1>1, <1>2, <1>17 DEF Phase, Labels
<1> QED BY <1>14, <1>18

\* LogWrite returns: the next entry goes where the foot is.
LEMMA ReturnKeeps ==
  ASSUME TypeOK, Phase, Return
  PROVE  TypeOK' /\ Phase'
<1>1. /\ pc = "return" /\ pc' = "idle" /\ log' = [log EXCEPT !.writeStart = footAddr]
      /\ acked' = Append(acked, entry)
      /\ UNCHANGED <<nvm, linked, free, entry, stepped, areas, cur, head, pos,
                     failed, spoiled, ops>>
  BY DEF Return, failures
<1>2. linked # NoPage
  BY <1>1 DEF Phase
<1>3. PICK d, st : Returning(d, st)
  BY <1>1 DEF Phase
<1> DEFINE x == st[Len(acked)]
           l == Len(entry.data)
<1>4. /\ Holds(nvm, linked, d, acked', st) /\ Owns(d) /\ entry \in Entries
      /\ head = At(d, x) /\ log.restSize = Len(d) * AREA_WORDS - Foot(st)
      /\ Area(Foot(st)) = Len(d) /\ st[Len(acked) + 1] = Foot(st) /\ Foot(st) = x + l + 1
  BY <1>1, <1>3 DEF Returning, Writing, Foot
<1>5. /\ acked \in Seq(Entries) /\ Len(acked) \in Nat /\ acked' \in Seq(Entries)
      /\ Len(acked') = Len(acked) + 1
  <2>1. acked \in Seq(Entries) /\ Len(acked) \in Nat
    BY DEF TypeOK
  <2> QED BY <1>1, <1>4, <2>1
<1>6. /\ Chain(nvm, d) /\ Inside(d, Foot(st)) /\ At(d, Foot(st)) \in Addresses
  BY <1>4, <1>5, HoldsFacts
<1>7. x \in Nat /\ l \in Nat
  <2>1. Len(acked) \in 0 .. Len(acked')
    BY <1>5
  <2>2. x \in Nat
    BY <1>4, <2>1, HoldsInside
  <2> QED BY <1>4, <2>2, EntryFacts
<1>8. footAddr = At(d, Foot(st))
  <2>1. Foot(st) = x + (l + 1) /\ l + 1 \in Nat
    BY <1>4, <1>7
  <2> QED BY <1>4, <1>6, <1>7, <2>1, AdvanceOn DEF footAddr
<1>9. /\ log' \in Logs /\ log'.firstArea = log.firstArea /\ log'.areaNum = log.areaNum
      /\ log'.restSize = log.restSize /\ log'.writeStart = At(d, Foot(st))
  <2>1. log \in Logs
    BY DEF TypeOK, Logs
  <2> QED BY <1>1, <1>6, <1>8, <2>1 DEF Logs
<1>10. TypeOK'
  BY <1>1, <1>5, <1>9 DEF TypeOK, Logs
<1>11. st[Len(acked')] = Foot(st)
  BY <1>4, <1>5
<1>12. Idle(d, st)'
  <2>1. Owns(d)'
    BY <1>1, <1>4, <1>9 DEF Owns
  <2>2. Holds(nvm, linked, d, acked, st)'
    BY <1>1, <1>4
  <2>3. log'.restSize = Len(d) * AREA_WORDS - st[Len(acked')]
    BY <1>4, <1>9, <1>11
  <2> QED BY <1>4, <1>9, <1>11, <2>1, <2>2, <2>3 DEF Idle
<1>13. Phase'
  BY <1>1, <1>2, <1>12 DEF Phase, Labels
<1> QED BY <1>10, <1>13

-----------------------------------------------------------------------------
\* LogRebuild, crashes and restarts.

\* What LogRebuild makes of a log that fills its areas.
LEMMA RebuiltFacts ==
  ASSUME NEW m, NEW first, NEW d, NEW ents, NEW st, Holds(m, first, d, ents, st),
         Area(st[Len(ents)]) = Len(d)
  PROVE  /\ Rebuilt(m, first) \in Logs
         /\ Rebuilt(m, first) =
              [firstArea |-> first, areaNum |-> Len(d),
               restSize |-> Len(d) * AREA_WORDS - st[Len(ents)],
               writeStart |-> At(d, st[Len(ents)])]
<1> DEFINE k == Len(d)
           x == st[Len(ents)]
           W == AREA_WORDS
<1>1. /\ Chain(m, d) /\ d \in Seq(Pages) /\ k \in Nat \ {0} /\ x \in Nat
      /\ At(d, x) \in Addresses
  BY HoldsFacts
<1>2. Rebuilt(m, first) = [firstArea |-> first, areaNum |-> k, restSize |-> k * W - x,
                           writeStart |-> At(d, x)]
  BY RebuiltOn
<1>3. W \in Nat /\ W > 0 /\ SIZE_RANGE \in Nat /\ SIZE_RANGE > W + 1
  BY AreaAssumption
<1>4. first \in Pages
  <2>1. 1 \in 1 .. k /\ d[1] = first
    BY <1>1 DEF Holds
  <2> QED BY <1>1, <2>1
<1>5. k * W - x \in 0 .. SIZE_RANGE - 1
  <2> DEFINE o == Offset(x)
             kw == k * W
  <2>1. o \in 1 .. W /\ x = (k - 1) * W + o - 1
    BY <1>1, PosFacts
  <2>2. kw \in Nat /\ (k - 1) * W = kw - W
    BY <1>1, <1>3
  <2> HIDE DEF o, kw
  <2>3. x = (kw - W) + (o - 1)
    <3> HIDE DEF k, x, W
    <3>1. (k - 1) * W \in Int
      BY <1>3, <2>2
    <3> QED BY <1>3, <2>1, <2>2, <3>1
  <2>4. kw - x \in 0 .. SIZE_RANGE - 1
    BY <1>1, <1>3, <2>1, <2>2, <2>3
  <2> QED BY <2>4 DEF kw
<1> HIDE DEF k, x, W
<1>6. k \in Nat
  BY <1>1
<1> DEFINE rest == k * W - x
<1>7. rest \in 0 .. SIZE_RANGE - 1
  BY <1>5
<1> HIDE DEF rest
<1>8. [firstArea |-> first, areaNum |-> k, restSize |-> rest, writeStart |-> At(d, x)] \in Logs
  BY <1>1, <1>4, <1>6, <1>7 DEF Logs
<1> QED BY <1>2, <1>8 DEF rest, k, x, W

\* LogRebuild makes the log that was in memory.
LEMMA ReloadKeeps ==
  ASSUME TypeOK, Phase, Reload
  PROVE  TypeOK' /\ Phase'
<1>1. /\ pc = "idle" /\ ops < MaxOps /\ ops' = ops + 1 /\ failed' = FALSE
      /\ log' = Rebuilt(nvm, linked)
      /\ UNCHANGED <<nvm, linked, free, entry, stepped, areas, cur, head, pos, acked,
                     spoiled>>
  BY DEF Reload, Begin
<1>2. linked # NoPage
  BY <1>1 DEF Phase
<1>3. PICK d, st : Idle(d, st)
  BY <1>1 DEF Phase
<1>4. /\ Holds(nvm, linked, d, acked, st) /\ Area(st[Len(acked)]) = Len(d)
      /\ free = Pages \ Range(d)
  BY <1>3 DEF Idle, Owns
<1>5. /\ log' \in Logs
      /\ log' = [firstArea |-> linked, areaNum |-> Len(d),
                 restSize |-> Len(d) * AREA_WORDS - st[Len(acked)],
                 writeStart |-> At(d, st[Len(acked)])]
  BY <1>1, <1>4, RebuiltFacts
<1>6. pc' = "idle"
  BY <1>4, WalkOn DEF Reload
<1>7. TypeOK'
  <2>1. ops' \in 0 .. MaxOps
    BY <1>1, OneMoreOp
  <2>2. failed' \in BOOLEAN
    BY <1>1, Zenon
  <2> QED BY <1>1, <1>5, <2>1, <2>2 DEF TypeOK, Logs
<1>8. Idle(d, st)'
  BY <1>1, <1>4, <1>5 DEF Idle, Owns
<1>9. Phase'
  BY <1>1, <1>2, <1>6, <1>8 DEF Phase, Labels
<1> QED BY <1>7, <1>9

\* A sequence is a prefix of itself, and of itself with one element more.
LEMMA PrefixFacts ==
  ASSUME NEW S, NEW s \in Seq(S), NEW x \in S
  PROVE  IsPrefix(s, s) /\ IsPrefix(s, Append(s, x))
<1>1. Len(s) \in Nat /\ Len(Append(s, x)) = Len(s) + 1
  OBVIOUS
<1>2. \A i \in 1 .. Len(s) : Append(s, x)[i] = s[i]
  OBVIOUS
<1>3. SubSeq(s, 1, Len(s)) = SubSeq(Append(s, x), 1, Len(s))
  <2>1. SubSeq(s, 1, Len(s)) = [i \in 1 .. Len(s) |-> s[i]]
    BY <1>1
  <2>2. SubSeq(Append(s, x), 1, Len(s)) = [i \in 1 .. Len(s) |-> Append(s, x)[i]]
    BY <1>1
  <2> QED BY <1>2, <2>1, <2>2
<1> QED BY <1>1, <1>3 DEF IsPrefix

\* The entries a log holds on NVM while it is linked: those whose write returned
\* and, once its head is written, the one being written.
Found == IF pc = "return" THEN Append(acked, entry) ELSE acked

\* A linked log holds the entries Found.
LEMMA FoundFacts ==
  ASSUME TypeOK, Phase, linked # NoPage, pc # "down"
  PROVE  /\ \E d, st : Holds(nvm, linked, d, Found, st)
         /\ IsPrefix(acked, Found)
<1>1. pc \in {"idle", "link", "data", "foot", "head", "return"}
  BY DEF Phase, Labels
<1>2. acked \in Seq(Entries)
  BY DEF TypeOK
<1>3. CASE pc = "return"
  <2>1. PICK d, st : Returning(d, st)
    BY <1>3 DEF Phase
  <2>2. Holds(nvm, linked, d, Found, st) /\ entry \in Entries
    BY <1>3, <2>1 DEF Returning, Writing, Found
  <2>3. IsPrefix(acked, Found)
    BY <1>2, <1>3, <2>2, PrefixFacts DEF Found
  <2> QED BY <2>2, <2>3
<1>4. CASE pc # "return"
  <2>1. \E d, st : Holds(nvm, linked, d, acked, st)
    <3>1. CASE pc = "idle"
      BY <3>1 DEF Phase, Idle
    <3>2. CASE pc = "link"
      BY <3>2 DEF Phase, Linking
    <3>3. CASE pc \in {"data", "foot", "head"}
      BY <3>3 DEF Phase, Busy
    <3> QED BY <1>1, <1>4, <3>1, <3>2, <3>3
  <2>2. IsPrefix(acked, acked)
    BY <1>2 DEF IsPrefix
  <2> QED BY <1>4, <2>1, <2>2 DEF Found
<1> QED BY <1>3, <1>4

\* After a crash the log on NVM still holds every entry whose write returned.
LEMMA CrashKeeps ==
  ASSUME TypeOK, Phase, Crash
  PROVE  TypeOK' /\ Phase'
<1>1. /\ pc # "down" /\ pc' = "down" /\ ops < MaxOps /\ ops' = ops + 1 /\ free' = {}
      /\ log' = NoLog /\ entry' = NoEntry /\ areas' = << >> /\ cur' = NoPage
      /\ head' = Wild /\ pos' = 0
      /\ UNCHANGED <<nvm, linked, acked, failed, spoiled>>
  BY DEF Crash, failures
<1>2. stepped' \in BOOLEAN
  BY Zenon DEF Crash
<1>3. SIZE_RANGE \in Nat /\ SIZE_RANGE > 0
  BY AreaAssumption
<1>4. log' \in Logs /\ head' \in Addresses
  BY <1>1, <1>3 DEF Logs, NoLog, Addresses, Wild
<1>5. TypeOK'
  <2>1. ops' \in 0 .. MaxOps
    BY <1>1, OneMoreOp
  <2>2. /\ entry' \in Entries \cup {NoEntry} /\ areas' \in Seq(Pages)
        /\ cur' \in Pages \cup {NoPage} /\ pos' \in Nat /\ free' \subseteq Pages
    BY <1>1
  <2> QED BY <1>1, <1>2, <1>4, <2>1, <2>2 DEF TypeOK, Logs
<1>6. linked' # NoPage =>
        \E d, ents, st : Holds(nvm', linked', d, ents, st) /\ IsPrefix(acked', ents)
  BY <1>1, FoundFacts
<1>7. Phase'
  BY <1>1, <1>6 DEF Phase, Labels
<1> QED BY <1>5, <1>7

\* A restart with the reserve size the log was formatted with.
LEMMA RestartKeeps ==
  ASSUME TypeOK, Phase, Restart(RESERVE)
  PROVE  TypeOK' /\ Phase'
<1>1. /\ pc = "down" /\ failed' = FALSE
      /\ UNCHANGED <<nvm, linked, entry, stepped, areas, cur, head, pos, spoiled, ops>>
  BY DEF Restart
<1>2. failed' \in BOOLEAN
  BY <1>1, Zenon
<1>3. CASE linked = NoPage
  <2>1. free' = Pages /\ pc' = "none" /\ UNCHANGED <<log, acked>>
    BY <1>3 DEF Restart
  <2>2. TypeOK'
    BY <1>1, <1>2, <2>1 DEF TypeOK
  <2>3. Phase'
    BY <1>1, <1>3, <2>1 DEF Phase, Labels
  <2> QED BY <2>2, <2>3
<1>4. CASE linked # NoPage
  <2>1. PICK d, ents, st : Holds(nvm, linked, d, ents, st)
    BY <1>1, <1>4 DEF Phase
  <2> DEFINE x == st[Len(ents)]
             f == Areas(d, Area(x))
  <2>2. /\ LogForEachEntry(nvm, linked, RESERVE) = ents
        /\ LastReadAddr(nvm, linked, RESERVE) = At(d, x)
        /\ EndsAtFoot(nvm, linked, RESERVE)
    BY <2>1, WalkOn
  <2>3. /\ Chain(nvm, d) /\ Inside(d, x) /\ d[1] = linked /\ ents \in Seq(Entries)
    BY <2>1 DEF Holds
  <2>4. Area(x) \in 1 .. Len(d) /\ Holds(nvm, linked, f, ents, st)
    BY <2>1, HoldsFront
  <2>5. Len(f) = Area(x)
    BY <2>3, <2>4, FrontFacts
  <2> HIDE DEF f
  <2>6. /\ Rebuilt(nvm, linked) \in Logs
        /\ Rebuilt(nvm, linked) = [firstArea |-> linked, areaNum |-> Len(f),
                                   restSize |-> Len(f) * AREA_WORDS - x,
                                   writeStart |-> At(f, x)]
    BY <2>4, <2>5, RebuiltFacts
  <2>7. AreasUpTo(nvm, linked, At(d, x)) = Range(f)
    BY <2>3, FollowingOn DEF f
  <2>8. /\ free' = Pages \ Range(f) /\ log' = Rebuilt(nvm, linked) /\ acked' = ents
        /\ pc' = "idle"
    BY <1>4, <2>2, <2>7 DEF Restart, ContinousSpaceRecovery
  <2>9. TypeOK'
    BY <1>1, <1>2, <2>3, <2>6, <2>8 DEF TypeOK, Logs
  <2>10. Idle(f, st)'
    BY <1>1, <2>4, <2>5, <2>6, <2>8 DEF Idle, Owns
  <2>11. Phase'
    BY <1>1, <1>4, <2>8, <2>10 DEF Phase, Labels
  <2> QED BY <2>9, <2>11
<1> QED BY <1>3, <1>4

-----------------------------------------------------------------------------
\* The invariant is inductive.

\* LogRecovery finds in reserveSize the value the log was formatted with.
RecoveryKnowsReserve == RecoveryReserves \subseteq {RESERVE}

\* Once void, the promise stays void.
LEMMA SpoiledStays ==
  ASSUME spoiled \in BOOLEAN, [Next]_vars
  PROVE  spoiled' \in BOOLEAN /\ (spoiled => spoiled')
<1>1. CASE \E e \in Entries, s \in BOOLEAN : EssureEnoughSpace(e, s)
  <2>1. spoiled' = (spoiled \/ failed)
    BY <1>1 DEF EssureEnoughSpace
  <2> QED BY <2>1, Zenon
<1>2. CASE UNCHANGED vars
  BY <1>2, Zenon DEF vars
<1>3. CASE Next /\ ~(\E e \in Entries, s \in BOOLEAN : EssureEnoughSpace(e, s))
  <2>1. spoiled' = spoiled
    BY <1>3 DEF Next, LogFormat, NoSpace, Format, FormatFoot, LogWriteReserveData, Publish,
                PublishFails, StartDestroy, Write, NotifyUsedSpace, LinkArea, WriteData,
                WriteFoot, WriteHead, Return, Destroy, LogDestroy, FreeArea, Destroyed,
                Reload, Crash, Restart, failures
  <2> QED BY <2>1
<1> QED BY <1>1, <1>2, <1>3

\* Every step, of a log that was not written to after a failed write.
LEMMA PhaseStep ==
  ASSUME RecoveryKnowsReserve, TypeOK, Phase, Next, ~spoiled'
  PROVE  TypeOK' /\ Phase'
<1>1. ASSUME NEW p \in Pages, LogFormat(p) PROVE TypeOK' /\ Phase'
  BY <1>1, LogFormatKeeps
<1>2. ASSUME NEW e \in Entries, NEW s \in BOOLEAN, EssureEnoughSpace(e, s)
      PROVE  TypeOK' /\ Phase'
  BY <1>2, EnoughKeeps
<1>3. ASSUME NEW e \in Entries, NoSpace(e) PROVE TypeOK' /\ Phase'
  BY <1>3, NoSpaceKeeps
<1>4. CASE Format
  BY <1>4, FormatFootKeeps, ReserveKeeps, PublishKeeps, PublishFailsKeeps DEF Format
<1>5. CASE Write
  BY <1>5, NotifyKeeps, LinkAreaKeeps, WriteDataKeeps, WriteFootKeeps, WriteHeadKeeps,
     ReturnKeeps DEF Write
<1>6. CASE Destroy
  BY <1>6, DestroyKeeps, FreeAreaKeeps, DestroyedKeeps DEF Destroy
<1>7. CASE Reload
  BY <1>7, ReloadKeeps
<1>8. CASE Crash
  BY <1>8, CrashKeeps
<1>9. ASSUME NEW r \in RecoveryReserves, Restart(r) PROVE TypeOK' /\ Phase'
  <2>1. r = RESERVE
    BY DEF RecoveryKnowsReserve
  <2> QED BY <1>9, <2>1, RestartKeeps
<1> QED BY <1>1, <1>2, <1>3, <1>4, <1>5, <1>6, <1>7, <1>8, <1>9 DEF Next

\* IInv is inductive.
LEMMA NextIInv ==
  ASSUME RecoveryKnowsReserve, IInv, [Next]_vars
  PROVE  IInv'
<1>1. spoiled' \in BOOLEAN /\ (spoiled => spoiled')
  BY SpoiledStays DEF IInv
<1>2. ASSUME ~spoiled' PROVE TypeOK' /\ Phase'
  <2>1. TypeOK /\ Phase
    BY <1>1, <1>2 DEF IInv
  <2>2. CASE Next
    BY <1>2, <2>1, <2>2, PhaseStep
  <2>3. CASE UNCHANGED vars
    <3>1. TypeOK'
      BY <2>1, <2>3 DEF TypeOK, vars
    <3>2. Phase'
      BY <2>1, <2>3 DEF Phase, vars, Fresh, Idle, Owns, Linking, Busy, Writing, Returning,
                        Leaving, Foot, Labels
    <3> QED BY <3>1, <3>2
  <2> QED BY <2>2, <2>3
<1> QED BY <1>1, <1>2, Zenon DEF IInv

\* IInv holds in every reachable state of the log, for any number of pages,
\* any area size and any entry sizes that fit in a UINT32.
THEOREM Invariance == ASSUME RecoveryKnowsReserve PROVE Spec => []IInv
<1>1. Init => IInv
  BY InitIInv
<1>2. IInv /\ [Next]_vars => IInv'
  BY NextIInv
<1> QED BY <1>1, <1>2, PTL DEF Spec

-----------------------------------------------------------------------------
\* The properties of the runs.

\* What a walk finds is what the log holds.
LEMMA CommittedOn ==
  ASSUME linked # NoPage, NEW d, NEW ents, NEW st, Holds(nvm, linked, d, ents, st)
  PROVE  committed = ents
<1>1. /\ LogForEachEntry(nvm, linked, RESERVE) = ents /\ EndsAtFoot(nvm, linked, RESERVE)
  BY WalkOn
<1>2. ents \in Seq(Entries)
  BY DEF Holds
<1>3. committed = ents \o << >>
  BY <1>1 DEF committed
<1> QED BY <1>2, <1>3

\* What a walk finds in each phase.
LEMMA CommittedIs ==
  ASSUME TypeOK, Phase
  PROVE  /\ linked = NoPage => committed = << >>
         /\ linked # NoPage /\ pc # "down" => committed = Found
         /\ linked # NoPage => IsPrefix(acked, committed)
<1>1. linked = NoPage => committed = << >>
  BY DEF committed
<1>2. ASSUME linked # NoPage, pc # "down"
      PROVE  committed = Found /\ IsPrefix(acked, committed)
  BY <1>2, FoundFacts, CommittedOn
<1>3. ASSUME linked # NoPage, pc = "down" PROVE IsPrefix(acked, committed)
  BY <1>3, CommittedOn DEF Phase
<1> QED BY <1>1, <1>2, <1>3

\* The words, addresses and counts of a log stay in their ranges, and the
\* walks of ContinousSpace.c never follow a word that is not a link.
THEOREM LogSafe == ASSUME RecoveryKnowsReserve PROVE Spec => []LogInv
<1>1. IInv => LogInv
  BY DEF IInv, LogInv, Phase, Labels
<1> QED BY <1>1, Invariance, PTL

\* No entry whose LogWrite or LogStepWriteEnd returned is lost by a crash, a
\* failed write or a reload, and an idle log holds nothing else.
THEOREM AckedSafe == ASSUME RecoveryKnowsReserve PROVE Spec => []AckedSurvive
<1>1. IInv => AckedSurvive
  <2> SUFFICES ASSUME IInv, linked # NoPage, ~spoiled
               PROVE  IsPrefix(acked, committed) /\ (pc = "idle" => committed = acked)
    BY DEF AckedSurvive
  <2>1. TypeOK /\ Phase
    BY DEF IInv
  <2>2. pc = "idle" => Found = acked
    BY DEF Found
  <2> QED BY <2>1, <2>2, CommittedIs
<1> QED BY <1>1, Invariance, PTL

\* LogIsSame: between operations the log in memory (restSize and areaNum
\* included) is the one LogRebuild would make, until a write fails.
THEOREM RebuiltSafe == ASSUME RecoveryKnowsReserve PROVE Spec => []SameAsRebuilt
<1>1. IInv => SameAsRebuilt
  <2> SUFFICES ASSUME IInv, pc = "idle", ~failed, ~spoiled
               PROVE  log = Rebuilt(nvm, linked)
    BY DEF SameAsRebuilt
  <2>1. TypeOK /\ Phase
    BY DEF IInv
  <2>2. PICK d, st : Idle(d, st)
    BY <2>1 DEF Phase
  <2> DEFINE rest == Len(d) * AREA_WORDS - st[Len(acked)]
             end == At(d, st[Len(acked)])
  <2>3. /\ log.firstArea = linked /\ log.areaNum = Len(d) /\ log.restSize = rest
        /\ log.writeStart = end
    BY <2>2 DEF Idle, Owns
  <2>4. Rebuilt(nvm, linked) = [firstArea |-> linked, areaNum |-> Len(d),
                                restSize |-> rest, writeStart |-> end]
    BY <2>2, RebuiltFacts DEF Idle
  <2> HIDE DEF rest, end
  <2>5. log \in Logs
    BY <2>1 DEF TypeOK, Logs
  <2> QED BY <2>3, <2>4, <2>5 DEF Logs
<1> QED BY <1>1, Invariance, PTL

\* LogDestroy and LogRecovery neither leak nor share a page: an idle log owns
\* exactly its chain, and after LogDestroy the pool has every page back.
THEOREM AreasSafe == ASSUME RecoveryKnowsReserve PROVE Spec => []AreasOwned
<1>1. IInv => AreasOwned
  <2> SUFFICES ASSUME IInv, ~spoiled PROVE AreasOwned
    BY DEF AreasOwned
  <2>1. TypeOK /\ Phase
    BY DEF IInv
  <2>2. pc = "none" => free = Pages
    BY <2>1 DEF Phase
  <2>3. ASSUME pc = "idle"
        PROVE  /\ Pages \ free = AreasUpTo(nvm, linked, log.writeStart)
               /\ Cardinality(AreasUpTo(nvm, linked, log.writeStart)) = log.areaNum
    <3>1. PICK d, st : Idle(d, st)
      BY <2>1, <2>3 DEF Phase
    <3> DEFINE x == st[Len(acked)]
    <3>2. /\ Holds(nvm, linked, d, acked, st) /\ log.areaNum = Len(d)
          /\ free = Pages \ Range(d) /\ log.writeStart = At(d, x) /\ Area(x) = Len(d)
      BY <3>1 DEF Idle, Owns
    <3>3. Chain(nvm, d) /\ d[1] = linked /\ Inside(d, x) /\ d \in Seq(Pages)
      BY <3>2 DEF Holds, Chain
    <3>4. Cardinality(Range(d)) = Len(d) /\ Range(d) \subseteq Pages
      BY <3>3, ChainLength
    <3>5. Areas(d, Len(d)) = d
      BY <3>3 DEF Areas
    <3>6. AreasUpTo(nvm, linked, log.writeStart) = Range(d)
      BY <3>2, <3>3, <3>5, FollowingOn
    <3> QED BY <3>2, <3>4, <3>6
  <2> QED BY <2>2, <2>3 DEF AreasOwned
<1> QED BY <1>1, Invariance, PTL

-----------------------------------------------------------------------------
\* The log implements CommittedLog.

\* A step that leaves NVM and the dentry alone changes nothing that was committed.
LEMMA SameNvm ==
  ASSUME UNCHANGED <<nvm, linked>>
  PROVE  committed' = committed
<1> QED BY DEF committed, EndsAtFoot

\* What each step does to the entries found on NVM.
LEMMA CommittedStep ==
  ASSUME TypeOK, Phase, TypeOK', Phase', Next
  PROVE  \/ UNCHANGED <<linked, committed>>
         \/ linked = NoPage /\ linked' # NoPage /\ committed' = << >>
         \/ linked # NoPage /\ linked' = NoPage /\ committed' = << >>
         \/ /\ linked # NoPage /\ linked' = linked /\ entry \in Entries
            /\ committed \in Seq(Entries) /\ committed' = Append(committed, entry)
<1>1. CASE UNCHANGED <<nvm, linked>>
  BY <1>1, SameNvm
<1>2. CASE FormatFoot \/ LogWriteReserveData
  <2>1. linked = NoPage /\ linked' = linked
    BY <1>2 DEF FormatFoot, LogWriteReserveData, Phase
  <2>2. committed = << >> /\ committed' = << >>
    BY <2>1 DEF committed
  <2> QED BY <2>1, <2>2
<1>3. CASE Publish
  <2>1. linked = NoPage /\ linked' # NoPage /\ acked' = << >> /\ pc' = "idle"
    BY <1>3, PublishKeeps DEF Publish
  <2>2. committed' = Found'
    <3>1. (linked # NoPage /\ pc # "down" => committed = Found)'
      BY CommittedIs, PTL
    <3> QED BY <2>1, <3>1
  <2>3. Found' = acked'
    BY <2>1 DEF Found
  <2> QED BY <2>1, <2>2, <2>3
<1>4. CASE PublishFails \/ LogDestroy
  <2>1. linked' = NoPage
    BY <1>4 DEF PublishFails, LogDestroy, StartDestroy
  <2>2. committed' = << >>
    BY <2>1 DEF committed
  <2>3. linked = NoPage => committed = << >>
    BY DEF committed
  <2> QED BY <2>1, <2>2, <2>3
<1>5. CASE LinkArea \/ WriteData \/ WriteFoot
  <2>1. /\ pc \in {"link", "data", "foot"} /\ pc' \in {"link", "data", "foot", "head"}
        /\ UNCHANGED <<linked, acked>>
    BY <1>5 DEF LinkArea, WriteData, WriteFoot, DataOr
  <2>2. linked # NoPage
    BY <2>1 DEF Phase
  <2>3. committed = acked
    BY <2>1, <2>2, CommittedIs DEF Found
  <2>4. committed' = acked'
    <3>1. (linked # NoPage /\ pc # "down" => committed = Found)'
      BY CommittedIs, PTL
    <3> QED BY <2>1, <2>2, <3>1 DEF Found
  <2> QED BY <2>1, <2>3, <2>4
<1>6. CASE WriteHead
  <2>1. pc = "head" /\ pc' = "return" /\ UNCHANGED <<linked, acked, entry>>
    BY <1>6 DEF WriteHead
  <2>2. linked # NoPage
    BY <2>1 DEF Phase
  <2>3. PICK d, st : Busy(d, st)
    BY <2>1 DEF Phase
  <2>4. entry \in Entries /\ acked \in Seq(Entries)
    BY <2>3 DEF Busy, Writing, TypeOK
  <2>5. committed = acked
    BY <2>1, <2>2, CommittedIs DEF Found
  <2>6. committed' = Append(acked, entry)
    <3>1. (linked # NoPage /\ pc # "down" => committed = Found)'
      BY CommittedIs, PTL
    <3> QED BY <2>1, <2>2, <3>1 DEF Found
  <2> QED BY <2>1, <2>2, <2>4, <2>5, <2>6
<1>7. UNCHANGED <<nvm, linked>> \/ FormatFoot \/ LogWriteReserveData \/ Publish
      \/ PublishFails \/ LogDestroy \/ LinkArea \/ WriteData \/ WriteFoot \/ WriteHead
  BY DEF Next, LogFormat, EssureEnoughSpace, NoSpace, Format, Write, NotifyUsedSpace, Return,
         Destroy, FreeArea, Destroyed, Reload, Crash, Restart
<1> QED BY <1>1, <1>2, <1>3, <1>4, <1>5, <1>6, <1>7

\* The log implements CommittedLog: whatever step runs, fails or crashes, what
\* a walk finds on NVM changes only by one whole entry that is appended.
THEOREM LogRefines == ASSUME RecoveryKnowsReserve PROVE Spec => OnlyWholeEntries
<1>1. Init => Abstract!Init
  BY DEF Init, Abstract!Init, committed
<1>2. IInv /\ IInv' /\ [Next]_vars => [Abstract!Next]_<<linked # NoPage, committed, spoiled>>
  <2> SUFFICES ASSUME IInv, IInv', [Next]_vars
               PROVE  [Abstract!Next]_<<linked # NoPage, committed, spoiled>>
    OBVIOUS
  <2>1. spoiled \in BOOLEAN /\ spoiled' \in BOOLEAN /\ (spoiled => spoiled')
    BY SpoiledStays DEF IInv
  <2>2. CASE spoiled'
    BY <2>1, <2>2, Zenon DEF Abstract!Next
  <2>3. CASE ~spoiled' /\ UNCHANGED vars
    <3>1. UNCHANGED <<nvm, linked, spoiled>>
      BY <2>3 DEF vars
    <3> QED BY <3>1, SameNvm
  <2>4. CASE ~spoiled' /\ Next
    <3>1. TypeOK /\ Phase /\ TypeOK' /\ Phase' /\ spoiled' = spoiled
      BY <2>1, <2>4, Zenon DEF IInv
    <3>2. CASE UNCHANGED <<linked, committed>>
      BY <3>1, <3>2
    <3>3. CASE linked = NoPage /\ linked' # NoPage /\ committed' = << >>
      BY <3>1, <3>3 DEF Abstract!Next, Abstract!Create
    <3>4. CASE linked # NoPage /\ linked' = NoPage /\ committed' = << >>
      BY <3>1, <3>4 DEF Abstract!Next, Abstract!Destroy
    <3>5. CASE /\ linked # NoPage /\ linked' = linked /\ entry \in Entries
               /\ committed \in Seq(Entries) /\ committed' = Append(committed, entry)
      <4>1. /\ Len(committed') = Len(committed) + 1 /\ IsPrefix(committed, committed')
            /\ Last(committed') \in Entries
        BY <3>5, PrefixFacts DEF Last
      <4>2. Abstract!Commit
        BY <3>5, <4>1 DEF Abstract!Commit, Abstract!IsPrefix, Abstract!Last, IsPrefix, Last
      <4> QED BY <3>1, <4>2 DEF Abstract!Next
    <3> QED BY <2>4, <3>1, <3>2, <3>3, <3>4, <3>5, CommittedStep
  <2> QED BY <2>2, <2>3, <2>4
<1> QED BY <1>1, <1>2, Invariance, PTL DEF Spec, OnlyWholeEntries, Abstract!Spec
=============================================================================
