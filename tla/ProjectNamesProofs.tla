------------------------- MODULE ProjectNamesProofs -------------------------
(***************************************************************************)
(* What get_instance_name() and the functions that read a name back        *)
(* guarantee for names of any length, and with it the invariants of        *)
(* ProjectNames.  Induction over the characters of a name comes from the   *)
(* least element of a set of numbers.                                      *)
(***************************************************************************)
EXTENDS ProjectNames, IdMapProofs, SequenceTheorems, FunctionTheorems, FiniteSetTheorems,
        WellFoundedInduction, TLAPS

-----------------------------------------------------------------------------
(* Numbers *)

\* A set of naturals that is not empty has a least element.
LEMMA LeastElement ==
  ASSUME NEW S \in SUBSET Nat, S # {}
  PROVE  \E m \in S : \A k \in S : m <= k
<1> DEFINE R == OpToRel(<, Nat)
<1>1. IsWellFoundedOn(R, Nat)
  BY NatLessThanWellFounded
<1>2. \A i, j \in Nat : i < j => <<i, j>> \in R
  BY DEF OpToRel
<1> HIDE DEF R
<1>3. PICK m \in S : \A k \in S : <<k, m>> \notin R
  BY <1>1, WFMin
<1>4. \A k \in S : ~(k < m)
  BY <1>2, <1>3
<1> QED  BY <1>4

\* What contains 0 and the successor of what it contains, contains every number.
LEMMA NatIn ==
  ASSUME NEW S, 0 \in S, \A n \in Nat : n \in S => n + 1 \in S
  PROVE  Nat \subseteq S
<1> SUFFICES ASSUME Nat \ S # {} PROVE FALSE
  OBVIOUS
<1>1. PICK m \in Nat \ S : \A k \in Nat \ S : m <= k
  BY LeastElement
<1>2. m # 0 /\ m - 1 \in Nat
  BY <1>1
<1>3. m - 1 \in S
  BY <1>1, <1>2
<1>4. (m - 1) + 1 \in S
  BY <1>2, <1>3
<1> QED  BY <1>1, <1>4

\* The least number of a set is one of it.
LEMMA MinIsLeast ==
  ASSUME NEW S \in SUBSET Nat, S # {}
  PROVE  Min(S) \in S /\ \A k \in S : Min(S) <= k
<1>1. \E m \in S : \A k \in S : m <= k
  BY LeastElement
<1> QED  BY <1>1 DEF Min

\* So is the greatest number of a set that has a bound.
LEMMA MaxIsGreatest ==
  ASSUME NEW S \in SUBSET Nat, S # {}, NEW b \in Nat, \A k \in S : k <= b
  PROVE  Max(S) \in S /\ \A k \in S : Max(S) >= k
<1> DEFINE T == {b - k : k \in S}
<1>1. T \in SUBSET Nat /\ T # {}
  <2>1. \A k \in S : b - k \in Nat
    OBVIOUS
  <2> QED  BY <2>1
<1>2. PICK t \in T : \A u \in T : t <= u
  BY <1>1, LeastElement
<1>3. PICK m \in S : t = b - m
  OBVIOUS
<1>4. \A k \in S : m >= k
  <2> TAKE k \in S
  <2>1. b - m <= b - k
    BY <1>2, <1>3
  <2> QED  BY <2>1
<1> HIDE DEF T
<1> QED  BY <1>4 DEF Max

\* The smaller of two numbers.
LEMMA MinOfTwo ==
  ASSUME NEW a \in Nat, NEW b \in Nat
  PROVE  Min({a, b}) = IF a <= b THEN a ELSE b
<1>1. {a, b} \in SUBSET Nat /\ {a, b} # {}
  OBVIOUS
<1> DEFINE m == Min({a, b})
<1>2. m \in {a, b} /\ \A k \in {a, b} : m <= k
  BY <1>1, MinIsLeast
<1> HIDE DEF m
<1>3. m = IF a <= b THEN a ELSE b
  BY <1>2
<1> QED  BY <1>3 DEF m

-----------------------------------------------------------------------------
(* The characters that remain *)

\* What is kept of the first k characters, by what is kept of those before.
KeptStep(g, text, k) ==
  IF k = 0 THEN <<>>
  ELSE IF text[k] = "." THEN g[k - 1] ELSE Append(g[k - 1], text[k])

\* The function that ValidChars() speaks of exists.
LEMMA KeptExists ==
  ASSUME NEW S, NEW text \in Seq(S)
  PROVE  \E g : g = [k \in 0 .. Len(text) |-> KeptStep(g, text, k)]
<1> DEFINE N == {n \in Nat : n <= Len(text) => \E g : g = [k \in 0 .. n |-> KeptStep(g, text, k)]}
<1>0. Len(text) \in Nat
  OBVIOUS
<1>1. 0 \in N
  <2> DEFINE g == [k \in 0 .. 0 |-> <<>>]
  <2>1. g = [k \in 0 .. 0 |-> KeptStep(g, text, k)]
    BY DEF KeptStep
  <2> QED  BY <2>1
<1>2. ASSUME NEW n \in N, n + 1 <= Len(text)
      PROVE  n + 1 \in N
  <2>1. PICK g : g = [k \in 0 .. n |-> KeptStep(g, text, k)]
    BY <1>0, <1>2
  <2> DEFINE h == [k \in 0 .. n + 1 |-> IF k <= n THEN g[k] ELSE KeptStep(g, text, n + 1)]
  <2>2. \A k \in 0 .. n + 1 : h[k] = KeptStep(h, text, k)
    <3> TAKE k \in 0 .. n + 1
    <3>1. CASE k = 0
      BY <3>1, <2>1 DEF KeptStep
    <3>2. CASE k # 0
      <4>1. k - 1 \in 0 .. n /\ h[k - 1] = g[k - 1]
        BY <3>2
      <4>2. KeptStep(h, text, k) = KeptStep(g, text, k)
        BY <4>1, <3>2 DEF KeptStep
      <4>3. CASE k <= n
        <5>1. g[k] = KeptStep(g, text, k)
          BY <2>1, <4>3
        <5> QED  BY <5>1, <4>2, <4>3
      <4>4. CASE k = n + 1
        BY <4>4, <4>2
      <4> QED  BY <4>3, <4>4
    <3> QED  BY <3>1, <3>2
  <2>3. h = [k \in 0 .. n + 1 |-> KeptStep(h, text, k)]
    BY <2>2
  <2> HIDE DEF h
  <2> QED  BY <2>3
<1>3. Nat \subseteq N
  <2>1. \A n \in Nat : n \in N => n + 1 \in N
    BY <1>2, <1>0
  <2> HIDE DEF N
  <2> QED  BY <1>1, <2>1, NatIn
<1> QED  BY <1>3, <1>0

\* ValidChars() is its value for all characters.
LEMMA KeptIs ==
  ASSUME NEW S, NEW text \in Seq(S)
  PROVE  \E g : /\ g = [k \in 0 .. Len(text) |-> KeptStep(g, text, k)]
                /\ ValidChars(text) = g[Len(text)]
<1> DEFINE g == CHOOSE g : g = [k \in 0 .. Len(text) |->
                  IF k = 0 THEN <<>>
                  ELSE IF text[k] = "." THEN g[k - 1] ELSE Append(g[k - 1], text[k])]
<1>1. ValidChars(text) = g[Len(text)]
  BY DEF ValidChars
<1>2. g = [k \in 0 .. Len(text) |-> KeptStep(g, text, k)]
  BY KeptExists DEF KeptStep
<1> QED  BY <1>1, <1>2

ValidClass == Chars \ {"."}

\* Only letters, digits and hyphens remain.
LEMMA ValidCharsType ==
  ASSUME NEW text \in Seq(Chars)
  PROVE  ValidChars(text) \in Seq(ValidClass)
<1>1. PICK g : /\ g = [k \in 0 .. Len(text) |-> KeptStep(g, text, k)]
               /\ ValidChars(text) = g[Len(text)]
  BY KeptIs
<1>0. Len(text) \in Nat
  OBVIOUS
<1> DEFINE N == {n \in Nat : n <= Len(text) => g[n] \in Seq(ValidClass)}
<1>2. \A n \in 0 .. Len(text) : g[n] = KeptStep(g, text, n)
  BY <1>1
<1>3. 0 \in N
  <2>1. g[0] = <<>>
    BY <1>2, <1>0 DEF KeptStep
  <2>2. g[0] \in Seq(ValidClass)
    BY <2>1
  <2> QED  BY <2>2
<1>4. ASSUME NEW n \in Nat, n \in N PROVE n + 1 \in N
  <2> SUFFICES ASSUME n + 1 <= Len(text) PROVE g[n + 1] \in Seq(ValidClass)
    OBVIOUS
  <2>1. g[n] \in Seq(ValidClass)
    BY <1>4, <1>0
  <2>2. g[n + 1] = IF text[n + 1] = "." THEN g[n] ELSE Append(g[n], text[n + 1])
    BY <1>2, <1>0 DEF KeptStep
  <2>3. text[n + 1] \in Chars
    BY <1>0
  <2>4. text[n + 1] # "." => text[n + 1] \in ValidClass
    BY <2>3 DEF ValidClass
  <2> QED  BY <2>1, <2>2, <2>4, AppendProperties
<1>5. Nat \subseteq N
  <2> HIDE DEF N
  <2> QED  BY <1>3, <1>4, NatIn
<1> QED  BY <1>5, <1>0, <1>1

\* Of a name that has nothing else, all remain.
LEMMA ValidCharsSame ==
  ASSUME NEW text \in Seq(ValidClass)
  PROVE  ValidChars(text) = text
<1>1. PICK g : /\ g = [k \in 0 .. Len(text) |-> KeptStep(g, text, k)]
               /\ ValidChars(text) = g[Len(text)]
  BY KeptIs
<1>0. Len(text) \in Nat
  OBVIOUS
<1> DEFINE N == {n \in Nat : n <= Len(text) => g[n] = SubSeq(text, 1, n)}
<1>2. \A n \in 0 .. Len(text) : g[n] = KeptStep(g, text, n)
  BY <1>1
<1>3. 0 \in N
  <2>1. g[0] = <<>>
    BY <1>2, <1>0 DEF KeptStep
  <2>2. SubSeq(text, 1, 0) = <<>>
    BY SubSeqEmpty
  <2>3. g[0] = SubSeq(text, 1, 0)
    BY <2>1, <2>2
  <2> QED  BY <2>3
<1>4. ASSUME NEW n \in Nat, n \in N PROVE n + 1 \in N
  <2> SUFFICES ASSUME n + 1 <= Len(text) PROVE g[n + 1] = SubSeq(text, 1, n + 1)
    OBVIOUS
  <2>1. g[n] = SubSeq(text, 1, n)
    BY <1>4, <1>0
  <2>2. g[n + 1] = IF text[n + 1] = "." THEN g[n] ELSE Append(g[n], text[n + 1])
    BY <1>2, <1>0 DEF KeptStep
  <2>3. text[n + 1] \in ValidClass
    BY <1>0
  <2>4. g[n + 1] = Append(SubSeq(text, 1, n), text[n + 1])
    BY <2>1, <2>2, <2>3 DEF ValidClass
  <2> QED  BY <2>4, <1>0
<1>5. Nat \subseteq N
  <2> HIDE DEF N
  <2> QED  BY <1>3, <1>4, NatIn
<1>6. g[Len(text)] = SubSeq(text, 1, Len(text))
  BY <1>5, <1>0
<1> QED  BY <1>1, <1>6

-----------------------------------------------------------------------------
(* get_instance_name *)

\* Letters, digits and hyphens after a letter.
Begins(t) == t \in Seq(ValidClass) /\ t # <<>> /\ t[1] \in LetterClass

\* What trimming leaves begins at a letter and ends where no hyphen is.
LEMMA TrimLeaves ==
  ASSUME NEW text \in Seq(ValidClass), NEW hashed \in BOOLEAN, Trim(text, hashed) # <<>>
  PROVE  LET t == Trim(text, hashed)
         IN  Begins(t) /\ (hashed \/ t[Len(t)] # "-")
<1> DEFINE starts == {i \in DOMAIN text : text[i] \in LetterClass}
           ends == {i \in DOMAIN text : hashed \/ text[i] # "-"}
           a == Min(starts)
           b == Max(ends)
<1>0. Len(text) \in Nat /\ DOMAIN text = 1 .. Len(text)
  OBVIOUS
<1>1. starts # {} /\ Trim(text, hashed) = SubSeq(text, a, b)
  BY DEF Trim
<1>2. a \in starts
  <2>1. starts \in SUBSET Nat
    BY <1>0
  <2> HIDE DEF starts
  <2> QED  BY <2>1, <1>1, MinIsLeast
<1>3. a \in ends
  <2>1. a \in DOMAIN text /\ text[a] \in LetterClass
    BY <1>2
  <2>2. text[a] # "-"
    BY <2>1 DEF LetterClass
  <2> HIDE DEF a
  <2> QED  BY <2>1, <2>2
<1>4. b \in ends /\ b >= a
  <2>1. ends \in SUBSET Nat /\ ends # {} /\ \A k \in ends : k <= Len(text)
    BY <1>0, <1>3
  <2> HIDE DEF ends
  <2>2. Max(ends) \in ends /\ \A k \in ends : Max(ends) >= k
    BY <2>1, <1>0, MaxIsGreatest
  <2> HIDE DEF a
  <2> QED  BY <2>2, <1>3
<1>5. /\ a \in 1 .. Len(text) /\ text[a] \in LetterClass
      /\ b \in 1 .. Len(text) /\ (hashed \/ text[b] # "-") /\ a <= b
  BY <1>0, <1>2, <1>4
<1> HIDE DEF a, b
<1> DEFINE t == SubSeq(text, a, b)
<1>6. /\ t \in Seq(ValidClass) /\ Len(t) = b - a + 1
      /\ t[1] = text[a] /\ t[Len(t)] = text[b]
  <2>1. \A i \in a .. b : text[i] \in ValidClass
    BY <1>0, <1>5
  <2>2. /\ t \in Seq(ValidClass) /\ Len(t) = b - a + 1
        /\ \A i \in 1 .. b - a + 1 : t[i] = text[a + i - 1]
    BY <2>1, <1>5, <1>0, SubSeqProperties
  <2>3. t[1] = text[a] /\ t[b - a + 1] = text[b]
    BY <2>2, <1>5, <1>0
  <2> QED  BY <2>2, <2>3
<1> HIDE DEF t
<1>7. Begins(t) /\ (hashed \/ t[Len(t)] # "-")
  BY <1>5, <1>6, <1>0 DEF Begins
<1> QED  BY <1>1, <1>7 DEF t

\* What begins with a letter and does not end with a hyphen is left as it is.
LEMMA TrimSame ==
  ASSUME NEW text, Begins(text), NEW hashed \in BOOLEAN, hashed \/ text[Len(text)] # "-"
  PROVE  Trim(text, hashed) = text
<1> DEFINE starts == {i \in DOMAIN text : text[i] \in LetterClass}
           ends == {i \in DOMAIN text : hashed \/ text[i] # "-"}
<1>0. /\ Len(text) \in Nat \ {0} /\ DOMAIN text = 1 .. Len(text)
      /\ text \in Seq(ValidClass) /\ text[1] \in LetterClass
  BY DEF Begins
<1>1. 1 \in starts /\ starts \in SUBSET Nat /\ \A k \in starts : 1 <= k
  BY <1>0
<1>2. /\ Len(text) \in ends /\ ends \in SUBSET Nat
      /\ \A k \in ends : k <= Len(text)
  BY <1>0
<1>3. Trim(text, hashed) = SubSeq(text, Min(starts), Max(ends))
  BY <1>1 DEF Trim
<1> HIDE DEF starts, ends
<1>4. Min(starts) = 1
  <2>1. Min(starts) \in starts /\ \A k \in starts : Min(starts) <= k
    BY <1>1, MinIsLeast
  <2> DEFINE m == Min(starts)
  <2>2. m \in Nat /\ m <= 1 /\ 1 <= m
    BY <2>1, <1>1
  <2> HIDE DEF m
  <2>3. m = 1
    BY <2>2
  <2> QED  BY <2>3 DEF m
<1>5. Max(ends) = Len(text)
  <2>1. Max(ends) \in ends /\ \A k \in ends : Max(ends) >= k
    BY <1>0, <1>2, MaxIsGreatest
  <2> DEFINE m == Max(ends)
  <2>2. m \in Nat /\ m <= Len(text) /\ Len(text) <= m
    BY <2>1, <1>2
  <2> DEFINE l == Len(text)
  <2>3. l \in Nat
    BY <1>0
  <2> HIDE DEF m, l
  <2>4. m = l
    BY <2>2, <2>3 DEF l
  <2> QED  BY <2>4 DEF m, l
<1> QED  BY <1>0, <1>3, <1>4, <1>5, SubSeqFull

\* The names that are given: any characters in any order.
Given == {Plain(text) : text \in Seq(Chars)}

\* What a name has become when its invalid characters are gone.
LEMMA ValidNameBegins ==
  ASSUME NEW n \in Given, HasName(n)
  PROVE  LET valid == ValidName(n)
         IN  /\ n.text \in Seq(Chars) /\ n.hash = <<>>
             /\ n = [text |-> n.text, hash |-> <<>>]
             /\ valid = [text |-> valid.text, hash |-> <<>>]
             /\ Begins(valid.text)
             /\ valid.text[Len(valid.text)] # "-"
<1>1. PICK text \in Seq(Chars) : n = Plain(text)
  BY DEF Given
<1>2. n.text = text /\ n.hash = <<>> /\ n = [text |-> text, hash |-> <<>>]
  BY <1>1 DEF Plain
<1>3. ValidName(n) = [text |-> Trim(ValidChars(text), FALSE), hash |-> <<>>]
  <2>1. (n.hash # <<>>) = FALSE
    BY <1>2
  <2>2. ValidName(n) = [n EXCEPT !.text = Trim(ValidChars(text), FALSE)]
    BY <1>2, <2>1, Zenon DEF ValidName
  <2> DEFINE t == Trim(ValidChars(text), FALSE)
  <2> HIDE DEF t
  <2>3. [n EXCEPT !.text = t] = [text |-> t, hash |-> <<>>]
    BY <1>2
  <2> QED  BY <2>2, <2>3 DEF t
<1>4. ValidChars(text) \in Seq(ValidClass)
  BY ValidCharsType
<1> DEFINE t == Trim(ValidChars(text), FALSE)
<1>5. t # <<>>
  <2> HIDE DEF t
  <2>1. ValidName(n).text = t
    BY <1>3 DEF t
  <2> QED  BY <2>1 DEF HasName
<1>6. Begins(t) /\ t[Len(t)] # "-"
  BY <1>4, <1>5, TrimLeaves
<1>7. ValidName(n) = [text |-> t, hash |-> <<>>]
  BY <1>3
<1> HIDE DEF t
<1>8. ValidName(n).text = t
  BY <1>7
<1> QED  BY <1>1, <1>2, <1>6, <1>7, <1>8 DEF Given

\* What a name that begins with a letter is cut to.
LEMMA CutBegins ==
  ASSUME NEW t, Begins(t), NEW k \in 1 .. Len(t)
  PROVE  /\ Begins(SubSeq(t, 1, k)) /\ Len(SubSeq(t, 1, k)) = k
         /\ \A i \in 1 .. k : SubSeq(t, 1, k)[i] = t[i]
<1>1. t \in Seq(ValidClass) /\ Len(t) \in Nat
  BY DEF Begins
<1>2. \A i \in 1 .. k : t[i] \in ValidClass
  BY <1>1
<1> DEFINE c == SubSeq(t, 1, k)
<1>3. /\ c \in Seq(ValidClass) /\ Len(c) = k
      /\ \A i \in 1 .. k : c[i] = t[1 + i - 1]
  BY <1>1, <1>2, SubSeqProperties
<1> HIDE DEF c
<1>4. \A i \in 1 .. k : c[i] = t[i]
  BY <1>3
<1>5. Begins(c)
  BY <1>3, <1>4 DEF Begins
<1> QED  BY <1>3, <1>4, <1>5 DEF c

\* The hash stands for the whole name.
LEMMA HashIsOfAll ==
  ASSUME NEW n, n.text \in Seq(Chars), n.hash = <<>>
  PROVE  /\ Hash(n) # <<>> /\ Len(Hash(n)) = Len(n.text) + 1
         /\ \A i \in 1 .. Len(n.text) : Hash(n)[i] = n.text[i]
<1>1. Hash(n) = n.text \o <<"#">> \o <<>>
  BY DEF Hash
<1> DEFINE text == n.text
<1> HIDE DEF text
<1>2. text \in Seq(Chars \cup {"#"}) /\ <<"#">> \in Seq(Chars \cup {"#"})
  BY DEF text
<1> DEFINE h == text \o <<"#">>
<1>3. /\ h \in Seq(Chars \cup {"#"}) /\ Len(h) = Len(text) + 1 /\ Len(text) \in Nat
      /\ \A i \in 1 .. Len(text) : h[i] = text[i]
  BY <1>2
<1> HIDE DEF h
<1>4. h \o <<>> = h
  BY <1>3
<1>5. h # <<>>
  BY <1>3
<1>6. Hash(n) = h
  BY <1>1, <1>4 DEF h, text
<1> QED  BY <1>3, <1>5, <1>6 DEF text

\* A name is taken as it is, or is the beginning of what is valid of it with a hash.
LEMMA GotName ==
  ASSUME NEW n \in Given, HasName(n)
  PROVE  LET name == GetInstanceName(n)
             valid == ValidName(n).text
         IN  \/ name = n /\ n.text = valid /\ Len(valid) <= MaxLength
             \/ \E k \in 1 .. KeptLength :
                  /\ k <= Len(valid) /\ (k = KeptLength \/ k = Len(valid))
                  /\ name = [text |-> SubSeq(valid, 1, k), hash |-> Hash(n)]
<1> DEFINE v == ValidName(n)
           k == Min({KeptLength, Len(v.text)})
<1>1. n.hash = <<>> /\ v = [text |-> v.text, hash |-> <<>>] /\ Begins(v.text)
  BY ValidNameBegins
<1>2. KeptLength \in Nat \ {0} /\ Len(v.text) \in Nat \ {0}
  <2>1. v.text \in Seq(ValidClass) /\ v.text # <<>>
    BY <1>1 DEF Begins
  <2>2. Len(v.text) \in Nat \ {0}
    <3> HIDE DEF v
    <3> QED  BY <2>1
  <2> QED  BY <2>2, LengthAssumption
<1>3. k = IF KeptLength <= Len(v.text) THEN KeptLength ELSE Len(v.text)
  <2> HIDE DEF v
  <2> QED  BY <1>2, MinOfTwo
<1>4. k \in 1 .. KeptLength /\ k <= Len(v.text) /\ (k = KeptLength \/ k = Len(v.text))
  <2> HIDE DEF v, k
  <2> QED  BY <1>2, <1>3
<1>5. GetInstanceName(n) = IF n = v /\ Size(n) <= MaxLength THEN n
                           ELSE [text |-> SubSeq(v.text, 1, k), hash |-> Hash(n)]
  BY DEF GetInstanceName
<1>6. CASE n = v /\ Size(n) <= MaxLength
  <2>1. Size(n) = Len(n.text) + 0
    BY <1>1 DEF Size
  <2>2. n.text = v.text
    BY <1>6
  <2>3. Size(n) = Len(v.text)
    <3> HIDE DEF v
    <3> QED  BY <2>1, <2>2, <1>2
  <2>4. GetInstanceName(n) = n
    BY <1>5, <1>6
  <2> HIDE DEF v, k
  <2>5. Len(v.text) <= MaxLength
    BY <2>3, <1>6
  <2> QED  BY <2>2, <2>4, <2>5 DEF v
<1>7. CASE ~(n = v /\ Size(n) <= MaxLength)
  <2> HIDE DEF v, k
  <2>1. GetInstanceName(n) = [text |-> SubSeq(v.text, 1, k), hash |-> Hash(n)]
    BY <1>5, <1>7
  <2> QED  BY <2>1, <1>4 DEF v
<1> QED  BY <1>6, <1>7

\* Whatever is asked for, an instance gets a name of at most MAX_INSTANCE_NAME_LENGTH
\* letters, digits and hyphens, with a letter first and no hyphen last.
THEOREM NamesConform ==
  \A n \in Given : HasName(n) => IsName(GetInstanceName(n))
<1> SUFFICES ASSUME NEW n \in Given, HasName(n) PROVE IsName(GetInstanceName(n))
  OBVIOUS
<1> DEFINE valid == ValidName(n).text
           name == GetInstanceName(n)
<1>1. /\ n.text \in Seq(Chars) /\ n.hash = <<>> /\ n = [text |-> n.text, hash |-> <<>>]
      /\ Begins(valid) /\ valid[Len(valid)] # "-"
  BY ValidNameBegins
<1>2. /\ KeptLength \in Nat \ {0} /\ MaxLength \in Nat \ {0} /\ HashLength \in Nat \ {0}
      /\ KeptLength + 1 + HashLength <= MaxLength
  BY LengthAssumption
<1>3. \/ name = n /\ n.text = valid /\ Len(valid) <= MaxLength
      \/ \E k \in 1 .. KeptLength :
           k <= Len(valid) /\ name = [text |-> SubSeq(valid, 1, k), hash |-> Hash(n)]
  BY GotName
<1> HIDE DEF valid, name
<1>4. valid \in Seq(ValidClass) /\ Len(valid) \in Nat \ {0} /\ valid[1] \in LetterClass
  BY <1>1 DEF Begins
<1>5. CASE name = n /\ n.text = valid /\ Len(valid) <= MaxLength
  <2>1. name.text = valid /\ name.hash = <<>>
    BY <1>5, <1>1
  <2>2. Size(name) = Len(valid) + 0
    BY <2>1 DEF Size
  <2>3. Size(name) \in 1 .. MaxLength
    BY <2>2, <1>2, <1>4, <1>5
  <2>4. \A i \in DOMAIN valid : valid[i] # "."
    BY <1>4 DEF ValidClass
  <2>5. Last(valid) # "-"
    BY <1>1 DEF Last
  <2> QED  BY <2>1, <2>3, <2>4, <2>5, <1>4 DEF IsName, name
<1>6. CASE \E k \in 1 .. KeptLength :
             k <= Len(valid) /\ name = [text |-> SubSeq(valid, 1, k), hash |-> Hash(n)]
  <2>1. PICK k \in 1 .. KeptLength :
          k <= Len(valid) /\ name = [text |-> SubSeq(valid, 1, k), hash |-> Hash(n)]
    BY <1>6
  <2> DEFINE cut == SubSeq(valid, 1, k)
  <2>2. Begins(cut) /\ Len(cut) = k
    BY <1>1, <1>2, <1>4, <2>1, CutBegins
  <2> HIDE DEF cut
  <2>3. name.text = cut /\ name.hash # <<>>
    BY <2>1, <1>1, HashIsOfAll DEF cut
  <2>4. Size(name) = k + (1 + HashLength)
    BY <2>2, <2>3 DEF Size
  <2>5. Size(name) \in 1 .. MaxLength
    BY <2>4, <1>2
  <2>6. cut \in Seq(ValidClass) /\ cut[1] \in LetterClass
    BY <2>2 DEF Begins
  <2>7. \A i \in DOMAIN cut : cut[i] # "."
    BY <2>6 DEF ValidClass
  <2> QED  BY <2>3, <2>5, <2>6, <2>7 DEF IsName, name
<1> QED  BY <1>3, <1>5, <1>6

\* Two different names never get one instance.
THEOREM NamesDiffer ==
  \A m, n \in Given :
    HasName(m) /\ HasName(n) /\ GetInstanceName(m) = GetInstanceName(n) => m = n
<1> SUFFICES ASSUME NEW m \in Given, NEW n \in Given, HasName(m), HasName(n),
                    GetInstanceName(m) = GetInstanceName(n)
             PROVE  m = n
  OBVIOUS
<1>1. /\ m.text \in Seq(Chars) /\ m.hash = <<>> /\ m = [text |-> m.text, hash |-> <<>>]
      /\ n.text \in Seq(Chars) /\ n.hash = <<>> /\ n = [text |-> n.text, hash |-> <<>>]
  BY ValidNameBegins
<1>2. GetInstanceName(m) = m \/ GetInstanceName(m).hash = Hash(m)
  BY GotName
<1>3. GetInstanceName(n) = n \/ GetInstanceName(n).hash = Hash(n)
  BY GotName
<1>4. Hash(m) # <<>> /\ Hash(n) # <<>>
  BY <1>1, HashIsOfAll
<1>5. CASE GetInstanceName(m) = m
  <2>1. GetInstanceName(n).hash = <<>>
    BY <1>1, <1>5
  <2> QED  BY <2>1, <1>3, <1>4, <1>5
<1>6. CASE GetInstanceName(m) # m
  <2>1. Hash(m) = Hash(n)
    BY <1>1, <1>2, <1>3, <1>4, <1>6
  <2>2. /\ Len(Hash(m)) = Len(m.text) + 1 /\ \A i \in 1 .. Len(m.text) : Hash(m)[i] = m.text[i]
        /\ Len(Hash(n)) = Len(n.text) + 1 /\ \A i \in 1 .. Len(n.text) : Hash(n)[i] = n.text[i]
    BY <1>1, HashIsOfAll
  <2> DEFINE s == m.text
             t == n.text
  <2>3. /\ s \in Seq(Chars) /\ t \in Seq(Chars)
        /\ Len(s) + 1 = Len(t) + 1
        /\ \A i \in 1 .. Len(s) : i \in 1 .. Len(t) => s[i] = t[i]
    BY <1>1, <2>1, <2>2
  <2> HIDE DEF s, t
  <2>4. Len(s) = Len(t) /\ \A i \in 1 .. Len(s) : s[i] = t[i]
    BY <2>3
  <2>5. s = t
    BY <2>3, <2>4, SeqEqual
  <2> QED  BY <2>5, <1>1 DEF s, t
<1> QED  BY <1>5, <1>6

\* A name that was made is made no further: what list_instances() reads back
\* and makes an LXDInstance of is the instance that was listed.
THEOREM NamesStay ==
  \A n \in Given : HasName(n) => GetInstanceName(GetInstanceName(n)) = GetInstanceName(n)
<1> SUFFICES ASSUME NEW n \in Given, HasName(n)
             PROVE  GetInstanceName(GetInstanceName(n)) = GetInstanceName(n)
  OBVIOUS
<1> DEFINE valid == ValidName(n).text
           name == GetInstanceName(n)
<1>1. n.text \in Seq(Chars) /\ n.hash = <<>> /\ Begins(valid)
  BY ValidNameBegins
<1>2. /\ KeptLength \in Nat \ {0} /\ MaxLength \in Nat \ {0} /\ HashLength \in Nat \ {0}
      /\ KeptLength + 1 + HashLength <= MaxLength
  BY LengthAssumption
<1>3. \/ name = n
      \/ \E k \in 1 .. KeptLength :
           k <= Len(valid) /\ name = [text |-> SubSeq(valid, 1, k), hash |-> Hash(n)]
  BY GotName
<1>4. CASE name = n
  BY <1>4
<1>5. CASE \E k \in 1 .. KeptLength :
             k <= Len(valid) /\ name = [text |-> SubSeq(valid, 1, k), hash |-> Hash(n)]
  <2>1. PICK k \in 1 .. KeptLength :
          k <= Len(valid) /\ name = [text |-> SubSeq(valid, 1, k), hash |-> Hash(n)]
    BY <1>5
  <2> DEFINE cut == SubSeq(valid, 1, k)
             hash == Hash(n)
  <2> HIDE DEF valid, name
  <2>2. Begins(cut) /\ Len(cut) = k
    <3>1. Len(valid) \in Nat
      BY <1>1 DEF Begins
    <3> QED  BY <1>1, <1>2, <2>1, <3>1, CutBegins
  <2> HIDE DEF cut
  <2>3. hash # <<>>
    BY <1>1, HashIsOfAll
  <2> HIDE DEF hash
  <2>4. name = [text |-> cut, hash |-> hash]
    BY <2>1 DEF cut, hash
  <2>5. name.text = cut /\ (name.hash # <<>>) = TRUE
    BY <2>3, <2>4
  <2>6. Trim(ValidChars(cut), TRUE) = cut
    <3>1. ValidChars(cut) = cut
      BY <2>2, ValidCharsSame DEF Begins
    <3> QED  BY <2>2, <3>1, TrimSame
  <2>7. ValidName(name) = [name EXCEPT !.text = cut]
    BY <2>5, <2>6, Zenon DEF ValidName
  <2>8. ValidName(name) = name
    BY <2>4, <2>7
  <2>9. Size(name) = k + (1 + HashLength)
    BY <2>2, <2>5 DEF Size
  <2>10. Size(name) <= MaxLength
    BY <2>9, <1>2
  <2>11. GetInstanceName(name) = name
    BY <2>8, <2>10, Zenon DEF GetInstanceName
  <2> QED  BY <2>11 DEF name
<1> QED  BY <1>3, <1>4, <1>5

-----------------------------------------------------------------------------
(* Names of bases *)

\* A name of valid characters.
Word == Seq(ValidClass)

\* Two of them after each other.
Join(s, t) == s \o t

\* A run of one character.
LEMMA LettersAre ==
  ASSUME NEW c \in ValidClass, NEW k \in Nat
  PROVE  /\ Letters(k, c) \in Word /\ Len(Letters(k, c)) = k
         /\ \A i \in 1 .. k : Letters(k, c)[i] = c
BY DEF Letters, Word

LEMMA Joined ==
  ASSUME NEW s \in Word, NEW t \in Word
  PROVE  /\ Join(s, t) \in Word /\ Len(Join(s, t)) = Len(s) + Len(t)
         /\ \A i \in 1 .. Len(s) : Join(s, t)[i] = s[i]
         /\ \A i \in 1 .. Len(t) : Join(s, t)[Len(s) + i] = t[i]
BY ConcatProperties DEF Join, Word

\* After a word, a run of one character.
LEMMA JoinedRun ==
  ASSUME NEW s \in Word, NEW c \in ValidClass, NEW k \in Nat
  PROVE  /\ Join(s, Letters(k, c)) \in Word /\ Len(Join(s, Letters(k, c))) = Len(s) + k
         /\ \A i \in 1 .. Len(s) : Join(s, Letters(k, c))[i] = s[i]
         /\ \A i \in Len(s) + 1 .. Len(s) + k : Join(s, Letters(k, c))[i] = c
<1> DEFINE l == Letters(k, c)
           u == Join(s, l)
<1>0. Len(s) \in Nat
  BY DEF Word
<1>1. l \in Word /\ Len(l) = k /\ \A i \in 1 .. k : l[i] = c
  BY LettersAre
<1> HIDE DEF l
<1>2. /\ u \in Word /\ Len(u) = Len(s) + Len(l)
      /\ \A i \in 1 .. Len(s) : u[i] = s[i]
      /\ \A i \in 1 .. Len(l) : u[Len(s) + i] = l[i]
  BY <1>1, Joined
<1> HIDE DEF u
<1>3. ASSUME NEW i \in Len(s) + 1 .. Len(s) + k PROVE u[i] = c
  <2>1. i - Len(s) \in 1 .. k /\ Len(s) + (i - Len(s)) = i
    BY <1>0
  <2>2. u[Len(s) + (i - Len(s))] = l[i - Len(s)]
    BY <1>1, <1>2, <2>1
  <2> QED  BY <1>1, <2>1, <2>2
<1> QED  BY <1>1, <1>2, <1>3 DEF u, l

\* One more character is a run of it.
LEMMA OneIsRun ==
  ASSUME NEW c
  PROVE  <<c>> = Letters(1, c)
BY DEF Letters

\* "base-instance"
LEMMA StartIs ==
  /\ BaseStart \in Word /\ Len(BaseStart) = 13 /\ BaseStart[1] = "s"
  /\ \A i \in 1 .. 13 : BaseStart[i] \in {"s", "-"}
<1> DEFINE b == "s"
           h == "-"
           l == Letters(4, b)
           m == Join(l, Letters(1, h))
           r == Join(m, Letters(8, b))
<1>0. b \in ValidClass /\ h \in ValidClass /\ 1 \in Nat /\ 4 \in Nat /\ 8 \in Nat
  BY DEF ValidClass, Chars, LetterClass, DigitClass
<1> HIDE DEF b, h
<1>1. l \in Word /\ Len(l) = 4 /\ \A i \in 1 .. 4 : l[i] = b
  BY <1>0, LettersAre
<1> HIDE DEF l
<1>2. /\ m \in Word /\ Len(m) = 4 + 1
      /\ \A i \in 1 .. 4 : m[i] = l[i]
      /\ \A i \in 4 + 1 .. 4 + 1 : m[i] = h
  <2>1. /\ m \in Word /\ Len(m) = Len(l) + 1
        /\ \A i \in 1 .. Len(l) : m[i] = l[i]
        /\ \A i \in Len(l) + 1 .. Len(l) + 1 : m[i] = h
    BY <1>0, <1>1, JoinedRun
  <2> HIDE DEF m
  <2> QED  BY <1>1, <2>1
<1> HIDE DEF m
<1>3. /\ r \in Word /\ Len(r) = 5 + 8
      /\ \A i \in 1 .. 5 : r[i] = m[i]
      /\ \A i \in 5 + 1 .. 5 + 8 : r[i] = b
  <2>1. m \in Word /\ Len(m) = 5
    BY <1>2
  <2>2. /\ r \in Word /\ Len(r) = Len(m) + 8
        /\ \A i \in 1 .. Len(m) : r[i] = m[i]
        /\ \A i \in Len(m) + 1 .. Len(m) + 8 : r[i] = b
    BY <1>0, <2>1, JoinedRun
  <2> HIDE DEF r
  <2> QED  BY <2>1, <2>2
<1> HIDE DEF r
<1>4. ASSUME NEW i \in 1 .. 13 PROVE r[i] \in {b, h}
  <2>1. CASE i \in 1 .. 4
    BY <2>1, <1>1, <1>2, <1>3
  <2>2. CASE i = 5
    BY <2>2, <1>2, <1>3
  <2>3. CASE i \in 6 .. 13
    BY <2>3, <1>3
  <2> QED  BY <2>1, <2>2, <2>3
<1>5. r[1] = b
  BY <1>1, <1>2, <1>3
<1>6. BaseStart = r
  BY OneIsRun DEF BaseStart, Join, l, m, r, b, h
<1> QED  BY <1>3, <1>4, <1>5, <1>6 DEF b, h

\* "base-v7" and the tag before it differ in the last character.
LEMMA TagsAre ==
  /\ Tag \in Word /\ Len(Tag) = 7 /\ Tag[7] = "7"
  /\ \A i \in 1 .. 6 : Tag[i] # "7"
  /\ OldTag \in Word /\ Len(OldTag) = 7
  /\ \A i \in 1 .. 7 : OldTag[i] # "7"
<1> DEFINE l == Letters(4, "t")
           u == <<"-", "t", "7">>
           v == <<"-", "t", "0">>
<1>0. {"t", "-", "7", "0"} \subseteq ValidClass
  BY DEF ValidClass, Chars, LetterClass, DigitClass
<1>1. l \in Word /\ Len(l) = 4 /\ \A i \in 1 .. 4 : l[i] = "t"
  BY <1>0, LettersAre
<1> HIDE DEF l
<1>2. /\ u \in Word /\ Len(u) = 3 /\ u[1] = "-" /\ u[2] = "t" /\ u[3] = "7"
      /\ v \in Word /\ Len(v) = 3 /\ v[1] = "-" /\ v[2] = "t" /\ v[3] = "0"
  BY <1>0 DEF Word
<1> HIDE DEF u, v
<1> DEFINE x == Join(l, u)
           y == Join(l, v)
<1>3. /\ x \in Word /\ Len(x) = 7 /\ \A i \in 1 .. 4 : x[i] = l[i]
      /\ \A i \in 1 .. 3 : x[4 + i] = u[i]
  <2>1. /\ x \in Word /\ Len(x) = Len(l) + Len(u)
        /\ \A i \in 1 .. Len(l) : x[i] = l[i]
        /\ \A i \in 1 .. Len(u) : x[Len(l) + i] = u[i]
    BY <1>1, <1>2, Joined
  <2> HIDE DEF x
  <2> QED  BY <2>1, <1>1, <1>2
<1>4. /\ y \in Word /\ Len(y) = 7 /\ \A i \in 1 .. 4 : y[i] = l[i]
      /\ \A i \in 1 .. 3 : y[4 + i] = v[i]
  <2>1. /\ y \in Word /\ Len(y) = Len(l) + Len(v)
        /\ \A i \in 1 .. Len(l) : y[i] = l[i]
        /\ \A i \in 1 .. Len(v) : y[Len(l) + i] = v[i]
    BY <1>1, <1>2, Joined
  <2> HIDE DEF y
  <2> QED  BY <2>1, <1>1, <1>2
<1> HIDE DEF x, y
<1>5. /\ x[4 + 1] = "-" /\ x[4 + 2] = "t" /\ x[4 + 3] = "7"
      /\ y[4 + 1] = "-" /\ y[4 + 2] = "t" /\ y[4 + 3] = "0"
  BY <1>2, <1>3, <1>4
<1>6. x[7] = "7" /\ \A i \in 1 .. 6 : x[i] # "7"
  <2>1. \A i \in 1 .. 6 : i \in 1 .. 4 \/ i = 4 + 1 \/ i = 4 + 2
    OBVIOUS
  <2> QED  BY <2>1, <1>1, <1>3, <1>5
<1>7. \A i \in 1 .. 7 : y[i] # "7"
  <2>1. \A i \in 1 .. 7 : i \in 1 .. 4 \/ i = 4 + 1 \/ i = 4 + 2 \/ i = 4 + 3
    OBVIOUS
  <2> QED  BY <2>1, <1>1, <1>4, <1>5
<1>8. Tag = x /\ OldTag = y
  BY DEF Tag, OldTag, Join, l, u, v, x, y
<1> QED  BY <1>3, <1>4, <1>6, <1>7, <1>8

\* The characters of a base's name.
BaseText(app, tag, rest) == FormulateBaseInstanceName(app, tag, rest).text

\* Where the parts of it are: the tag begins after 22 characters and those of the
\* application.
BaseParts(text, app, tag, rest) ==
  /\ text \in Word /\ Len(text) = 30 + app + rest
  /\ \A i \in 1 .. 13 : text[i] = BaseStart[i]
  /\ \A i \in 14 .. 22 + app : text[i] \in {"a", "-"}
  /\ text[22 + app] = "-"
  /\ \A i \in 1 .. 7 : text[22 + app + i] = tag[i]
  /\ text[30 + app] = "-"
  /\ \A i \in 31 + app .. 30 + app + rest : text[i] = "a"

LEMMA BaseNameIs ==
  ASSUME NEW app \in Nat, NEW rest \in Nat, NEW tag \in Word, Len(tag) = 7
  PROVE  BaseParts(BaseText(app, tag, rest), app, tag, rest)
<1> DEFINE c == "a"
           h == "-"
           p1 == Join(BaseStart, Letters(1, h))
           p2 == Join(p1, Letters(app, c))
           p3 == Join(p2, Letters(1, h))
           p4 == Join(p3, Letters(6, c))
           p5 == Join(p4, Letters(1, h))
           p6 == Join(p5, tag)
           p7 == Join(p6, Letters(1, h))
           p8 == Join(p7, Letters(rest, c))
<1>1. BaseText(app, tag, rest) = p8
  <2>1. BaseText(app, tag, rest) =
          BaseStart \o <<"-">> \o Letters(app, "a") \o <<"-">> \o Letters(6, "a") \o <<"-">>
          \o tag \o <<"-">> \o Letters(rest, "a")
    BY DEF BaseText, FormulateBaseInstanceName, Plain
  <2>2. <<"-">> = Letters(1, "-")
    BY OneIsRun
  <2> QED  BY <2>1, <2>2, Zenon DEF Join
<1>2. c \in ValidClass /\ h \in ValidClass /\ 1 \in Nat /\ 6 \in Nat
  BY DEF ValidClass, Chars, LetterClass, DigitClass
<1> HIDE DEF c, h, p1, p2, p3, p4, p5, p6, p7, p8
<1>3. BaseStart \in Word /\ Len(BaseStart) = 13
  BY StartIs
<1>4. /\ p1 \in Word /\ Len(p1) = 14
      /\ \A i \in 1 .. 13 : p1[i] = BaseStart[i]
      /\ \A i \in 14 .. 14 : p1[i] = h
  <2>1. /\ p1 \in Word /\ Len(p1) = Len(BaseStart) + 1
        /\ \A i \in 1 .. Len(BaseStart) : p1[i] = BaseStart[i]
        /\ \A i \in Len(BaseStart) + 1 .. Len(BaseStart) + 1 : p1[i] = h
    BY <1>2, <1>3, JoinedRun DEF p1
  <2> QED  BY <2>1, <1>3
<1>5. /\ p2 \in Word /\ Len(p2) = 14 + app
      /\ \A i \in 1 .. 14 : p2[i] = p1[i]
      /\ \A i \in 15 .. 14 + app : p2[i] = c
  <2>0. p1 \in Word /\ Len(p1) = 14
    BY <1>4
  <2>1. /\ p2 \in Word /\ Len(p2) = Len(p1) + app
        /\ \A i \in 1 .. Len(p1) : p2[i] = p1[i]
        /\ \A i \in Len(p1) + 1 .. Len(p1) + app : p2[i] = c
    BY <1>2, <2>0, JoinedRun DEF p2
  <2> QED  BY <2>1, <2>0
<1>6. /\ p3 \in Word /\ Len(p3) = 15 + app
      /\ \A i \in 1 .. 14 + app : p3[i] = p2[i]
      /\ \A i \in 15 + app .. 15 + app : p3[i] = h
  <2>0. p2 \in Word /\ Len(p2) = 14 + app
    BY <1>5
  <2>1. /\ p3 \in Word /\ Len(p3) = Len(p2) + 1
        /\ \A i \in 1 .. Len(p2) : p3[i] = p2[i]
        /\ \A i \in Len(p2) + 1 .. Len(p2) + 1 : p3[i] = h
    BY <1>2, <2>0, JoinedRun DEF p3
  <2> QED  BY <2>1, <2>0
<1>7. /\ p4 \in Word /\ Len(p4) = 21 + app
      /\ \A i \in 1 .. 15 + app : p4[i] = p3[i]
      /\ \A i \in 16 + app .. 21 + app : p4[i] = c
  <2>0. p3 \in Word /\ Len(p3) = 15 + app
    BY <1>6
  <2>1. /\ p4 \in Word /\ Len(p4) = Len(p3) + 6
        /\ \A i \in 1 .. Len(p3) : p4[i] = p3[i]
        /\ \A i \in Len(p3) + 1 .. Len(p3) + 6 : p4[i] = c
    BY <1>2, <2>0, JoinedRun DEF p4
  <2> QED  BY <2>1, <2>0
<1>8. /\ p5 \in Word /\ Len(p5) = 22 + app
      /\ \A i \in 1 .. 21 + app : p5[i] = p4[i]
      /\ \A i \in 22 + app .. 22 + app : p5[i] = h
  <2>0. p4 \in Word /\ Len(p4) = 21 + app
    BY <1>7
  <2>1. /\ p5 \in Word /\ Len(p5) = Len(p4) + 1
        /\ \A i \in 1 .. Len(p4) : p5[i] = p4[i]
        /\ \A i \in Len(p4) + 1 .. Len(p4) + 1 : p5[i] = h
    BY <1>2, <2>0, JoinedRun DEF p5
  <2> QED  BY <2>1, <2>0
<1>9. /\ p6 \in Word /\ Len(p6) = 29 + app
      /\ \A i \in 1 .. 22 + app : p6[i] = p5[i]
      /\ \A i \in 1 .. 7 : p6[22 + app + i] = tag[i]
  <2>0. p5 \in Word /\ Len(p5) = 22 + app
    BY <1>8
  <2>1. /\ p6 \in Word /\ Len(p6) = Len(p5) + Len(tag)
        /\ \A i \in 1 .. Len(p5) : p6[i] = p5[i]
        /\ \A i \in 1 .. Len(tag) : p6[Len(p5) + i] = tag[i]
    BY <2>0, Joined DEF p6
  <2> QED  BY <2>1, <2>0
<1>10. /\ p7 \in Word /\ Len(p7) = 30 + app
       /\ \A i \in 1 .. 29 + app : p7[i] = p6[i]
       /\ \A i \in 30 + app .. 30 + app : p7[i] = h
  <2>0. p6 \in Word /\ Len(p6) = 29 + app
    BY <1>9
  <2>1. /\ p7 \in Word /\ Len(p7) = Len(p6) + 1
        /\ \A i \in 1 .. Len(p6) : p7[i] = p6[i]
        /\ \A i \in Len(p6) + 1 .. Len(p6) + 1 : p7[i] = h
    BY <1>2, <2>0, JoinedRun DEF p7
  <2> QED  BY <2>1, <2>0
<1>11. /\ p8 \in Word /\ Len(p8) = 30 + app + rest
       /\ \A i \in 1 .. 30 + app : p8[i] = p7[i]
       /\ \A i \in 31 + app .. 30 + app + rest : p8[i] = c
  <2>0. p7 \in Word /\ Len(p7) = 30 + app
    BY <1>10
  <2>1. /\ p8 \in Word /\ Len(p8) = Len(p7) + rest
        /\ \A i \in 1 .. Len(p7) : p8[i] = p7[i]
        /\ \A i \in Len(p7) + 1 .. Len(p7) + rest : p8[i] = c
    BY <1>2, <2>0, JoinedRun DEF p8
  <2> QED  BY <2>1, <2>0
<1>12. \A i \in 1 .. 22 + app : p8[i] = p5[i]
  BY <1>9, <1>10, <1>11
<1>13. \A i \in 1 .. 13 : p8[i] = BaseStart[i]
  BY <1>4, <1>5, <1>6, <1>7, <1>8, <1>12
<1>14. \A i \in 14 .. 22 + app : p8[i] \in {c, h}
  <2> TAKE i \in 14 .. 22 + app
  <2>1. CASE i = 14
    BY <2>1, <1>4, <1>5, <1>6, <1>7, <1>8, <1>12
  <2>2. CASE i \in 15 .. 14 + app
    <3>1. i \in 1 .. 14 + app /\ i \in 1 .. 15 + app /\ i \in 1 .. 21 + app
      BY <2>2
    <3>2. p2[i] = c
      BY <2>2, <1>5
    <3>3. p3[i] = p2[i]
      BY <3>1, <1>6
    <3>4. p4[i] = p3[i]
      BY <3>1, <1>7
    <3>5. p5[i] = p4[i]
      BY <3>1, <1>8
    <3>6. p8[i] = p5[i]
      BY <1>12
    <3> QED  BY <3>2, <3>3, <3>4, <3>5, <3>6
  <2>3. CASE i = 15 + app
    BY <2>3, <1>6, <1>7, <1>8, <1>12
  <2>4. CASE i \in 16 + app .. 21 + app
    BY <2>4, <1>7, <1>8, <1>12
  <2>5. CASE i = 22 + app
    BY <2>5, <1>8, <1>12
  <2> QED  BY <2>1, <2>2, <2>3, <2>4, <2>5
<1>15. p8[22 + app] = h
  BY <1>8, <1>12
<1>16. \A i \in 1 .. 7 : p8[22 + app + i] = tag[i]
  <2> TAKE i \in 1 .. 7
  <2>1. 22 + app + i \in 1 .. 29 + app
    OBVIOUS
  <2>2. p8[22 + app + i] = p6[22 + app + i]
    BY <2>1, <1>10, <1>11
  <2> QED  BY <2>2, <1>9
<1>17. p8[30 + app] = h
  BY <1>10, <1>11
<1> QED
  BY <1>1, <1>11, <1>13, <1>14, <1>15, <1>16, <1>17 DEF BaseParts, c, h

\* A base gets the name that was formulated, or the beginning of it with a hash.
LEMMA BaseGot ==
  ASSUME NEW app \in Nat, NEW rest \in Nat \ {0}, NEW tag \in Word, Len(tag) = 7
  PROVE  LET name == GetInstanceName(FormulateBaseInstanceName(app, tag, rest))
         IN  \/ /\ name.text = BaseText(app, tag, rest) /\ name.hash = <<>>
                /\ 30 + app + rest <= MaxLength
             \/ /\ 30 + app + rest > MaxLength /\ name.hash # <<>>
                /\ name.text = SubSeq(BaseText(app, tag, rest), 1, KeptLength)
                /\ name.text \in Word /\ Len(name.text) = KeptLength
                /\ \A i \in 1 .. KeptLength : name.text[i] = BaseText(app, tag, rest)[i]
<1> DEFINE n == FormulateBaseInstanceName(app, tag, rest)
           text == BaseText(app, tag, rest)
           name == GetInstanceName(n)
<1>1. /\ text \in Word /\ Len(text) = 30 + app + rest
      /\ \A i \in 1 .. 13 : text[i] = BaseStart[i]
      /\ \A i \in 31 + app .. 30 + app + rest : text[i] = "a"
  <2>1. rest \in Nat
    OBVIOUS
  <2>2. BaseParts(text, app, tag, rest)
    BY <2>1, BaseNameIs
  <2> QED  BY <2>2 DEF BaseParts
<1>2. n = [text |-> text, hash |-> <<>>]
  BY DEF BaseText, FormulateBaseInstanceName, Plain
<1> HIDE DEF n, text
<1>3. n.hash = <<>> /\ n.text = text
  BY <1>2
<1>4. Begins(text) /\ text[Len(text)] # "-"
  <2>1. text[1] = "s"
    BY <1>1, StartIs
  <2>2. text \in Seq(ValidClass) /\ Len(text) = 30 + app + rest
    BY <1>1 DEF Word
  <2>3. text # <<>>
    BY <2>2
  <2>4. Begins(text)
    BY <2>1, <2>2, <2>3 DEF Begins, LetterClass
  <2>5. text[30 + app + rest] = "a"
    BY <1>1
  <2> QED  BY <2>2, <2>4, <2>5
<1>5. ValidName(n) = n
  <2>1. (n.hash # <<>>) = FALSE
    BY <1>3
  <2>2. ValidChars(text) = text
    BY <1>1, ValidCharsSame DEF Word
  <2>3. Trim(text, FALSE) = text
    BY <1>4, TrimSame
  <2>4. ValidName(n) = [n EXCEPT !.text = text]
    BY <1>3, <2>1, <2>2, <2>3, Zenon DEF ValidName
  <2>5. [n EXCEPT !.text = text] = n
    BY <1>2
  <2> QED  BY <2>4, <2>5
<1>6. Size(n) = 30 + app + rest
  <2>1. Size(n) = Len(text) + 0
    BY <1>3 DEF Size
  <2> QED  BY <1>1, <2>1
<1>7. HasName(n) /\ n \in Given
  <2>1. text # <<>>
    BY <1>4 DEF Begins
  <2>2. Word \subseteq Seq(Chars)
    BY DEF Word, ValidClass
  <2>3. n = Plain(text) /\ text \in Seq(Chars)
    BY <1>1, <1>2, <2>2 DEF Plain
  <2> QED  BY <1>3, <1>5, <2>1, <2>3 DEF HasName, Given
<1>8. /\ KeptLength \in Nat \ {0} /\ HashLength \in Nat \ {0} /\ MaxLength \in Nat
      /\ KeptLength < MaxLength
  BY LengthAssumption
<1>9. CASE Size(n) <= MaxLength
  <2>1. name = n
    BY <1>5, <1>9, Zenon DEF GetInstanceName
  <2> HIDE DEF name
  <2>2. name.text = text /\ name.hash = <<>>
    BY <2>1, <1>3
  <2> QED  BY <2>2, <1>6, <1>9 DEF name, n, text
<1>10. CASE ~(Size(n) <= MaxLength)
  <2>1. name = [text |-> SubSeq(text, 1, Min({KeptLength, Len(text)})), hash |-> Hash(n)]
    BY <1>3, <1>5, <1>10, Zenon DEF GetInstanceName
  <2>2. 30 + app + rest > MaxLength /\ KeptLength <= 30 + app + rest
    BY <1>6, <1>8, <1>10
  <2>3. Min({KeptLength, Len(text)}) = KeptLength
    <3>1. Len(text) \in Nat /\ KeptLength \in Nat /\ KeptLength <= Len(text)
      BY <1>1, <1>8, <2>2
    <3> QED  BY <3>1, MinOfTwo
  <2> HIDE DEF name
  <2>4. name.text = SubSeq(text, 1, KeptLength) /\ name.hash = Hash(n)
    BY <2>1, <2>3
  <2>5. Hash(n) # <<>>
    <3>1. text \in Seq(Chars)
      BY <1>1 DEF Word, ValidClass
    <3> QED  BY <3>1, <1>3, HashIsOfAll
  <2>6. /\ SubSeq(text, 1, KeptLength) \in Word
        /\ Len(SubSeq(text, 1, KeptLength)) = KeptLength
        /\ \A i \in 1 .. KeptLength : SubSeq(text, 1, KeptLength)[i] = text[i]
    <3>1. KeptLength \in 1 .. Len(text)
      BY <1>1, <1>8, <2>2
    <3> QED  BY <1>4, <3>1, CutBegins DEF Begins, Word
  <2> QED  BY <2>2, <2>4, <2>5, <2>6 DEF name, n, text
<1> QED  BY <1>9, <1>10

\* What the pattern looks for, "-base-v7-".
Mark == <<"-">> \o Tag \o <<"-">>

LEMMA MarkIs ==
  /\ Mark \in Word /\ Len(Mark) = 9 /\ Mark[1] = "-" /\ Mark[9] = "-"
  /\ \A i \in 1 .. 7 : Mark[1 + i] = Tag[i]
  /\ Mark[8] = "7"
<1> DEFINE h == "-"
           l == Letters(1, h)
           m == Join(l, Tag)
           r == Join(m, l)
<1>1. h \in ValidClass /\ 1 \in Nat
  BY DEF ValidClass, Chars, LetterClass, DigitClass
<1> HIDE DEF h
<1>2. l \in Word /\ Len(l) = 1 /\ l[1] = h
  <2>1. l \in Word /\ Len(l) = 1 /\ \A i \in 1 .. 1 : l[i] = h
    BY <1>1, LettersAre
  <2> HIDE DEF l
  <2> QED  BY <2>1
<1>3. Tag \in Word /\ Len(Tag) = 7 /\ Tag[7] = "7"
  BY TagsAre
<1>4. Mark = r
  BY OneIsRun, Zenon DEF Mark, Join, h, l, m, r
<1> HIDE DEF l, m, r
<1>5. /\ m \in Word /\ Len(m) = 8 /\ m[1] = h
      /\ \A i \in 1 .. 7 : m[1 + i] = Tag[i]
  <2>1. /\ m \in Word /\ Len(m) = Len(l) + Len(Tag)
        /\ \A i \in 1 .. Len(l) : m[i] = l[i]
        /\ \A i \in 1 .. Len(Tag) : m[Len(l) + i] = Tag[i]
    BY <1>2, <1>3, Joined DEF m
  <2> QED  BY <2>1, <1>2, <1>3
<1>6. /\ r \in Word /\ Len(r) = 9 /\ r[9] = h
      /\ \A i \in 1 .. 8 : r[i] = m[i]
  <2>0. m \in Word /\ Len(m) = 8
    BY <1>5
  <2>1. /\ r \in Word /\ Len(r) = Len(m) + Len(l)
        /\ \A i \in 1 .. Len(m) : r[i] = m[i]
        /\ \A i \in 1 .. Len(l) : r[Len(m) + i] = l[i]
    BY <2>0, <1>2, Joined DEF r
  <2>2. r[8 + 1] = l[1]
    BY <2>0, <2>1, <1>2
  <2> QED  BY <2>0, <2>1, <2>2, <1>2
<1>7. \A i \in 1 .. 7 : r[1 + i] = Tag[i]
  BY <1>5, <1>6
<1>8. r[1 + 7] = "7"
  BY <1>3, <1>7
<1> QED  BY <1>4, <1>5, <1>6, <1>7, <1>8 DEF h

\* What LXD shows of a name up to its hash.
Shown(n) == IF n.hash = <<>> THEN n.text ELSE Append(n.text, "-")

LEMMA ShownIs ==
  ASSUME NEW n, n.text \in Word
  PROVE  /\ Shown(n) \in Word
         /\ \A i \in 1 .. Len(n.text) : Shown(n)[i] = n.text[i]
         /\ n.hash = <<>> => Len(Shown(n)) = Len(n.text)
         /\ n.hash # <<>> => /\ Len(Shown(n)) = Len(n.text) + 1
                             /\ Shown(n)[Len(n.text) + 1] = "-"
<1> DEFINE text == n.text
<1>1. text \in Seq(ValidClass) /\ "-" \in ValidClass
  BY DEF Word, ValidClass, Chars, LetterClass, DigitClass
<1>2. CASE n.hash = <<>>
  BY <1>2 DEF Shown
<1>3. CASE n.hash # <<>>
  <2>1. Shown(n) = Append(text, "-")
    BY <1>3 DEF Shown
  <2> HIDE DEF text
  <2>2. /\ Append(text, "-") \in Seq(ValidClass) /\ Len(Append(text, "-")) = Len(text) + 1
        /\ \A i \in 1 .. Len(text) : Append(text, "-")[i] = text[i]
        /\ Append(text, "-")[Len(text) + 1] = "-"
    BY <1>1, AppendProperties
  <2> QED  BY <2>1, <2>2, <1>3 DEF text, Word
<1> QED  BY <1>2, <1>3

\* A name without the digit of the current tag is not one of a current base.
LEMMA NotCurrent ==
  ASSUME NEW n, n.text \in Word, \A i \in 1 .. Len(n.text) : n.text[i] # "7"
  PROVE  ~IsCurrentBaseInstance(n)
<1> SUFFICES ASSUME IsCurrentBaseInstance(n) PROVE FALSE
  OBVIOUS
<1> DEFINE shown == Shown(n)
<1>1. PICK i \in Len(BaseStart) + 1 .. Len(shown) - Len(Mark) + 1 :
        SubSeq(shown, i, i + Len(Mark) - 1) = Mark
  BY Zenon DEF IsCurrentBaseInstance, Shown, Mark
<1>2. /\ shown \in Word
      /\ \A k \in 1 .. Len(n.text) : shown[k] = n.text[k]
      /\ n.hash = <<>> => Len(shown) = Len(n.text)
      /\ n.hash # <<>> => Len(shown) = Len(n.text) + 1 /\ shown[Len(n.text) + 1] = "-"
  BY ShownIs
<1>3. Len(BaseStart) = 13 /\ Len(Mark) = 9 /\ Mark[8] = "7"
  BY StartIs, MarkIs
<1> HIDE DEF shown
<1>4. Len(shown) \in Nat /\ Len(n.text) \in Nat /\ shown \in Seq(ValidClass)
  BY <1>2 DEF Word
<1>5. i \in Nat /\ 14 <= i /\ i + 8 <= Len(shown)
  BY <1>1, <1>3, <1>4
<1>6. SubSeq(shown, i, i + 8) = Mark
  BY <1>1, <1>3
<1>7. SubSeq(shown, i, i + 8)[8] = shown[i + 7]
  <2>1. \A k \in i .. i + 8 : shown[k] \in ValidClass
    BY <1>4, <1>5
  <2>2. \A k \in 1 .. (i + 8) - i + 1 : SubSeq(shown, i, i + 8)[k] = shown[i + k - 1]
    BY <2>1, <1>5, SubSeqProperties
  <2>3. 8 \in 1 .. (i + 8) - i + 1 /\ i + 8 - 1 = i + 7
    BY <1>5
  <2> QED  BY <2>2, <2>3
<1>8. shown[i + 7] = "7"
  BY <1>3, <1>6, <1>7
<1>9. i + 7 \in 1 .. Len(n.text)
  BY <1>2, <1>4, <1>5
<1> QED  BY <1>2, <1>8, <1>9

\* Before its tag, and in all but the last character of it, a base's name has no 7.
LEMMA NoSevenBefore ==
  ASSUME NEW app \in Nat, NEW rest \in Nat, NEW tag \in Word, Len(tag) = 7,
         \A i \in 1 .. 6 : tag[i] # "7"
  PROVE  \A i \in 1 .. 28 + app : BaseText(app, tag, rest)[i] # "7"
<1> DEFINE text == BaseText(app, tag, rest)
<1>0. BaseParts(text, app, tag, rest)
  BY BaseNameIs
<1> HIDE DEF text
<1>1. /\ \A i \in 1 .. 13 : text[i] = BaseStart[i]
      /\ \A i \in 14 .. 22 + app : text[i] \in {"a", "-"}
      /\ \A i \in 1 .. 7 : text[22 + app + i] = tag[i]
  BY <1>0 DEF BaseParts
<1>2. ASSUME NEW i \in 1 .. 28 + app PROVE text[i] # "7"
  <2>1. CASE i \in 1 .. 13
    <3>1. BaseStart[i] \in {"s", "-"}
      BY <2>1, StartIs
    <3> QED  BY <1>1, <2>1, <3>1
  <2>2. CASE i \in 14 .. 22 + app
    <3>1. text[i] \in {"a", "-"}
      BY <1>1, <2>2
    <3> QED  BY <3>1
  <2>3. CASE i \in 23 + app .. 28 + app
    <3>1. i - (22 + app) \in 1 .. 6 /\ 22 + app + (i - (22 + app)) = i
      BY <2>3
    <3>2. text[22 + app + (i - (22 + app))] = tag[i - (22 + app)]
      BY <1>1, <3>1
    <3> QED  BY <3>1, <3>2
  <2> QED  BY <2>1, <2>2, <2>3
<1> QED  BY <1>2 DEF text

\* Where the tag has none, the whole name has none.
LEMMA NoSevenIn ==
  ASSUME NEW app \in Nat, NEW rest \in Nat, NEW tag \in Word, Len(tag) = 7,
         \A i \in 1 .. 7 : tag[i] # "7"
  PROVE  \A i \in 1 .. 30 + app + rest : BaseText(app, tag, rest)[i] # "7"
<1> DEFINE text == BaseText(app, tag, rest)
<1>0. BaseParts(text, app, tag, rest)
  BY BaseNameIs
<1> HIDE DEF text
<1>1. /\ \A i \in 1 .. 7 : text[22 + app + i] = tag[i]
      /\ text[30 + app] = "-"
      /\ \A i \in 31 + app .. 30 + app + rest : text[i] = "a"
  BY <1>0 DEF BaseParts
<1>2. \A i \in 1 .. 28 + app : text[i] # "7"
  <2>1. \A i \in 1 .. 6 : tag[i] # "7"
    OBVIOUS
  <2> QED  BY <2>1, NoSevenBefore DEF text
<1>3. ASSUME NEW i \in 1 .. 30 + app + rest PROVE text[i] # "7"
  <2>1. CASE i \in 1 .. 28 + app
    BY <1>2, <2>1
  <2>2. CASE i = 29 + app
    <3>1. text[22 + app + 7] = tag[7] /\ 22 + app + 7 = i
      BY <1>1, <2>2
    <3>2. tag[7] # "7"
      OBVIOUS
    <3> QED  BY <3>1, <3>2
  <2>3. CASE i = 30 + app
    BY <1>1, <2>3
  <2>4. CASE i \in 31 + app .. 30 + app + rest
    <3>1. text[i] = "a"
      BY <1>1, <2>4
    <3> QED  BY <3>1
  <2> QED  BY <2>1, <2>2, <2>3, <2>4
<1> QED  BY <1>3 DEF text

\* Of the bases of any application whose name leaves the tag in the kept part, the
\* configure hook tells the current ones from those of an earlier tag, however long
\* the rest of their names is.
THEOREM CurrentAreTold ==
  \A app \in 1 .. LongestApp, rest \in Nat \ {0} :
    LET current == GetInstanceName(FormulateBaseInstanceName(app, Tag, rest))
        old == GetInstanceName(FormulateBaseInstanceName(app, OldTag, rest))
    IN  /\ IsBaseInstance(current) /\ IsBaseInstance(old)
        /\ IsCurrentBaseInstance(current) /\ ~IsCurrentBaseInstance(old)
<1> SUFFICES ASSUME NEW app \in 1 .. LongestApp, NEW rest \in Nat \ {0}
             PROVE  LET current == GetInstanceName(FormulateBaseInstanceName(app, Tag, rest))
                        old == GetInstanceName(FormulateBaseInstanceName(app, OldTag, rest))
                    IN  /\ IsBaseInstance(current) /\ IsBaseInstance(old)
                        /\ IsCurrentBaseInstance(current) /\ ~IsCurrentBaseInstance(old)
  OBVIOUS
<1>1. KeptLength \in Nat /\ MaxLength \in Nat /\ app \in Nat /\ 1 <= app /\ 29 + app <= KeptLength
  BY LengthAssumption DEF LongestApp
<1>2. rest \in Nat /\ 30 + app + rest \in Nat
  BY <1>1
<1>3. ASSUME NEW tag \in Word, Len(tag) = 7
      PROVE  LET n == GetInstanceName(FormulateBaseInstanceName(app, tag, rest))
             IN  /\ n.text \in Word /\ Len(n.text) >= 29 + app
                 /\ n.hash = <<>> => Len(n.text) = 30 + app + rest
                 /\ \A i \in 1 .. Len(n.text) : n.text[i] = BaseText(app, tag, rest)[i]
  <2> DEFINE n == GetInstanceName(FormulateBaseInstanceName(app, tag, rest))
             text == BaseText(app, tag, rest)
  <2>1. text \in Word /\ Len(text) = 30 + app + rest
    <3>1. BaseParts(text, app, tag, rest)
      BY <1>1, <1>2, <1>3, BaseNameIs
    <3> QED  BY <3>1 DEF BaseParts
  <2>2. \/ n.text = text /\ n.hash = <<>>
        \/ /\ n.hash # <<>> /\ n.text \in Word /\ Len(n.text) = KeptLength
           /\ \A i \in 1 .. KeptLength : n.text[i] = text[i]
    BY <1>1, <1>3, BaseGot
  <2> HIDE DEF n, text
  <2>3. CASE n.text = text /\ n.hash = <<>>
    BY <2>1, <2>3, <1>1 DEF n, text
  <2>4. CASE /\ n.hash # <<>> /\ n.text \in Word /\ Len(n.text) = KeptLength
             /\ \A i \in 1 .. KeptLength : n.text[i] = text[i]
    BY <2>4, <1>1 DEF n, text
  <2> QED  BY <2>2, <2>3, <2>4
<1>4. ASSUME NEW n, n.text \in Word, Len(n.text) >= 29 + app,
             NEW tag \in Word, Len(tag) = 7,
             \A i \in 1 .. Len(n.text) : n.text[i] = BaseText(app, tag, rest)[i]
      PROVE  IsBaseInstance(n)
  <2> DEFINE text == n.text
  <2>1. text \in Seq(ValidClass) /\ Len(text) \in Nat /\ 13 <= Len(text)
    BY <1>1, <1>4 DEF Word
  <2>2. /\ BaseStart \in Seq(ValidClass) /\ Len(BaseStart) = 13
    BY StartIs DEF Word
  <2>3. \A i \in 1 .. 13 : text[i] = BaseStart[i]
    <3>1. \A i \in 1 .. 13 : BaseText(app, tag, rest)[i] = BaseStart[i]
      <4>1. BaseParts(BaseText(app, tag, rest), app, tag, rest)
        BY <1>1, <1>2, <1>4, BaseNameIs
      <4> QED  BY <4>1 DEF BaseParts
    <3>2. \A i \in 1 .. 13 : i \in 1 .. Len(text)
      BY <2>1
    <3>3. \A i \in 1 .. Len(text) : text[i] = BaseText(app, tag, rest)[i]
      BY <1>4
    <3> HIDE DEF text
    <3> QED  BY <3>1, <3>2, <3>3
  <2> HIDE DEF text
  <2>4. SubSeq(BaseStart, 1, 13) = SubSeq(text, 1, 13)
    <3>1. ASSUME NEW t \in Seq(ValidClass), 13 <= Len(t)
          PROVE  /\ SubSeq(t, 1, 13) \in Seq(ValidClass) /\ Len(SubSeq(t, 1, 13)) = 13
                 /\ \A i \in 1 .. 13 : SubSeq(t, 1, 13)[i] = t[i]
      BY <3>1
    <3>2. /\ SubSeq(BaseStart, 1, 13) \in Seq(ValidClass)
          /\ Len(SubSeq(BaseStart, 1, 13)) = 13
          /\ \A i \in 1 .. 13 : SubSeq(BaseStart, 1, 13)[i] = BaseStart[i]
      <4>1. 13 <= Len(BaseStart)
        BY <2>2
      <4>2. BaseStart \in Seq(ValidClass)
        BY <2>2
      <4> QED  BY <4>1, <4>2, <3>1
    <3>3. /\ SubSeq(text, 1, 13) \in Seq(ValidClass)
          /\ Len(SubSeq(text, 1, 13)) = 13
          /\ \A i \in 1 .. 13 : SubSeq(text, 1, 13)[i] = text[i]
      BY <2>1, <3>1
    <3> QED  BY <3>2, <3>3, <2>3, SeqEqual
  <2> QED  BY <2>1, <2>2, <2>4 DEF IsBaseInstance, IsPrefix, text
<1> DEFINE current == GetInstanceName(FormulateBaseInstanceName(app, Tag, rest))
           old == GetInstanceName(FormulateBaseInstanceName(app, OldTag, rest))
<1>5. /\ current.text \in Word /\ Len(current.text) >= 29 + app
      /\ current.hash = <<>> => Len(current.text) = 30 + app + rest
      /\ \A i \in 1 .. Len(current.text) : current.text[i] = BaseText(app, Tag, rest)[i]
  BY <1>3, TagsAre
<1>6. /\ old.text \in Word /\ Len(old.text) >= 29 + app
      /\ old.hash = <<>> => Len(old.text) = 30 + app + rest
      /\ \A i \in 1 .. Len(old.text) : old.text[i] = BaseText(app, OldTag, rest)[i]
  BY <1>3, TagsAre
<1> HIDE DEF current, old
<1>7. IsBaseInstance(current) /\ IsBaseInstance(old)
  BY <1>4, <1>5, <1>6, TagsAre
<1>8. IsCurrentBaseInstance(current)
  <2> DEFINE shown == Shown(current)
             text == BaseText(app, Tag, rest)
             l == Len(current.text)
  <2>1. /\ text[22 + app] = "-" /\ text[30 + app] = "-"
        /\ \A i \in 1 .. 7 : text[22 + app + i] = Tag[i]
    <3>1. BaseParts(text, app, Tag, rest)
      BY <1>1, <1>2, TagsAre, BaseNameIs
    <3> QED  BY <3>1 DEF BaseParts
  <2>2. /\ shown \in Word
        /\ \A i \in 1 .. l : shown[i] = current.text[i]
        /\ current.hash = <<>> => Len(shown) = l
        /\ current.hash # <<>> => Len(shown) = l + 1 /\ shown[l + 1] = "-"
    BY <1>5, ShownIs
  <2>3. l \in Nat /\ l >= 29 + app /\ (current.hash = <<>> => l = 30 + app + rest)
    BY <1>5 DEF Word
  <2>4. \A i \in 1 .. l : shown[i] = text[i]
    BY <1>5, <2>2
  <2> HIDE DEF shown, text, l
  <2>5. shown[22 + app] = "-" /\ \A i \in 1 .. 7 : shown[22 + app + i] = Tag[i]
    <3>1. 22 + app \in 1 .. l /\ \A i \in 1 .. 7 : 22 + app + i \in 1 .. l
      BY <1>1, <2>3
    <3> QED  BY <3>1, <2>1, <2>4
  <2>6. shown[30 + app] = "-" /\ Len(shown) >= 30 + app
    <3>1. CASE l >= 30 + app
      <4>1. 30 + app \in 1 .. l
        BY <1>1, <2>3, <3>1
      <4>2. Len(shown) = l \/ Len(shown) = l + 1
        BY <2>2
      <4> QED  BY <4>1, <4>2, <2>1, <2>3, <2>4, <3>1
    <3>2. CASE l < 30 + app
      <4>1. l = 29 + app
        BY <1>1, <2>3, <3>2
      <4>2. current.hash # <<>>
        BY <1>1, <1>2, <2>3, <4>1
      <4> QED  BY <4>1, <4>2, <2>2, <1>1
    <3> QED  BY <3>1, <3>2, <1>1, <2>3
  <2>7. shown \in Seq(ValidClass) /\ Len(shown) \in Nat
    BY <2>2 DEF Word
  <2>8. /\ SubSeq(shown, 22 + app, 30 + app) \in Seq(ValidClass)
        /\ Len(SubSeq(shown, 22 + app, 30 + app)) = 9
        /\ \A k \in 1 .. 9 : SubSeq(shown, 22 + app, 30 + app)[k] = shown[22 + app + k - 1]
    <3>1. \A i \in 22 + app .. 30 + app : shown[i] \in ValidClass
      BY <2>6, <2>7, <1>1
    <3>2. /\ SubSeq(shown, 22 + app, 30 + app) \in Seq(ValidClass)
          /\ Len(SubSeq(shown, 22 + app, 30 + app)) =
               IF 22 + app <= 30 + app THEN (30 + app) - (22 + app) + 1 ELSE 0
          /\ \A k \in 1 .. (30 + app) - (22 + app) + 1 :
               SubSeq(shown, 22 + app, 30 + app)[k] = shown[22 + app + k - 1]
      BY <1>1, <3>1, SubSeqProperties
    <3>3. (30 + app) - (22 + app) + 1 = 9 /\ 22 + app <= 30 + app
      BY <1>1
    <3> QED  BY <3>2, <3>3
  <2>9. SubSeq(shown, 22 + app, 30 + app) = Mark
    <3> DEFINE sub == SubSeq(shown, 22 + app, 30 + app)
    <3>1. Mark \in Seq(ValidClass) /\ Len(Mark) = 9
      BY MarkIs DEF Word
    <3>2. ASSUME NEW k \in 1 .. 9 PROVE sub[k] = Mark[k]
      <4>0. sub[k] = shown[22 + app + k - 1]
        BY <2>8
      <4>1. CASE k = 1
        <5>1. 22 + app + k - 1 = 22 + app
          BY <4>1, <1>1
        <5> QED  BY <4>0, <4>1, <5>1, <2>5, MarkIs
      <4>2. CASE k \in 2 .. 8
        <5>1. k - 1 \in 1 .. 7 /\ 1 + (k - 1) = k /\ 22 + app + k - 1 = 22 + app + (k - 1)
          BY <4>2, <1>1
        <5>2. Mark[1 + (k - 1)] = Tag[k - 1]
          BY <5>1, MarkIs
        <5>3. shown[22 + app + (k - 1)] = Tag[k - 1]
          BY <5>1, <2>5
        <5> QED  BY <4>0, <5>1, <5>2, <5>3
      <4>3. CASE k = 9
        <5>1. 22 + app + k - 1 = 30 + app
          BY <4>3, <1>1
        <5> QED  BY <4>0, <4>3, <5>1, <2>6, MarkIs
      <4> QED  BY <4>1, <4>2, <4>3
    <3>3. sub \in Seq(ValidClass) /\ Len(sub) = 9
      BY <2>8
    <3> HIDE DEF sub
    <3>4. sub = Mark
      BY <3>1, <3>2, <3>3, SeqEqual
    <3> QED  BY <3>4 DEF sub
  <2>10. \E i \in Len(BaseStart) + 1 .. Len(shown) - Len(Mark) + 1 :
           SubSeq(shown, i, i + Len(Mark) - 1) = Mark
    <3>1. Len(BaseStart) = 13 /\ Len(Mark) = 9
      BY StartIs, MarkIs
    <3>2. 22 + app \in 14 .. Len(shown) - 9 + 1 /\ 22 + app + 9 - 1 = 30 + app
      BY <1>1, <2>6, <2>7
    <3>3. 13 + 1 = 14
      OBVIOUS
    <3> QED  BY <2>9, <3>1, <3>2, <3>3
  <2> QED  BY <1>7, <2>10, Zenon DEF IsCurrentBaseInstance, Shown, Mark, shown
<1>9. ~IsCurrentBaseInstance(old)
  <2>1. \A i \in 1 .. 30 + app + rest : BaseText(app, OldTag, rest)[i] # "7"
    BY <1>1, <1>2, NoSevenIn, TagsAre
  <2>2. Len(old.text) \in Nat /\ Len(old.text) <= 30 + app + rest
    <3>1. Len(old.text) \in Nat
      BY <1>6 DEF Word
    <3>2. \/ old.hash = <<>>
          \/ 30 + app + rest > MaxLength /\ Len(old.text) = KeptLength
      BY <1>1, TagsAre, BaseGot DEF old
    <3>3. KeptLength < MaxLength
      BY LengthAssumption
    <3> QED  BY <3>1, <3>2, <3>3, <1>1, <1>2, <1>6
  <2>3. \A i \in 1 .. Len(old.text) : old.text[i] # "7"
    BY <2>1, <2>2, <1>2, <1>6
  <2> QED  BY <2>3, <1>6, NotCurrent
<1> QED  BY <1>7, <1>8, <1>9 DEF current, old

\* Where the name is cut before its tag ends, the hook takes the current base for one
\* of an earlier tag: so it is for every application of more than eleven letters, the
\* hyphen after them counted, and not only for the one of the docstring's example.
THEOREM CutTagIsMissed ==
  \A app \in Nat, rest \in Nat \ {0} :
    app > LongestApp /\ 30 + app + rest > MaxLength
      => ~IsCurrentBaseInstance(GetInstanceName(FormulateBaseInstanceName(app, Tag, rest)))
<1> SUFFICES ASSUME NEW app \in Nat, NEW rest \in Nat \ {0},
                    app > LongestApp, 30 + app + rest > MaxLength
             PROVE  ~IsCurrentBaseInstance(
                      GetInstanceName(FormulateBaseInstanceName(app, Tag, rest)))
  OBVIOUS
<1> DEFINE n == GetInstanceName(FormulateBaseInstanceName(app, Tag, rest))
           text == BaseText(app, Tag, rest)
<1>1. KeptLength \in Nat /\ MaxLength \in Nat /\ KeptLength < 29 + app /\ rest \in Nat
  BY LengthAssumption DEF LongestApp
<1>2. /\ n.text \in Word /\ Len(n.text) = KeptLength
      /\ \A i \in 1 .. KeptLength : n.text[i] = text[i]
  <2>1. \/ 30 + app + rest <= MaxLength
        \/ /\ n.text \in Word /\ Len(n.text) = KeptLength
           /\ \A i \in 1 .. KeptLength : n.text[i] = text[i]
    BY TagsAre, BaseGot
  <2> HIDE DEF n, text
  <2> QED  BY <2>1, <1>1
<1>3. \A i \in 1 .. 28 + app : text[i] # "7"
  BY <1>1, TagsAre, NoSevenBefore
<1> HIDE DEF n, text
<1>4. \A i \in 1 .. Len(n.text) : n.text[i] # "7"
  BY <1>1, <1>2, <1>3
<1> QED  BY <1>2, <1>4, NotCurrent DEF n

-----------------------------------------------------------------------------
(* The names the run looks at *)

\* The image of a finite set under a function.
LEMMA ImageFinite ==
  ASSUME NEW S, IsFiniteSet(S), NEW f, DOMAIN f = S
  PROVE  IsFiniteSet({f[x] : x \in S})
<1> DEFINE T == {f[x] : x \in S}
           g == [x \in S |-> f[x]]
<1>1. g \in Surjection(S, T)
  <2>1. g \in [S -> T] /\ \A t \in T : \E x \in S : g[x] = t
    OBVIOUS
  <2> HIDE DEF g, T
  <2> QED  BY <2>1, Fun_IsSurj
<1> HIDE DEF g, T
<1>2. IsFiniteSet(T)
  BY <1>1, FS_Surjection
<1> QED  BY <1>2 DEF T

\* There are finitely many functions from one finite set to another.
LEMMA FunctionsFinite ==
  ASSUME NEW A, IsFiniteSet(A), NEW B, IsFiniteSet(B)
  PROVE  IsFiniteSet([A -> B])
<1> DEFINE S == [A -> B]
           T == SUBSET (A \X B)
           g == [f \in S |-> {<<x, f[x]>> : x \in A}]
<1>1. g \in [S -> T]
  OBVIOUS
<1>2. ASSUME NEW f \in S, NEW h \in S, g[f] = g[h] PROVE f = h
  <2>1. {<<x, f[x]>> : x \in A} = {<<x, h[x]>> : x \in A}
    BY <1>2
  <2>2. \A x \in A : f[x] = h[x]
    <3> TAKE x \in A
    <3>1. <<x, f[x]>> \in {<<y, h[y]>> : y \in A}
      BY <2>1
    <3> QED  BY <3>1
  <2> QED  BY <2>2
<1>3. IsFiniteSet(T)
  BY FS_Product, FS_SUBSET
<1> HIDE DEF g, S, T
<1>4. g \in Injection(S, T)
  BY <1>1, <1>2, Fun_IsInj
<1>5. IsFiniteSet(S)
  BY <1>3, <1>4, FS_Injection
<1> QED  BY <1>5 DEF S

\* Four elements are finitely many.
LEMMA FourFinite ==
  ASSUME NEW a, NEW b, NEW c, NEW d
  PROVE  IsFiniteSet({a, b, c, d})
<1>1. IsFiniteSet({a})
  BY FS_Singleton
<1>2. IsFiniteSet({a} \cup {b})
  BY <1>1, FS_AddElement
<1>3. IsFiniteSet(({a} \cup {b}) \cup {c})
  BY <1>2, FS_AddElement
<1>4. IsFiniteSet((({a} \cup {b}) \cup {c}) \cup {d})
  BY <1>3, FS_AddElement
<1>5. {a, b, c, d} = (({a} \cup {b}) \cup {c}) \cup {d}
  OBVIOUS
<1> QED  BY <1>4, <1>5

\* So there are finitely many beginnings and ends of names.
LEMMA EdgesFinite ==
  ASSUME NEW b \in Nat
  PROVE  IsFiniteSet(Edges(0 .. b)) /\ Edges(0 .. b) \subseteq Seq(Chars)
<1> DEFINE D == {"a", "7", "-", "."}
           F == [k \in 0 .. b |-> [1 .. k -> D]]
<1>1. IsFiniteSet(D)
  BY FourFinite
<1>2. D \subseteq Chars
  BY DEF Chars, LetterClass, DigitClass
<1> HIDE DEF D
<1>3. IsFiniteSet(0 .. b) /\ DOMAIN F = 0 .. b
  BY FS_Interval
<1>4. \A k \in 0 .. b : IsFiniteSet(F[k])
  <2> TAKE k \in 0 .. b
  <2>1. IsFiniteSet(1 .. k)
    BY FS_Interval
  <2>2. IsFiniteSet([1 .. k -> D])
    BY <1>1, <2>1, FunctionsFinite
  <2> QED  BY <2>2
<1> HIDE DEF F
<1>5. IsFiniteSet({F[k] : k \in 0 .. b})
  BY <1>3, ImageFinite
<1>6. IsFiniteSet(UNION {F[k] : k \in 0 .. b})
  BY <1>4, <1>5, FS_UNION
<1>7. Edges(0 .. b) = UNION {F[k] : k \in 0 .. b}
  BY DEF Edges, F, D
<1>8. Edges(0 .. b) \subseteq Seq(Chars)
  <2>1. \A k \in 0 .. b : F[k] \subseteq Seq(Chars)
    BY <1>2 DEF F
  <2> QED  BY <1>7, <2>1
<1> QED  BY <1>6, <1>7, <1>8

\* Inputs are given names, and finitely many.
LEMMA InputsAreGiven ==
  Inputs \subseteq Given /\ IsFiniteSet(Inputs) /\ \A n \in Inputs : HasName(n)
<1> DEFINE A == Edges(0 .. 1)
           C == Edges(0 .. 2)
           G == [t \in (A \X Middles) \X C |-> Plain(t[1][1] \o Letters(t[1][2], "a") \o t[2])]
           All == {Plain(l \o Letters(k, "a") \o r) : l \in A, k \in Middles, r \in C}
<1>1. /\ IsFiniteSet(A) /\ A \subseteq Seq(Chars) /\ IsFiniteSet(C) /\ C \subseteq Seq(Chars)
  BY EdgesFinite
<1>2. IsFiniteSet(Middles) /\ Middles \subseteq Nat
  <2>1. /\ KeptLength \in Nat \ {0} /\ HashLength \in Nat \ {0} /\ MaxLength \in Nat
        /\ KeptLength + 1 + HashLength <= MaxLength
    BY LengthAssumption
  <2>2. Middles \subseteq Nat
    BY <2>1 DEF Middles
  <2>3. Middles \in SUBSET (0 .. MaxLength) /\ IsFiniteSet(0 .. MaxLength)
    BY <2>1, FS_Interval DEF Middles
  <2>4. IsFiniteSet(Middles)
    BY <2>3, FS_Subset
  <2> QED  BY <2>2, <2>4
<1> HIDE DEF A, C
<1>3. IsFiniteSet((A \X Middles) \X C)
  <2>1. IsFiniteSet(A \X Middles)
    BY <1>1, <1>2, FS_Product
  <2> QED  BY <1>1, <2>1, FS_Product
<1>4. All = {G[t] : t \in (A \X Middles) \X C}
  <2>1. ASSUME NEW l \in A, NEW k \in Middles, NEW r \in C
        PROVE  /\ <<<<l, k>>, r>> \in (A \X Middles) \X C
               /\ G[<<<<l, k>>, r>>] = Plain(l \o Letters(k, "a") \o r)
    OBVIOUS
  <2>2. ASSUME NEW t \in (A \X Middles) \X C
        PROVE  /\ t[1][1] \in A /\ t[1][2] \in Middles /\ t[2] \in C
               /\ G[t] = Plain(t[1][1] \o Letters(t[1][2], "a") \o t[2])
    OBVIOUS
  <2> HIDE DEF G
  <2>3. All \subseteq {G[t] : t \in (A \X Middles) \X C}
    <3> SUFFICES ASSUME NEW n \in All PROVE n \in {G[t] : t \in (A \X Middles) \X C}
      OBVIOUS
    <3>1. PICK l \in A, k \in Middles, r \in C : n = Plain(l \o Letters(k, "a") \o r)
      OBVIOUS
    <3>2. n = G[<<<<l, k>>, r>>] /\ <<<<l, k>>, r>> \in (A \X Middles) \X C
      BY <2>1, <3>1
    <3> QED  BY <3>2
  <2>4. {G[t] : t \in (A \X Middles) \X C} \subseteq All
    BY <2>2
  <2> HIDE DEF All
  <2> QED  BY <2>3, <2>4
<1>5. IsFiniteSet(All)
  <2>1. DOMAIN G = (A \X Middles) \X C
    OBVIOUS
  <2> HIDE DEF G, All
  <2> QED  BY <1>3, <1>4, <2>1, ImageFinite
<1>6. All \subseteq Given
  <2> SUFFICES ASSUME NEW l \in A, NEW k \in Middles, NEW r \in C
               PROVE  Plain(l \o Letters(k, "a") \o r) \in Given
    OBVIOUS
  <2>1. l \in Seq(Chars) /\ r \in Seq(Chars) /\ k \in Nat
    BY <1>1, <1>2
  <2>2. Letters(k, "a") \in Seq(Chars)
    BY <2>1 DEF Letters, Chars, LetterClass
  <2>3. l \o Letters(k, "a") \o r \in Seq(Chars)
    BY <2>1, <2>2
  <2> QED  BY <2>3 DEF Given
<1>7. Inputs = {n \in All : HasName(n)}
  BY DEF Inputs, A, C
<1> HIDE DEF All
<1>8. IsFiniteSet(Inputs)
  BY <1>5, <1>7, FS_Subset
<1> QED  BY <1>6, <1>7, <1>8

\* What the runs find of the inputs follows from what holds of every name.
LEMMA NamesHold == AllAreNames /\ AllAreTold /\ CurrentIsTold
<1>1. AllAreNames
  BY InputsAreGiven, NamesConform DEF AllAreNames
<1>2. AllAreTold
  <2> DEFINE f == [n \in Inputs |-> GetInstanceName(n)]
             names == {GetInstanceName(n) : n \in Inputs}
  <2>1. \A m \in names : GetInstanceName(m) = m
    BY InputsAreGiven, NamesStay
  <2>2. f \in [Inputs -> names] /\ \A t \in names : \E n \in Inputs : f[n] = t
    OBVIOUS
  <2>3. \A m, n \in Inputs : f[m] = f[n] => m = n
    BY InputsAreGiven, NamesDiffer
  <2> HIDE DEF f, names
  <2>4. f \in Surjection(Inputs, names) /\ f \in Injection(Inputs, names)
    BY <2>2, <2>3, Fun_IsSurj, Fun_IsInj
  <2>5. Cardinality(names) = Cardinality(Inputs)
    BY <2>4, InputsAreGiven, FS_Surjection
  <2> QED  BY <2>1, <2>5 DEF AllAreTold, names
<1>3. CurrentIsTold
  <2>1. \A rest \in {10, 30, 60} : rest \in Nat \ {0}
    OBVIOUS
  <2> QED  BY <2>1, CurrentAreTold DEF CurrentIsTold
<1> QED  BY <1>1, <1>2, <1>3

-----------------------------------------------------------------------------
(* Where the processes use them *)

\* In every behaviour, the name an instance is launched or copied under is one LXD takes.
THEOREM NamesValid == Spec => []NamesAreValid
<1>1. NamesAreValid
  BY NamesHold DEF NamesAreValid
<1> QED  BY <1>1, PTL

\* In every behaviour, the instance that is looked up or deleted by a name is the one
\* the name was made for.
THEOREM NamesTold == Spec => []NamesIdentify
<1>1. NamesIdentify
  BY NamesHold DEF NamesIdentify
<1> QED  BY <1>1, PTL

\* In every behaviour, the configure hook sorts the bases whose tag is kept.
THEOREM BasesTold == Spec => []BasesAreRecognised
<1>1. BasesAreRecognised
  BY NamesHold DEF BasesAreRecognised
<1> QED  BY <1>1, PTL

\* In every behaviour, an instance that is taken again has the map that is asked for.
THEOREM MapsRoundTrip == Spec => []IdMapRoundTrip
<1>1. IdMapRoundTrip
  BY EveryMapIsReadBack DEF IdMapRoundTrip
<1> QED  BY <1>1, PTL
=============================================================================
