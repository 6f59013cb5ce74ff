------------------------- MODULE RemoteLaunchProofs -------------------------
(***************************************************************************)
(* Proofs about RemoteLaunch: what becomes of any -t, and any number of    *)
(* launchers, jobs and faults.                                             *)
(***************************************************************************)
EXTENDS RemoteLaunch, SequenceTheorems, FiniteSetTheorems, WellFoundedInduction, TLAPS

---------------------------------------------------------------------------
(* Separators.                                                             *)

LEMMA TextFacts ==
  ASSUME NEW a \in Text
  PROVE  /\ a \in Seq(Nat) /\ Len(a) \in Nat /\ DOMAIN a = 1 .. Len(a)
         /\ \A i \in 1 .. Len(a) : a[i] \in Nat
BY DEF Text

LEMMA ConcatFacts ==
  ASSUME NEW a \in Text, NEW b \in Text
  PROVE  /\ a \o b \in Text /\ Len(a \o b) = Len(a) + Len(b)
         /\ \A i \in 1 .. Len(a) : (a \o b)[i] = a[i]
         /\ \A i \in 1 .. Len(b) : (a \o b)[Len(a) + i] = b[i]
<1>1. a \in Seq(Nat) /\ b \in Seq(Nat) /\ Len(a) \in Nat /\ Len(b) \in Nat
  BY TextFacts
<1>2. /\ a \o b \in Seq(Nat) /\ Len(a \o b) = Len(a) + Len(b)
      /\ \A i \in 1 .. Len(a) + Len(b) : (a \o b)[i] = IF i <= Len(a) THEN a[i] ELSE b[i - Len(a)]
  BY <1>1, ConcatProperties
<1> DEFINE s == a \o b
<1>3. \A i \in 1 .. Len(a) + Len(b) : s[i] = IF i <= Len(a) THEN a[i] ELSE b[i - Len(a)]
  BY <1>2
<1> HIDE DEF s
<1>4. \A i \in 1 .. Len(a) : s[i] = a[i]
  <2> TAKE i \in 1 .. Len(a)
  <2>1. i \in 1 .. Len(a) + Len(b) /\ i <= Len(a)
    BY <1>1
  <2> QED
    BY <1>3, <2>1
<1>5. \A i \in 1 .. Len(b) : s[Len(a) + i] = b[i]
  <2> TAKE i \in 1 .. Len(b)
  <2>1. Len(a) + i \in 1 .. Len(a) + Len(b) /\ ~(Len(a) + i <= Len(a)) /\ Len(a) + i - Len(a) = i
    BY <1>1
  <2> QED
    BY <1>3, <2>1
<1> QED
  BY <1>2, <1>4, <1>5 DEF s, Text

LEMMA Associate ==
  ASSUME NEW a \in Seq(Nat), NEW b \in Seq(Nat), NEW d \in Seq(Nat)
  PROVE  (a \o b) \o d = a \o (b \o d)
BY ConcatAssociative, SMTT(30)

LEMMA HasConcat ==
  ASSUME NEW a \in Text, NEW b \in Text, NEW c
  PROVE  Has(a \o b, c) <=> Has(a, c) \/ Has(b, c)
<1>1. /\ a \o b \in Text /\ Len(a \o b) = Len(a) + Len(b)
      /\ \A i \in 1 .. Len(a) + Len(b) : (a \o b)[i] = IF i <= Len(a) THEN a[i] ELSE b[i - Len(a)]
  BY ConcatProperties DEF Text
<1>2. ASSUME Has(a, c) PROVE Has(a \o b, c)
  BY <1>1, <1>2 DEF Has, Text
<1>3. ASSUME Has(b, c) PROVE Has(a \o b, c)
  <2>1. PICK i \in DOMAIN b : b[i] = c
    BY <1>3 DEF Has
  <2>2. Len(a) + i \in DOMAIN (a \o b) /\ (a \o b)[Len(a) + i] = c
    BY <1>1, <2>1 DEF Text
  <2> QED
    BY <2>2 DEF Has
<1>4. ASSUME Has(a \o b, c) PROVE Has(a, c) \/ Has(b, c)
  <2>1. PICK i \in DOMAIN (a \o b) : (a \o b)[i] = c
    BY <1>4 DEF Has
  <2>2. CASE i <= Len(a)
    BY <1>1, <2>1, <2>2 DEF Has, Text
  <2>3. CASE i > Len(a)
    <3>1. i - Len(a) \in DOMAIN b /\ b[i - Len(a)] = c
      BY <1>1, <2>1, <2>3 DEF Text
    <3> QED
      BY <3>1 DEF Has
  <2> QED
    BY <1>1, <2>1, <2>2, <2>3 DEF Text
<1> QED
  BY <1>2, <1>3, <1>4

LEMMA HasOne ==
  ASSUME NEW c \in Nat, NEW d \in Nat
  PROVE  /\ <<d>> \in Text /\ Len(<<d>>) = 1 /\ (Has(<<d>>, c) <=> c = d)
         /\ <<>> \in Text /\ ~Has(<<>>, c)
BY DEF Has, Text

\* A set of naturals that is not empty has a least element: of the intervals up to its elements
\* one has no other within it.
LEMMA Least ==
  ASSUME NEW T \in SUBSET Nat, T # {}
  PROVE  \E i \in T : \A j \in T : i <= j
<1> DEFINE W == {0 .. i : i \in T}
           Fin == FiniteSubsetsOf(Nat)
           lt == StrictSubsetOrdering(Nat)
<1>1. IsWellFoundedOn(lt, Fin)
  BY FS_StrictSubsetOrderingWellFounded
<1>2. W \subseteq Fin
  <2>1. ASSUME NEW i \in T PROVE 0 .. i \in Fin
    BY FS_Interval DEF FiniteSubsetsOf
  <2> QED
    BY <2>1
<1>3. W # {}
  OBVIOUS
<1>4. PICK X \in W : \A Y \in W : ~(<<Y, X>> \in lt)
  <2> HIDE DEF W, Fin, lt
  <2> QED
    BY <1>1, <1>2, <1>3, WFMin
<1>5. PICK i \in T : X = 0 .. i
  OBVIOUS
<1>6. ASSUME NEW j \in T, j < i PROVE FALSE
  <2>1. 0 .. j \in W /\ 0 .. j \in SUBSET Nat /\ 0 .. i \in SUBSET Nat
    OBVIOUS
  <2>2. 0 .. j \subseteq 0 .. i /\ 0 .. j # 0 .. i
    <3>1. i \in 0 .. i /\ i \notin 0 .. j
      BY <1>6
    <3> QED
      BY <1>6, <3>1
  <2>3. <<0 .. j, 0 .. i>> \in lt
    BY <2>1, <2>2 DEF StrictSubsetOrdering
  <2> QED
    BY <1>4, <1>5, <2>1, <2>3
<1> QED
  BY <1>6

\* A text that has a separator has a first one, and the parts lie around it.
LEMMA Parted ==
  ASSUME NEW s \in Text, NEW c \in Nat, Has(s, c)
  PROVE  /\ First(s, c) \in 1 .. Len(s) /\ s[First(s, c)] = c
         /\ \A j \in 1 .. First(s, c) - 1 : s[j] # c
         /\ Before(s, c) \in Text /\ Len(Before(s, c)) = First(s, c) - 1
         /\ After(s, c) \in Text /\ Len(After(s, c)) = Len(s) - First(s, c)
         /\ ~Has(Before(s, c), c)
<1> DEFINE T == {i \in DOMAIN s : s[i] = c}
<1>1. T \in SUBSET Nat /\ T # {}
  BY DEF Has, Text
<1>2. PICK i \in T : \A j \in T : i <= j
  <2> HIDE DEF T
  <2> QED
    BY <1>1, Least
<1>5. i \in DOMAIN s /\ s[i] = c /\ \A j \in 1 .. i - 1 : s[j] # c
  BY <1>2 DEF Text
<1> HIDE DEF T
<1> DEFINE f == First(s, c)
<1>6. f \in DOMAIN s /\ s[f] = c /\ \A j \in 1 .. f - 1 : s[j] # c
  BY <1>5 DEF First
<1>7. f \in 1 .. Len(s)
  BY <1>6 DEF Text
<1> HIDE DEF f
<1>8. /\ SubSeq(s, 1, f - 1) \in Seq(Nat) /\ Len(SubSeq(s, 1, f - 1)) = f - 1
      /\ \A j \in 1 .. f - 1 : SubSeq(s, 1, f - 1)[j] = s[j]
  <2>1. \A j \in 1 .. f - 1 : s[j] \in Nat
    BY <1>7 DEF Text
  <2>2. /\ SubSeq(s, 1, f - 1) \in Seq(Nat)
        /\ Len(SubSeq(s, 1, f - 1)) = IF 1 <= f - 1 THEN f - 1 - 1 + 1 ELSE 0
        /\ \A j \in 1 .. f - 1 - 1 + 1 : SubSeq(s, 1, f - 1)[j] = s[1 + j - 1]
    BY <1>7, <2>1, SubSeqProperties
  <2> QED
    BY <1>7, <2>2
<1>9. SubSeq(s, f + 1, Len(s)) \in Seq(Nat) /\ Len(SubSeq(s, f + 1, Len(s))) = Len(s) - f
  <2>1. \A j \in f + 1 .. Len(s) : s[j] \in Nat
    BY <1>7 DEF Text
  <2>2. /\ SubSeq(s, f + 1, Len(s)) \in Seq(Nat)
        /\ Len(SubSeq(s, f + 1, Len(s))) =
             IF f + 1 <= Len(s) THEN Len(s) - (f + 1) + 1 ELSE 0
    BY <1>7, <2>1, SubSeqProperties, LenProperties DEF Text
  <2> QED
    BY <1>7, <2>2 DEF Text
<1>10. Before(s, c) = SubSeq(s, 1, f - 1) /\ After(s, c) = SubSeq(s, f + 1, Len(s))
  BY DEF Before, After, f
<1>11. ~Has(SubSeq(s, 1, f - 1), c)
  BY <1>6, <1>8 DEF Has
<1> QED
  BY <1>6, <1>7, <1>8, <1>9, <1>10, <1>11 DEF f, Text

\* Around a separator before which there is none, the parts are the two sides.
LEMMA Joined ==
  ASSUME NEW a \in Text, NEW b \in Text, NEW c \in Nat, ~Has(a, c)
  PROVE  /\ a \o <<c>> \o b \in Text /\ Has(a \o <<c>> \o b, c)
         /\ Before(a \o <<c>> \o b, c) = a /\ After(a \o <<c>> \o b, c) = b
<1> DEFINE h == a \o <<c>>
           s == h \o b
<1>1. h \in Text /\ Len(h) = Len(a) + 1
      /\ (\A i \in 1 .. Len(a) : h[i] = a[i]) /\ h[Len(a) + 1] = c
  <2>1. <<c>> \in Text /\ Len(<<c>>) = 1 /\ <<c>>[1] = c
    BY HasOne
  <2> QED
    BY <2>1, ConcatFacts
<1> HIDE DEF h
<1>2. /\ s \in Text /\ Len(s) = Len(h) + Len(b)
      /\ \A i \in 1 .. Len(h) : s[i] = h[i]
      /\ \A i \in 1 .. Len(b) : s[Len(h) + i] = b[i]
  BY <1>1, ConcatFacts
<1> HIDE DEF s
<1>3. Len(a) \in Nat /\ Len(b) \in Nat
  BY TextFacts
<1>4. \A i \in 1 .. Len(a) : s[i] = a[i] /\ a[i] # c /\ a[i] \in Nat
  <2> TAKE i \in 1 .. Len(a)
  <2>1. i \in 1 .. Len(h) /\ i \in DOMAIN a
    BY <1>1, <1>3, TextFacts
  <2> QED
    BY <1>1, <1>2, <2>1, TextFacts DEF Has
<1>5. s[Len(a) + 1] = c
  BY <1>1, <1>2, <1>3
<1>6. \A i \in 1 .. Len(b) : s[Len(a) + 1 + i] = b[i] /\ b[i] \in Nat
  BY <1>1, <1>2, <1>3, TextFacts
<1>7. Has(s, c)
  <2>1. Len(a) + 1 \in DOMAIN s
    BY <1>1, <1>2, <1>3, TextFacts
  <2> QED
    BY <1>5, <2>1 DEF Has
<1>8. First(s, c) = Len(a) + 1
  <2>1. /\ First(s, c) \in 1 .. Len(s) /\ s[First(s, c)] = c
        /\ \A j \in 1 .. First(s, c) - 1 : s[j] # c
    BY <1>2, <1>7, Parted
  <2>2. First(s, c) >= Len(a) + 1
    BY <1>3, <1>4, <2>1
  <2>3. First(s, c) <= Len(a) + 1
    BY <1>3, <1>5, <2>1
  <2> QED
    BY <1>3, <2>1, <2>2, <2>3
<1>9. Before(s, c) = a
  <2>1. Before(s, c) = SubSeq(s, 1, Len(a))
    BY <1>3, <1>7, <1>8 DEF Before
  <2>2. /\ SubSeq(s, 1, Len(a)) \in Seq(Nat)
        /\ Len(SubSeq(s, 1, Len(a))) = IF 1 <= Len(a) THEN Len(a) - 1 + 1 ELSE 0
        /\ \A i \in 1 .. Len(a) - 1 + 1 : SubSeq(s, 1, Len(a))[i] = s[1 + i - 1]
    BY <1>3, <1>4, SubSeqProperties
  <2>3. /\ SubSeq(s, 1, Len(a)) \in Seq(Nat) /\ Len(SubSeq(s, 1, Len(a))) = Len(a)
        /\ \A i \in 1 .. Len(a) : SubSeq(s, 1, Len(a))[i] = a[i]
    BY <1>3, <1>4, <2>2
  <2>4. SubSeq(s, 1, Len(a)) = a
    BY <2>3, SeqEqual DEF Text
  <2> QED
    BY <2>1, <2>4
<1>10. After(s, c) = b
  <2> DEFINE m == Len(a) + 2
             n == Len(a) + 1 + Len(b)
  <2>1. After(s, c) = SubSeq(s, m, n)
    BY <1>1, <1>2, <1>3, <1>7, <1>8 DEF After
  <2>2. \A i \in m .. n : s[i] \in Nat
    <3>1. Len(s) = n /\ \A i \in 1 .. Len(s) : s[i] \in Nat
      BY <1>1, <1>2, <1>3, TextFacts
    <3> TAKE i \in m .. n
    <3>2. i \in 1 .. n
      BY <1>3
    <3> QED
      BY <3>1, <3>2
  <2>3. m \in Int /\ n \in Int /\ n - m + 1 = Len(b)
    BY <1>3
  <2> HIDE DEF m, n
  <2>4. /\ SubSeq(s, m, n) \in Seq(Nat)
        /\ Len(SubSeq(s, m, n)) = IF m <= n THEN n - m + 1 ELSE 0
        /\ \A i \in 1 .. n - m + 1 : SubSeq(s, m, n)[i] = s[m + i - 1]
    BY <2>2, <2>3, SubSeqProperties
  <2>5. /\ SubSeq(s, m, n) \in Seq(Nat) /\ Len(SubSeq(s, m, n)) = Len(b)
        /\ \A i \in 1 .. Len(b) : SubSeq(s, m, n)[i] = b[i]
    BY <1>3, <1>6, <2>3, <2>4 DEF m
  <2>6. SubSeq(s, m, n) = b
    BY <2>5, SeqEqual DEF Text
  <2> QED
    BY <2>1, <2>6
<1> QED
  BY <1>2, <1>7, <1>9, <1>10 DEF s, h

\* A port has neither of the separators.
LEMMA PortDigits ==
  ASSUME NEW p \in Text, isPortNumber(p)
  PROVE  p # <<>> /\ ~Has(p, Colon) /\ ~Has(p, Arroba)
<1>1. p # <<>> /\ \A i \in DOMAIN p : p[i] \in Digit
  BY Zenon DEF isPortNumber
<1>2. Colon \notin Digit /\ Arroba \notin Digit
  BY DEF Digit, Colon, Arroba
<1> QED
  BY <1>1, <1>2, Zenon DEF Has

---------------------------------------------------------------------------
(* parseSSHTarget.                                                         *)

LEMMA PartsTypes ==
  ASSUME NEW s \in Text, NEW c \in Nat
  PROVE  Before(s, c) \in Text /\ After(s, c) \in Text
<1>1. CASE Has(s, c)
  BY <1>1, Parted
<1>2. CASE ~Has(s, c)
  BY <1>2, HasOne DEF Before, After
<1> QED
  BY <1>1, <1>2

\* Behind the host and its colon: the port if one is there, and the path.
PortOf(place) == IF Has(place, Colon) /\ isPortNumber(Before(place, Colon))
                 THEN Before(place, Colon) ELSE <<>>
FileOf(place) == IF PortOf(place) # <<>> THEN After(place, Colon) ELSE Before(place, Colon)

LEMMA ParseCases ==
  ASSUME NEW s \in Text
  PROVE  LET named == Has(s, Arroba)
             rest  == IF named THEN After(s, Arroba) ELSE s
             place == After(rest, Colon)
         IN parseSSHTarget(s) =
              IF ~Has(s, Colon) THEN [Invalid EXCEPT !.file = s]
              ELSE IF ~Has(rest, Colon) THEN Invalid
              ELSE [user |-> IF named THEN Before(s, Arroba) ELSE <<>>,
                    host |-> Before(rest, Colon), port |-> PortOf(place), file |-> FileOf(place)]
BY DEF parseSSHTarget, Behind, NamesNoPlace, PortOf, FileOf

LEMMA ParseType ==
  ASSUME NEW s \in Text
  PROVE  parseSSHTarget(s) \in Parts
<1> DEFINE rest  == IF Has(s, Arroba) THEN After(s, Arroba) ELSE s
           place == After(rest, Colon)
<1>1. rest \in Text /\ Before(s, Arroba) \in Text
  BY PartsTypes DEF Arroba
<1>2. Before(rest, Colon) \in Text /\ place \in Text
  BY <1>1, PartsTypes DEF Colon
<1>3. PortOf(place) \in Text /\ FileOf(place) \in Text
  BY <1>2, PartsTypes, HasOne DEF Colon, PortOf, FileOf
<1>4. Invalid \in Parts /\ <<>> \in Text
  BY HasOne DEF Invalid, Parts
<1> HIDE DEF rest, place
<1>5. [Invalid EXCEPT !.file = s] \in Parts
  BY <1>4 DEF Parts
<1> QED
  BY <1>1, <1>2, <1>3, <1>4, <1>5, ParseCases DEF Parts, rest, place

\* How a target is written: what comes behind the user, and behind the host.
Place(t) == (IF t.port = <<>> THEN <<>> ELSE t.port \o <<Colon>>) \o t.file
Rest(t) == t.host \o <<Colon>> \o Place(t)

LEMMA WrittenForms ==
  ASSUME NEW t \in Parts, Meaning(t)
  PROVE  /\ t.user \in Text /\ t.host \in Text /\ t.port \in Text /\ t.file \in Text
         /\ Place(t) \in Text /\ Rest(t) \in Text /\ Written(t) \in Text
         /\ t.host = <<>> => Written(t) = t.file /\ t.user = <<>> /\ t.port = <<>>
         /\ t.host # <<>> /\ t.user = <<>> => Written(t) = Rest(t)
         /\ t.host # <<>> /\ t.user # <<>> => Written(t) = t.user \o <<Arroba>> \o Rest(t)
<1>1. t.user \in Text /\ t.host \in Text /\ t.port \in Text /\ t.file \in Text
  BY DEF Parts
<1>2. <<Colon>> \in Text /\ <<Arroba>> \in Text /\ <<>> \in Text
  BY HasOne DEF Colon, Arroba
<1> DEFINE U == IF t.user = <<>> THEN <<>> ELSE t.user \o <<Arroba>>
           H == IF t.host = <<>> THEN <<>> ELSE t.host \o <<Colon>>
           P == IF t.port = <<>> THEN <<>> ELSE t.port \o <<Colon>>
<1>3. U \in Text /\ H \in Text /\ P \in Text
  BY <1>1, <1>2, ConcatFacts
<1>4. U = (IF t.user = <<>> THEN <<>> ELSE t.user \o <<Arroba>>) /\ Place(t) = P \o t.file
  BY DEF Place
<1>5. /\ t.host # <<>> => H = t.host \o <<Colon>>
      /\ t.host = <<>> => U = <<>> /\ H = <<>> /\ P = <<>> /\ t.user = <<>> /\ t.port = <<>>
  BY DEF Meaning
<1>6. Written(t) = U \o H \o P \o t.file
  BY DEF Written
<1> HIDE DEF U, H, P
<1>7. /\ P \o t.file \in Text /\ H \o (P \o t.file) \in Text /\ U \o H \in Text
      /\ U \o (H \o (P \o t.file)) \in Text
  BY <1>1, <1>3, ConcatFacts
<1>8. Written(t) = U \o (H \o (P \o t.file))
  <2> DEFINE F == t.file
  <2>1. U \in Seq(Nat) /\ H \in Seq(Nat) /\ P \in Seq(Nat) /\ F \in Seq(Nat)
    BY <1>1, <1>3, TextFacts
  <2> HIDE DEF F
  <2> DEFINE UH == U \o H
             Q == P \o F
  <2>2. UH \in Seq(Nat)
    BY <2>1
  <2>3. Q \in Seq(Nat)
    BY <2>1
  <2> HIDE DEF Q
  <2>4. (U \o H) \o Q = U \o (H \o Q)
    BY <2>1, <2>3, Associate
  <2> HIDE DEF UH
  <2>5. (UH \o P) \o F = UH \o (P \o F)
    BY <2>1, <2>2, Associate
  <2> QED
    BY <1>6, <2>4, <2>5 DEF F, UH, Q
<1>9. \A x \in Text : <<>> \o x = x
  BY ConcatEmptySeq DEF Text
<1>10. CASE t.host = <<>>
  <2>1. Written(t) = t.file
    BY <1>1, <1>3, <1>5, <1>7, <1>8, <1>9, <1>10
  <2>2. Rest(t) \in Text /\ Place(t) \in Text
    BY <1>1, <1>2, <1>4, <1>7, ConcatFacts DEF Rest
  <2> QED
    BY <1>1, <1>5, <1>10, <2>1, <2>2
<1>11. CASE t.host # <<>>
  <2>1. Rest(t) = H \o (P \o t.file)
    BY <1>4, <1>5, <1>11 DEF Rest
  <2>2. t.user = <<>> => Written(t) = Rest(t)
    BY <1>4, <1>7, <1>8, <1>9, <2>1
  <2>3. t.user # <<>> => Written(t) = t.user \o <<Arroba>> \o Rest(t)
    BY <1>4, <1>8, <2>1
  <2>4. Written(t) \in Text /\ Rest(t) \in Text /\ Place(t) \in Text
    BY <1>4, <1>7, <1>8, <2>1
  <2> QED
    BY <1>1, <1>11, <2>2, <2>3, <2>4
<1> QED
  BY <1>10, <1>11

\* The part behind the host is read as meant exactly if the path has no colon or a port comes first.
LEMMA ReadPlace ==
  ASSUME NEW t \in Parts, Meaning(t)
  PROVE  (PortOf(Place(t)) = t.port /\ FileOf(Place(t)) = t.file)
           <=> (t.port = <<>> => ~Has(t.file, Colon))
<1> DEFINE q == Place(t)
<1>1. Colon \in Nat /\ t.file \in Text /\ t.port \in Text /\ q \in Text
  BY WrittenForms DEF Colon
<1>2. CASE t.port # <<>>
  <2>1. isPortNumber(t.port) /\ ~Has(t.port, Colon)
    BY <1>1, <1>2, PortDigits DEF Meaning
  <2>2. q = t.port \o <<Colon>> \o t.file
    BY <1>2 DEF Place
  <2>3. Has(q, Colon) /\ Before(q, Colon) = t.port /\ After(q, Colon) = t.file
    BY <1>1, <2>1, <2>2, Joined
  <2> HIDE DEF q
  <2>4. PortOf(q) = t.port /\ FileOf(q) = t.file
    BY <1>2, <2>1, <2>3 DEF PortOf, FileOf
  <2> QED
    BY <1>2, <2>4 DEF q
<1>3. CASE t.port = <<>>
  <2>1. q = t.file
    BY <1>1, <1>3, ConcatEmptySeq, TextFacts DEF Place
  <2> HIDE DEF q
  <2>2. CASE ~Has(q, Colon)
    <3>1. PortOf(q) = <<>> /\ FileOf(q) = q
      BY <2>2 DEF PortOf, FileOf, Before
    <3> QED
      BY <1>3, <2>1, <2>2, <3>1 DEF q
  <2>3. CASE Has(q, Colon)
    <3>1. ~Has(Before(q, Colon), Colon)
      BY <1>1, <2>3, Parted
    <3>2. PortOf(q) = <<>> => FileOf(q) # q
      BY <2>3, <3>1 DEF FileOf
    <3> QED
      BY <1>3, <2>1, <2>3, <3>2 DEF q
  <2> QED
    BY <2>2, <2>3
<1> QED
  BY <1>2, <1>3

LEMMA PartsEqual ==
  ASSUME NEW s \in Parts, NEW t \in Parts
  PROVE  s = t <=> s.user = t.user /\ s.host = t.host /\ s.port = t.port /\ s.file = t.file
BY DEF Parts

\* parseSSHTarget reads a target of any of the forms, of any texts, as it was meant exactly if it
\* is plain.
THEOREM ReadExactlyPlain ==
  ASSUME NEW t \in Parts, Meaning(t)
  PROVE  parseSSHTarget(Written(t)) = t <=> Plain(t)
<1> DEFINE s == Written(t)
           r == parseSSHTarget(s)
<1>1. /\ t.user \in Text /\ t.host \in Text /\ t.port \in Text /\ t.file \in Text
      /\ Place(t) \in Text /\ Rest(t) \in Text /\ s \in Text /\ r \in Parts
      /\ Colon \in Nat /\ Arroba \in Nat /\ Colon # Arroba
  BY WrittenForms, ParseType DEF Colon, Arroba
<1>2. r = t <=> r.user = t.user /\ r.host = t.host /\ r.port = t.port /\ r.file = t.file
  BY <1>1, PartsEqual
<1>3. ~Has(t.user, Arroba) /\ ~Has(t.host, Arroba) /\ ~Has(t.host, Colon)
  BY DEF Meaning
<1> DEFINE named == Has(s, Arroba)
           rest  == IF named THEN After(s, Arroba) ELSE s
           place == After(rest, Colon)
<1>4. r = IF ~Has(s, Colon) THEN [Invalid EXCEPT !.file = s]
          ELSE IF ~Has(rest, Colon) THEN Invalid
          ELSE [user |-> IF named THEN Before(s, Arroba) ELSE <<>>,
                host |-> Before(rest, Colon), port |-> PortOf(place), file |-> FileOf(place)]
  BY <1>1, ParseCases
<1> SUFFICES r = t <=> Plain(t)
  OBVIOUS
<1> HIDE DEF r
<1>5. CASE t.host = <<>>
  <2>1. s = t.file /\ t.user = <<>> /\ t.port = <<>>
    BY <1>5, WrittenForms
  <2>2. Plain(t) <=> ~Has(s, Colon)
    BY <1>5, <2>1 DEF Plain
  <2>3. CASE ~Has(s, Colon)
    BY <1>2, <1>4, <1>5, <2>1, <2>2, <2>3 DEF Invalid
  <2>4. CASE Has(s, Colon)
    <3>1. Len(rest) <= Len(s) /\ rest \in Text
      BY <1>1, Parted, TextFacts
    <3>2. Len(r.file) < Len(s)
      <4>1. CASE ~Has(rest, Colon)
        <5>1. r.file = <<>> /\ Len(s) \in Nat /\ Len(s) # 0
          BY <1>1, <1>4, <2>4, <4>1, TextFacts DEF Invalid, Has
        <5> QED
          BY <5>1
      <4>2. CASE Has(rest, Colon)
        <5>1. place \in Text /\ Len(place) < Len(rest) /\ Len(place) \in Nat
          <6> HIDE DEF rest
          <6>1. /\ First(rest, Colon) \in 1 .. Len(rest) /\ Len(rest) \in Nat
                /\ place \in Text /\ Len(place) = Len(rest) - First(rest, Colon)
            BY <1>1, <3>1, <4>2, Parted, TextFacts
          <6> HIDE DEF place
          <6> QED
            BY <6>1
        <5>2. Len(FileOf(place)) <= Len(place)
          <6> HIDE DEF place
          <6>1. CASE Has(place, Colon)
            <7>1. /\ First(place, Colon) \in 1 .. Len(place)
                  /\ Len(Before(place, Colon)) = First(place, Colon) - 1
                  /\ Len(After(place, Colon)) = Len(place) - First(place, Colon)
              BY <1>1, <5>1, <6>1, Parted
            <7>2. FileOf(place) \in {Before(place, Colon), After(place, Colon)}
              BY DEF FileOf
            <7> QED
              BY <5>1, <7>1, <7>2
          <6>2. CASE ~Has(place, Colon)
            BY <5>1, <6>2 DEF FileOf, PortOf, Before
          <6> QED
            BY <6>1, <6>2
        <5>3. r.file = FileOf(place) /\ FileOf(place) \in Text
          BY <1>1, <1>4, <2>4, <4>2 DEF Parts
        <5> QED
          BY <1>1, <3>1, <5>1, <5>2, <5>3, TextFacts
      <4> QED
        BY <4>1, <4>2
    <3>3. r.file # t.file
      BY <1>1, <2>1, <3>2, TextFacts
    <3> QED
      BY <1>2, <2>2, <2>4, <3>3
  <2> QED
    BY <2>3, <2>4
<1>6. CASE t.host # <<>>
  <2>1. /\ Has(Rest(t), Colon) /\ Before(Rest(t), Colon) = t.host /\ After(Rest(t), Colon) = Place(t)
    BY <1>1, <1>3, Joined DEF Rest
  <2>2. ASSUME rest = Rest(t), Has(s, Colon),
               t.user = IF named THEN Before(s, Arroba) ELSE <<>>,
               t.user = <<>> => ~Has(t.file, Arroba)
        PROVE  r = t <=> Plain(t)
    <3>1. /\ r.user = t.user /\ r.host = t.host
          /\ r.port = PortOf(Place(t)) /\ r.file = FileOf(Place(t))
      BY <1>4, <2>1, <2>2
    <3>2. Plain(t) <=> (t.port = <<>> => ~Has(t.file, Colon))
      BY <2>2 DEF Plain
    <3> QED
      BY <1>2, <3>1, <3>2, ReadPlace
  <2>3. CASE t.user # <<>>
    <3>1. s = t.user \o <<Arroba>> \o Rest(t)
      BY <1>6, <2>3, WrittenForms
    <3>2. named /\ Before(s, Arroba) = t.user /\ After(s, Arroba) = Rest(t)
      BY <1>1, <1>3, <3>1, Joined
    <3>3. Has(s, Colon)
      <4>1. <<Arroba>> \in Text /\ t.user \o <<Arroba>> \in Text
        BY <1>1, HasOne, ConcatFacts
      <4> QED
        BY <1>1, <2>1, <3>1, <4>1, HasConcat
    <3> QED
      BY <2>2, <2>3, <3>2, <3>3
  <2>4. CASE t.user = <<>>
    <3>1. s = Rest(t) /\ Has(s, Colon)
      BY <1>6, <2>1, <2>4, WrittenForms
    <3>2. Has(s, Arroba) <=> Has(t.file, Arroba)
      <4>1. /\ <<Colon>> \in Text /\ ~Has(<<Colon>>, Arroba) /\ <<>> \in Text /\ ~Has(<<>>, Arroba)
            /\ t.host \o <<Colon>> \in Text /\ t.port \o <<Colon>> \in Text
        BY <1>1, HasOne, ConcatFacts
      <4>2. ~Has(t.port, Arroba)
        BY <1>1, <4>1, PortDigits DEF Meaning
      <4>3. Has(Rest(t), Arroba) <=> Has(Place(t), Arroba)
        BY <1>1, <1>3, <4>1, HasConcat DEF Rest
      <4>4. Has(Place(t), Arroba) <=> Has(t.file, Arroba)
        BY <1>1, <4>1, <4>2, HasConcat DEF Place
      <4> QED
        BY <3>1, <4>3, <4>4
    <3>3. CASE ~Has(t.file, Arroba)
      BY <2>2, <2>4, <3>1, <3>2, <3>3
    <3>4. CASE Has(t.file, Arroba)
      <4>1. ~Plain(t)
        BY <1>6, <2>4, <3>4 DEF Plain
      <4>2. Len(Before(s, Arroba)) # 0
        <5>1. /\ First(s, Arroba) \in 1 .. Len(s) /\ s[First(s, Arroba)] = Arroba
              /\ Len(Before(s, Arroba)) = First(s, Arroba) - 1
          BY <1>1, <3>2, <3>4, Parted
        <5>2. s[1] = t.host[1] /\ t.host[1] # Arroba
          <6>1. 1 \in DOMAIN t.host /\ 1 \in 1 .. Len(t.host)
            BY <1>1, <1>6, TextFacts, EmptySeq
          <6>2. <<Colon>> \in Text /\ t.host \o <<Colon>> \in Text
                /\ Len(t.host \o <<Colon>>) = Len(t.host) + 1
                /\ (t.host \o <<Colon>>)[1] = t.host[1]
            BY <1>1, <6>1, HasOne, ConcatFacts
          <6>3. Rest(t)[1] = (t.host \o <<Colon>>)[1]
            BY <1>1, <6>1, <6>2, ConcatFacts DEF Rest
          <6> QED
            BY <1>3, <3>1, <6>1, <6>2, <6>3 DEF Has
        <5> QED
          BY <5>1, <5>2
      <4>3. r.user # t.user \/ r.host # t.host
        <5>1. CASE ~Has(rest, Colon)
          BY <1>4, <1>6, <3>1, <5>1 DEF Invalid
        <5>2. CASE Has(rest, Colon)
          BY <1>4, <2>4, <3>1, <3>2, <3>4, <4>2, <5>2
        <5> QED
          BY <5>1, <5>2
      <4> QED
        BY <1>2, <4>1, <4>3
    <3> QED
      BY <3>3, <3>4
  <2> QED
    BY <2>3, <2>4
<1> QED
  BY <1>5, <1>6

---------------------------------------------------------------------------
(* Launchers.                                                              *)

LEMMA LaunchInitType == LaunchInit => LaunchTypeOK
<1> SUFFICES ASSUME LaunchInit PROVE LaunchTypeOK
  OBVIOUS
<1>1. job \in Jobs /\ job \in [Launchers -> Job]
  BY LaunchAssumption DEF LaunchInit
<1>2. ASSUME NEW l \in Launchers PROVE parseSSHTarget(Written(job[l].to)) \in Parts
  BY <1>1, WrittenForms, ParseType DEF Job
<1>3. target \in [Launchers -> Parts]
  BY <1>2 DEF LaunchInit
<1>4. MaxFaults \in Nat
  BY LaunchAssumption
<1>5. \A l \in Launchers : at[l] = Nobody /\ child[l] = "none"
  BY DEF LaunchInit
<1>6. /\ at \in [Launchers -> {Nobody} \cup {Server(s) : s \in Launchers}]
      /\ armed \subseteq {s \in Launchers : child[s] = "listening"}
  BY DEF LaunchInit
<1>7. /\ pc \in [Launchers -> {"start", "ready", "open", "dial", "transfer", "done", "leaving",
                              "wait", "exit"}]
      /\ out \in [Launchers -> {"none", "ok", "error", "left"}]
      /\ child \in [Launchers -> {"none", "starting", "listening", "exited"}]
      /\ said \in [Launchers -> BOOLEAN] /\ cut \in [Launchers -> BOOLEAN]
      /\ alone \subseteq Launchers /\ faults \in 0 .. MaxFaults
  BY <1>4 DEF LaunchInit
<1> QED
  BY <1>1, <1>3, <1>5, <1>6, <1>7 DEF LaunchTypeOK

\* A server that ends, of itself or of an error.
LEMMA EndsType ==
  ASSUME LaunchTypeOK, NEW s \in Launchers, child[s] \in {"starting", "listening"}, Ends(s),
         alone' \subseteq Launchers, faults' \in 0 .. MaxFaults
  PROVE  LaunchTypeOK'
<1> USE DEF inputs, mainVars
<1>1. /\ child' \in [Launchers -> {"none", "starting", "listening", "exited"}]
      /\ armed' \subseteq {l \in Launchers : child'[l] = "listening"}
      /\ \A l \in Launchers : pc'[l] = "start" => child'[l] = "none"
  BY DEF LaunchTypeOK, Ends
<1>2. /\ at' \in [Launchers -> {Nobody} \cup {Server(l) : l \in Launchers}]
      /\ \A l \in Launchers : at'[l] # Nobody => at[l] # Nobody
  BY DEF LaunchTypeOK, Ends
<1> QED
  BY <1>1, <1>2 DEF LaunchTypeOK, Ends

LEMMA LaunchTypeStep == LaunchTypeOK /\ [LaunchNext]_launchVars => LaunchTypeOK'
<1> SUFFICES ASSUME LaunchTypeOK, [LaunchNext]_launchVars PROVE LaunchTypeOK'
  OBVIOUS
<1> USE DEF inputs, mainVars, serverVars, Goto, Exit
<1>1. CASE UNCHANGED launchVars
  BY <1>1 DEF launchVars, LaunchTypeOK
<1>2. faults \in 0 .. MaxFaults /\ MaxFaults \in Nat
  BY LaunchAssumption DEF LaunchTypeOK
<1>3. Fault => faults' \in 0 .. MaxFaults
  BY <1>2 DEF Fault
<1>4. ASSUME NEW l \in Launchers, BadTarget(l) \/ Start(l) \/ StartFails(l) \/ ReadyFails(l)
      PROVE  LaunchTypeOK'
  <2>1. CASE BadTarget(l)
    BY <2>1 DEF LaunchTypeOK, BadTarget, Nobody
  <2>2. CASE Start(l)
    BY <2>2 DEF LaunchTypeOK, Start, Nobody
  <2>3. CASE StartFails(l)
    BY <1>3, <2>3 DEF LaunchTypeOK, StartFails, Nobody
  <2>4. CASE ReadyFails(l)
    BY <1>3, <2>4 DEF LaunchTypeOK, ReadyFails, Nobody
  <2> QED
    BY <1>4, <2>1, <2>2, <2>3, <2>4
<1>5. ASSUME NEW l \in Launchers, Ready(l) \/ Open(l)
      PROVE  LaunchTypeOK'
  <2>1. CASE Ready(l)
    BY <2>1 DEF LaunchTypeOK, Ready, Nobody
  <2>2. CASE Open(l)
    BY <2>2 DEF LaunchTypeOK, Open, Nobody
  <2> QED
    BY <1>5, <2>1, <2>2
<1>6. ASSUME NEW l \in Launchers, OpenFails(l)
      PROVE  LaunchTypeOK'
  <2>1. CASE Remote(l)
    <3>1. UNCHANGED <<child, armed>> /\ \A k \in Launchers : at'[k] = at[k]
      BY <1>6, <2>1 DEF OpenFails
    <3> QED
      BY <1>6, <2>1, <3>1 DEF LaunchTypeOK, OpenFails, Nobody
  <2>2. CASE ~Remote(l)
    <3>1. \A k \in Launchers : at'[k] \in {Nobody, at[k]}
      BY <1>6, <2>2 DEF OpenFails
    <3>2. /\ at' \in [Launchers -> {Nobody} \cup {Server(s) : s \in Launchers}]
          /\ \A k \in Launchers : at'[k] # Nobody => at[k] # Nobody
      BY <1>6, <3>1 DEF LaunchTypeOK, OpenFails
    <3>3. \A k \in Launchers : at[k] # Nobody => k # l
      BY <1>6 DEF LaunchTypeOK, OpenFails
    <3>4. \A k \in Launchers : at'[k] # Nobody => pc'[k] \in {"transfer", "leaving"}
      BY <1>6, <3>2, <3>3 DEF LaunchTypeOK, OpenFails
    <3>5. armed' \subseteq {s \in Launchers : child'[s] = "listening"}
      BY <1>6, <2>2 DEF LaunchTypeOK, OpenFails
    <3> QED
      BY <1>6, <2>2, <3>2, <3>4, <3>5 DEF LaunchTypeOK, OpenFails
  <2> QED
    BY <2>1, <2>2
<1>11. ASSUME NEW l \in Launchers, Dial(l) \/ SendDone(l)
       PROVE  LaunchTypeOK'
  <2>1. PICK v \in Launchers : Holds(v, l) /\ at' = [at EXCEPT ![l] = Server(v)]
                              /\ armed' \in {armed \cup {v}, armed \ {v}}
    <3>1. CASE Dial(l)
      BY <3>1 DEF Dial
    <3>2. CASE SendDone(l)
      BY <3>2 DEF SendDone
    <3> QED
      BY <1>11, <3>1, <3>2
  <2>2. UNCHANGED <<inputs, serverVars, faults, alone, out>>
    BY <1>11 DEF Dial, SendDone
  <2>3. armed' \subseteq {s \in Launchers : child[s] = "listening"}
    BY <2>1 DEF LaunchTypeOK, Holds
  <2>4. /\ at' \in [Launchers -> {Nobody} \cup {Server(s) : s \in Launchers}]
        /\ \A k \in Launchers : k # l => at'[k] = at[k]
    BY <2>1 DEF LaunchTypeOK
  <2>5. PICK p \in {"transfer", "leaving"} : pc' = [pc EXCEPT ![l] = p]
    BY <1>11 DEF Dial, SendDone
  <2>6. \A k \in Launchers : /\ at'[k] # Nobody => pc'[k] \in {"transfer", "leaving"}
                             /\ pc'[k] = "start" => pc[k] = "start"
    BY <2>4, <2>5 DEF LaunchTypeOK
  <2>7. pc' \in [Launchers -> {"start", "ready", "open", "dial", "transfer", "done", "leaving",
                               "wait", "exit"}]
    BY <2>5 DEF LaunchTypeOK
  <2>8. /\ job' \in Jobs /\ target' \in [Launchers -> Parts]
        /\ out' \in [Launchers -> {"none", "ok", "error", "left"}]
        /\ child' \in [Launchers -> {"none", "starting", "listening", "exited"}]
        /\ said' \in [Launchers -> BOOLEAN] /\ cut' \in [Launchers -> BOOLEAN]
        /\ alone' \subseteq Launchers /\ faults' \in 0 .. MaxFaults
    BY <2>2 DEF LaunchTypeOK
  <2>9. /\ armed' \subseteq {s \in Launchers : child'[s] = "listening"}
        /\ \A k \in Launchers : pc[k] = "start" => child'[k] = "none"
    BY <2>2, <2>3 DEF LaunchTypeOK
  <2>10. \A k \in Launchers : /\ at'[k] # Nobody => pc'[k] \in {"transfer", "leaving"}
                              /\ pc'[k] = "start" => child'[k] = "none"
    BY <2>6, <2>9
  <2> QED
    BY <2>4, <2>7, <2>8, <2>9, <2>10 DEF LaunchTypeOK, Nobody, Server
<1>7. ASSUME NEW l \in Launchers, Refused(l) \/ Finish(l) \/ Cut(l) \/ Leave(l) \/ Wait(l)
      PROVE  LaunchTypeOK'
  BY <1>7 DEF LaunchTypeOK, Refused, Finish, Cut, Leave, Wait, AfterTransfer, Nobody, Server
<1>8. ASSUME NEW l \in Launchers, DoneFails(l) \/ SshLost(l)
      PROVE  LaunchTypeOK'
  BY <1>3, <1>8 DEF LaunchTypeOK, DoneFails, SshLost, Nobody
<1>9. ASSUME NEW l \in Launchers, Listen(l) \/ Fails(l) \/ Announce(l)
      PROVE  LaunchTypeOK'
  BY <1>9 DEF LaunchTypeOK, Listen, Fails, Announce, Nobody
<1>10. ASSUME NEW l \in Launchers, Shutdown(l) \/ DiesOfPipe(l) \/ ServerDies(l)
       PROVE  LaunchTypeOK'
  <2>1. child[l] \in {"starting", "listening"} /\ Ends(l)
    BY <1>10 DEF Shutdown, DiesOfPipe, ServerDies, LaunchTypeOK
  <2>2. alone' \subseteq Launchers /\ faults' \in 0 .. MaxFaults
    BY <1>3, <1>10 DEF Shutdown, DiesOfPipe, ServerDies, LaunchTypeOK
  <2> QED
    BY <2>1, <2>2, EndsType
<1>12. ASSUME NEW l \in Launchers, Quits(l)
       PROVE  LaunchTypeOK'
  BY <1>3, <1>12 DEF LaunchTypeOK, Quits, Nobody
<1> QED
  BY <1>1, <1>4, <1>5, <1>6, <1>7, <1>8, <1>9, <1>10, <1>11, <1>12
  DEF LaunchNext, MainStep, ServerStep

\* The launch's variables keep their types; a client is connected only while it transfers or
\* leaves, and only a listening server's timer runs.
THEOREM LaunchTypeCorrect == LaunchSpec => []LaunchTypeOK
BY LaunchInitType, LaunchTypeStep, PTL DEF LaunchSpec

\* What was asked for never changes, nor what parseSSHTarget made of it.
LEMMA InputsStay == [LaunchNext]_launchVars => UNCHANGED inputs
BY DEF LaunchNext, launchVars, MainStep, ServerStep, BadTarget, Start, StartFails, ReadyFails,
  Ready, Open, OpenFails, Dial, Quits, SendDone, Refused, Finish, Cut, Leave, Wait, DoneFails,
  SshLost, Listen, Fails, Announce, Shutdown, DiesOfPipe, ServerDies, Ends

---------------------------------------------------------------------------
(* What a launcher leaves behind.                                          *)

\* Only an ssh can be cut off its server.
CutRemote == \A l \in Launchers : cut[l] => Remote(l)

LEMMA CutRemoteStep ==
  ASSUME LaunchTypeOK, CutRemote, [LaunchNext]_launchVars
  PROVE  CutRemote'
<1>1. CASE cut' = cut
  BY <1>1, InputsStay DEF CutRemote, Remote, Host, inputs
<1>2. ASSUME NEW l \in Launchers, OpenFails(l) \/ SshLost(l)
      PROVE  CutRemote'
  BY <1>2, InputsStay DEF CutRemote, Remote, Host, OpenFails, SshLost, LaunchTypeOK, inputs
<1> QED
  BY <1>1, <1>2 DEF LaunchNext, launchVars, serverVars, MainStep, ServerStep, BadTarget, Start,
    StartFails, ReadyFails, Ready, Open, Dial, Quits, SendDone, Refused, Finish, Cut, Leave, Wait,
    DoneFails, Listen, Fails, Announce, Shutdown, DiesOfPipe, ServerDies, Ends

\* After its launcher's exit a server that was never started, or has ended, does not come back;
\* how the launcher exited stays, and so does what was cut.
LEMMA LeftAlone ==
  ASSUME LaunchTypeOK, [LaunchNext]_launchVars, NEW l \in Launchers, pc[l] = "exit"
  PROVE  /\ child[l] \in {"none", "exited"} => child'[l] = child[l]
         /\ out'[l] = out[l]
         /\ cut[l] => cut'[l]
<1> USE DEF inputs, mainVars, serverVars, Goto, Exit
<1>1. CASE UNCHANGED launchVars
  BY <1>1 DEF launchVars
<1>2. ASSUME NEW k \in Launchers, MainStep(k)
      PROVE  /\ k # l => child'[l] = child[l] /\ out'[l] = out[l] /\ cut'[l] = cut[l]
             /\ pc[k] # "exit"
  BY <1>2 DEF MainStep, BadTarget, Start, Ready, Open, OpenFails, Dial, Refused, Finish, Cut,
    SendDone, DoneFails, Leave, Wait, LaunchTypeOK
<1>3. ASSUME NEW k \in Launchers, ServerStep(k) \/ DiesOfPipe(k) \/ ServerDies(k)
      PROVE  /\ UNCHANGED <<out, cut>>
             /\ child[l] \in {"none", "exited"} => child'[l] = child[l]
  BY <1>3 DEF ServerStep, Listen, Fails, Announce, Shutdown, DiesOfPipe, ServerDies, Ends,
    LaunchTypeOK
<1>4. ASSUME NEW k \in Launchers,
             StartFails(k) \/ ReadyFails(k) \/ Quits(k) \/ DoneFails(k) \/ SshLost(k)
      PROVE  /\ UNCHANGED child
             /\ out'[l] = out[l] /\ (cut[l] => cut'[l])
  BY <1>4 DEF StartFails, ReadyFails, Quits, DoneFails, SshLost, LaunchTypeOK
<1> QED
  BY <1>1, <1>2, <1>3, <1>4 DEF LaunchNext

LEMMA LeavesNothingStep ==
  ASSUME LaunchTypeOK, CutRemote, LeavesNothing, [LaunchNext]_launchVars
  PROVE  LeavesNothing'
<1> SUFFICES ASSUME NEW l \in Launchers, pc'[l] = "exit", child'[l] \notin {"none", "exited"}
             PROVE  out'[l] = "left" \/ (Remote(l) /\ cut'[l])
  BY InputsStay DEF LeavesNothing, Remote, Host, inputs
<1> USE DEF inputs, mainVars, serverVars, Goto, Exit
<1>1. CASE pc[l] = "exit"
  BY <1>1, LeftAlone DEF LeavesNothing
<1>2. ASSUME pc[l] # "exit", NEW k \in Launchers, BadTarget(k) \/ StartFails(k)
      PROVE  FALSE
  <2>1. k = l
    BY <1>2 DEF BadTarget, StartFails, LaunchTypeOK
  <2> QED
    BY <1>2, <2>1 DEF BadTarget, StartFails, LaunchTypeOK
<1>3. ASSUME pc[l] # "exit", NEW k \in Launchers, ReadyFails(k) \/ Quits(k)
      PROVE  out'[l] = "left"
  BY <1>3 DEF ReadyFails, Quits, LaunchTypeOK
<1>4. ASSUME pc[l] # "exit", NEW k \in Launchers, OpenFails(k) \/ Wait(k)
      PROVE  Remote(l) /\ cut'[l]
  <2>1. k = l
    BY <1>4 DEF OpenFails, Wait, LaunchTypeOK
  <2> QED
    BY <1>4, <2>1 DEF OpenFails, Wait, Gone, CutRemote, LaunchTypeOK
<1>5. ASSUME pc[l] # "exit", NEW k \in Launchers,
             \/ Start(k) \/ Ready(k) \/ Open(k) \/ Dial(k) \/ Refused(k) \/ Finish(k) \/ Cut(k)
             \/ SendDone(k) \/ DoneFails(k) \/ Leave(k) \/ ServerStep(k) \/ DiesOfPipe(k)
             \/ ServerDies(k) \/ SshLost(k)
      PROVE  FALSE
  BY <1>5 DEF Start, Ready, Open, Dial, Refused, Finish, Cut, SendDone, DoneFails, Leave,
    AfterTransfer, ServerStep, Listen, Fails, Announce, Shutdown, DiesOfPipe, ServerDies, Ends,
    SshLost, LaunchTypeOK
<1>6. CASE UNCHANGED launchVars
  BY <1>1, <1>6 DEF launchVars
<1> QED
  BY <1>1, <1>2, <1>3, <1>4, <1>5, <1>6 DEF LaunchNext, MainStep

\* A launcher that has exited leaves a server behind only where that exit skipped the Kill or its
\* ssh was killed or lost: on its own host, every exit that waits or kills leaves none, whatever
\* the other launchers and their servers do, through any errors.
THEOREM LaunchLeavesNothing == LaunchSpec => []LeavesNothing
<1>1. LaunchInit => CutRemote /\ LeavesNothing
  BY DEF LaunchInit, CutRemote, LeavesNothing
<1> QED
  BY <1>1, LaunchInitType, LaunchTypeStep, CutRemoteStep, LeavesNothingStep, PTL DEF LaunchSpec

---------------------------------------------------------------------------
(* Whose server a client talks to.                                         *)

\* A port has one server at a time, and READY comes from a server that listens or did.
OnePort == \A s, t \in Launchers :
             child[s] = "listening" /\ child[t] = "listening" /\ Host(s) = Host(t) => s = t
Heard   == \A l \in Launchers : said[l] => child[l] \in {"listening", "exited"}

\* What holds of a launcher as long as everybody has waited for READY and kept its ssh and its
\* server: that listens from READY to the client's end, and shuts down only after its launcher's DONE.
KeptServer(l) ==
  /\ pc[l] = "ready" /\ said[l] => child[l] = "listening"
  /\ pc[l] \in {"open", "dial", "transfer", "done"} => child[l] = "listening"
  /\ cut[l] => pc[l] = "exit"
  /\ l \in armed => pc[l] \in {"leaving", "wait", "exit"}
  /\ pc[l] = "transfer" => at[l] # Nobody
  /\ at[l] \in {Nobody, Server(l)}

Owned == OnePort /\ Heard /\ (alone = {} => \A l \in Launchers : KeptServer(l))

LEMMA OwnedInit == LaunchInit => Owned
BY DEF LaunchInit, Owned, OnePort, Heard, KeptServer

LEMMA PortsStep ==
  ASSUME LaunchTypeOK, OnePort, Heard, [LaunchNext]_launchVars
  PROVE  OnePort' /\ Heard'
<1> USE DEF inputs, mainVars, serverVars, Goto, Exit
<1>1. \A l \in Launchers : Host(l)' = Host(l)
  BY InputsStay DEF Host
<1>2. CASE UNCHANGED <<child, said>>
  BY <1>1, <1>2 DEF OnePort, Heard
<1>3. ASSUME NEW l \in Launchers, Start(l) \/ Fails(l)
      PROVE  OnePort' /\ Heard'
  BY <1>1, <1>3 DEF OnePort, Heard, Start, Fails, LaunchTypeOK
<1>4. ASSUME NEW l \in Launchers, Listen(l)
      PROVE  OnePort' /\ Heard'
  <2>1. OnePort'
    BY <1>1, <1>4 DEF OnePort, Listen, Vacant, Holds, LaunchTypeOK
  <2>2. Heard'
    BY <1>4 DEF Heard, Listen, LaunchTypeOK
  <2> QED
    BY <2>1, <2>2
<1>5. ASSUME NEW l \in Launchers, Announce(l)
      PROVE  OnePort' /\ Heard'
  BY <1>1, <1>5 DEF OnePort, Heard, Announce, LaunchTypeOK
<1>6. ASSUME NEW l \in Launchers, OpenFails(l), ~Remote(l)
      PROVE  OnePort' /\ Heard'
  BY <1>1, <1>6 DEF OnePort, Heard, OpenFails, LaunchTypeOK
<1>7. ASSUME NEW l \in Launchers, Shutdown(l) \/ DiesOfPipe(l) \/ ServerDies(l)
      PROVE  OnePort' /\ Heard'
  BY <1>1, <1>7 DEF OnePort, Heard, Shutdown, DiesOfPipe, ServerDies, Ends, LaunchTypeOK
<1> QED
  BY <1>2, <1>3, <1>4, <1>5, <1>6, <1>7 DEF LaunchNext, launchVars, MainStep, ServerStep,
    BadTarget, StartFails, ReadyFails, Ready, Open, OpenFails, Dial, Quits, SendDone, Refused,
    Finish, Cut, Leave, Wait, DoneFails, SshLost

\* A step of a launcher's main leaves the others' servers alone, and their connections too.
LEMMA OthersKept ==
  ASSUME LaunchTypeOK, NEW l \in Launchers, NEW k \in Launchers \ {l}, KeptServer(k),
         pc'[k] = pc[k], child'[k] = child[k], said'[k] = said[k], cut'[k] = cut[k],
         at'[k] = at[k], k \in armed' => k \in armed
  PROVE  KeptServer(k)'
BY DEF KeptServer, Nobody, Server

LEMMA KeptStep ==
  ASSUME LaunchTypeOK, Owned, [LaunchNext]_launchVars, alone' = {}
  PROVE  \A l \in Launchers : KeptServer(l)'
<1> USE DEF inputs, mainVars, serverVars, Goto, Exit
<1>1. CASE UNCHANGED launchVars
  BY <1>1 DEF Owned, launchVars, KeptServer, Nobody, Server
<1>2. ASSUME alone = {}, NEW l \in Launchers, BadTarget(l) \/ StartFails(l) \/ ReadyFails(l) \/ Start(l)
      PROVE  \A k \in Launchers : KeptServer(k)'
  <2>1. KeptServer(l)'
    BY <1>2 DEF Owned, Heard, KeptServer, BadTarget, StartFails, ReadyFails, Start, LaunchTypeOK,
      Nobody, Server
  <2>2. ASSUME NEW k \in Launchers \ {l} PROVE KeptServer(k)'
    BY <1>2, <2>2, OthersKept DEF Owned, BadTarget, StartFails, ReadyFails, Start, LaunchTypeOK
  <2> QED
    BY <2>1, <2>2
<1>3. ASSUME alone = {}, NEW l \in Launchers, Ready(l) \/ Open(l)
      PROVE  \A k \in Launchers : KeptServer(k)'
  <2>1. KeptServer(l)'
    BY <1>3 DEF Owned, KeptServer, Ready, Open, Gone, LaunchTypeOK, Nobody, Server
  <2>2. ASSUME NEW k \in Launchers \ {l} PROVE KeptServer(k)'
    BY <1>3, <2>2, OthersKept DEF Owned, Ready, Open, LaunchTypeOK
  <2> QED
    BY <2>1, <2>2
<1>4. ASSUME alone = {}, NEW l \in Launchers, OpenFails(l)
      PROVE  \A k \in Launchers : KeptServer(k)'
  <2>1. at[l] = Nobody /\ l \notin armed
    BY <1>4 DEF Owned, KeptServer, OpenFails, LaunchTypeOK
  <2>2. ASSUME NEW k \in Launchers PROVE at'[k] = at[k]
    <3>1. at[k] # Server(l) \/ at[k] = Nobody
      BY <1>4, <2>1, <2>2 DEF Owned, KeptServer, Nobody, Server
    <3> QED
      BY <1>4, <3>1 DEF OpenFails, LaunchTypeOK, Nobody, Server
  <2>3. KeptServer(l)'
    BY <1>4, <2>1, <2>2 DEF KeptServer, OpenFails, LaunchTypeOK, Nobody, Server
  <2>4. ASSUME NEW k \in Launchers \ {l} PROVE KeptServer(k)'
    BY <1>4, <2>2, <2>4, OthersKept DEF Owned, OpenFails, LaunchTypeOK
  <2> QED
    BY <2>3, <2>4
<1>5. ASSUME alone = {}, NEW l \in Launchers, Dial(l) \/ SendDone(l)
      PROVE  \A k \in Launchers : KeptServer(k)'
  <2>1. ASSUME NEW s \in Launchers, Holds(s, l) PROVE s = l
    <3>1. child[l] = "listening"
      BY <1>5 DEF Owned, KeptServer, Dial, SendDone
    <3> QED
      BY <2>1, <3>1 DEF Owned, OnePort, Holds
  <2>2. /\ at' = [at EXCEPT ![l] = Server(l)]
        /\ Dial(l) => armed' = armed \ {l}
        /\ armed' \subseteq armed \cup {l}
    <3>1. CASE Dial(l)
      BY <2>1, <3>1 DEF Dial
    <3>2. CASE SendDone(l) /\ ~Dial(l)
      BY <2>1, <3>2 DEF SendDone
    <3> QED
      BY <1>5, <3>1, <3>2
  <2>3. KeptServer(l)'
    <3>1. /\ UNCHANGED <<child, said, cut>> /\ at'[l] = Server(l) /\ Server(l) # Nobody
          /\ child[l] = "listening" /\ ~cut[l] /\ l \notin armed
      BY <1>5, <2>2 DEF Owned, KeptServer, Dial, SendDone, LaunchTypeOK, Nobody, Server
    <3>2. pc'[l] = "leaving" \/ (pc'[l] = "transfer" /\ l \notin armed')
      BY <1>5, <2>2 DEF Dial, SendDone, LaunchTypeOK
    <3> QED
      BY <3>1, <3>2 DEF KeptServer, Nobody, Server
  <2>4. ASSUME NEW k \in Launchers \ {l} PROVE KeptServer(k)'
    <3>1. UNCHANGED <<child, said, cut>> /\ pc'[k] = pc[k]
      BY <1>5 DEF Dial, SendDone, LaunchTypeOK
    <3> QED
      BY <1>5, <2>2, <2>4, <3>1, OthersKept DEF Owned, LaunchTypeOK
  <2> QED
    BY <2>3, <2>4
<1>6. ASSUME alone = {}, NEW l \in Launchers, Refused(l) \/ Finish(l) \/ Cut(l)
      PROVE  \A k \in Launchers : KeptServer(k)'
  <2>1. Finish(l)
    BY <1>6 DEF Owned, KeptServer, Refused, Cut, Vacant, Holds, LaunchTypeOK
  <2>2. KeptServer(l)'
    <3>1. /\ pc'[l] \in {"done", "wait"} /\ at'[l] = Nobody
          /\ UNCHANGED <<child, said, cut, armed>>
      BY <2>1 DEF Finish, AfterTransfer, LaunchTypeOK
    <3>2. child[l] = "listening" /\ l \notin armed /\ ~cut[l]
      BY <1>6, <2>1 DEF Owned, KeptServer, Finish
    <3> QED
      BY <3>1, <3>2 DEF KeptServer, Nobody, Server
  <2>3. ASSUME NEW k \in Launchers \ {l} PROVE KeptServer(k)'
    BY <1>6, <2>1, <2>3, OthersKept DEF Owned, Finish, LaunchTypeOK
  <2> QED
    BY <2>2, <2>3
<1>7. ASSUME alone = {}, NEW l \in Launchers, DoneFails(l) \/ Leave(l) \/ Wait(l)
      PROVE  \A k \in Launchers : KeptServer(k)'
  <2>1. KeptServer(l)'
    BY <1>7 DEF Owned, KeptServer, DoneFails, Leave, Wait, LaunchTypeOK, Nobody, Server
  <2>2. ASSUME NEW k \in Launchers \ {l} PROVE KeptServer(k)'
    BY <1>7, <2>2, OthersKept DEF Owned, DoneFails, Leave, Wait, LaunchTypeOK
  <2> QED
    BY <2>1, <2>2
<1>8. ASSUME alone = {}, NEW l \in Launchers, Listen(l) \/ Fails(l) \/ Announce(l)
      PROVE  \A k \in Launchers : KeptServer(k)'
  <2>1. KeptServer(l)'
    BY <1>8 DEF Owned, KeptServer, Listen, Fails, Announce, LaunchTypeOK, Nobody, Server
  <2>2. ASSUME NEW k \in Launchers \ {l} PROVE KeptServer(k)'
    BY <1>8, <2>2, OthersKept DEF Owned, Listen, Fails, Announce, LaunchTypeOK
  <2> QED
    BY <2>1, <2>2
<1>9. ASSUME alone = {}, NEW l \in Launchers, Shutdown(l) \/ DiesOfPipe(l)
      PROVE  \A k \in Launchers : KeptServer(k)'
  <2>1. pc[l] \in {"leaving", "wait", "exit"} /\ at[l] # Server(l)
    <3>1. CASE Shutdown(l)
      <4>1. at[l] # Server(l)
        BY <3>1 DEF Shutdown, Visited
      <4> QED
        BY <1>9, <3>1, <4>1 DEF Owned, KeptServer, Shutdown
    <3>2. CASE DiesOfPipe(l)
      <4>1. pc[l] = "exit" /\ at[l] = Nobody
        BY <1>9, <3>2 DEF Owned, KeptServer, DiesOfPipe, LaunchTypeOK
      <4>2. Nobody # Server(l)
        BY DEF Nobody, Server
      <4> QED
        BY <4>1, <4>2
    <3> QED
      BY <1>9, <3>1, <3>2
  <2>2. ASSUME NEW k \in Launchers PROVE at'[k] = at[k]
    <3>1. at[k] # Server(l)
      BY <1>9, <2>1, <2>2 DEF Owned, KeptServer, Nobody, Server
    <3> QED
      BY <1>9, <3>1 DEF Shutdown, DiesOfPipe, Ends, LaunchTypeOK
  <2>3. KeptServer(l)'
    BY <1>9, <2>1, <2>2 DEF Owned, KeptServer, Shutdown, DiesOfPipe, Ends, LaunchTypeOK, Nobody, Server
  <2>4. ASSUME NEW k \in Launchers \ {l} PROVE KeptServer(k)'
    BY <1>9, <2>2, <2>4, OthersKept DEF Owned, Shutdown, DiesOfPipe, Ends, LaunchTypeOK
  <2> QED
    BY <2>3, <2>4
<1>10. ASSUME NEW l \in Launchers, SshLost(l) \/ ServerDies(l)
       PROVE  FALSE
  BY <1>10 DEF SshLost, ServerDies
<1>13. ASSUME alone = {}, NEW l \in Launchers, Quits(l)
       PROVE  \A k \in Launchers : KeptServer(k)'
  <2>1. KeptServer(l)'
    BY <1>13 DEF Owned, KeptServer, Quits, LaunchTypeOK, Nobody, Server
  <2>2. ASSUME NEW k \in Launchers \ {l} PROVE KeptServer(k)'
    BY <1>13, <2>2, OthersKept DEF Owned, Quits, LaunchTypeOK
  <2> QED
    BY <2>1, <2>2
<1>11. CASE alone = {}
  BY <1>1, <1>2, <1>3, <1>4, <1>5, <1>6, <1>7, <1>8, <1>9, <1>10, <1>11, <1>13
  DEF LaunchNext, MainStep, ServerStep
<1>12. ASSUME alone # {}
       PROVE  UNCHANGED launchVars
  BY <1>12 DEF LaunchNext, launchVars, MainStep, ServerStep, BadTarget, Start, StartFails,
    ReadyFails, Ready, Open, OpenFails, Dial, Quits, SendDone, Refused, Finish, Cut, Leave, Wait,
    DoneFails, SshLost, Listen, Fails, Announce, Shutdown, DiesOfPipe, ServerDies, Ends
<1> QED
  BY <1>1, <1>11, <1>12

\* As long as every launcher has waited for READY and kept its ssh and its server, every client
\* talks to the server that its own launcher started, whatever the other launchers and their
\* servers do. One server's death by an error is enough to let its client reach another's.
THEOREM LaunchOwnServer == LaunchSpec => []OwnServer
<1>1. LaunchTypeOK /\ Owned /\ [LaunchNext]_launchVars => Owned'
  BY PortsStep, KeptStep DEF Owned
<1>2. Owned => OwnServer
  BY DEF Owned, OwnServer, KeptServer
<1> QED
  BY <1>1, <1>2, LaunchInitType, LaunchTypeStep, OwnedInit, PTL DEF LaunchSpec
=============================================================================
