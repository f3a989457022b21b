------------------------ MODULE ResultMappingProofs ------------------------
(***************************************************************************)
(* Every response of SearXNG, of any length and with texts of any length,  *)
(* comes out clean and otherwise itself.  sanitizeOutput's recursion is    *)
(* reasoned about by its least counterexample.                             *)
(***************************************************************************)
EXTENDS ResultMapping, FiniteSetTheorems, WellFoundedInduction, TLAPS

-----------------------------------------------------------------------------
(* sanitizeOutput *)

(* A set of lengths that is not empty has a least element. *)
LEMMA Least == \A T \in SUBSET Nat : T # {} => \E x \in T : \A y \in T : x <= y
  <1> SUFFICES ASSUME NEW T \in SUBSET Nat, T # {}
               PROVE  \E x \in T : \A y \in T : x <= y
    OBVIOUS
  <1>1. PICK x \in T : \A y \in T : ~ (<<y, x>> \in OpToRel(<, Nat))
    BY NatLessThanWellFounded, WFMin
  <1>2. \A y \in T : ~(y < x)
    BY <1>1 DEF OpToRel
  <1> QED
    BY <1>2

(* f[k] is what is kept of the first k code points of s. *)
Keeps(f, s, n) ==
  f = [k \in 0..n |-> IF k = 0 THEN <<>>
                      ELSE IF Kept(s[k]) THEN Append(f[k - 1], s[k])
                      ELSE f[k - 1]]

(* The recursive function of KeptOf is defined for every prefix. *)
LEMMA KeepsExists ==
  ASSUME NEW s \in Text
  PROVE  \A n \in 0..Len(s) : \E f : Keeps(f, s, n)
  <1> DEFINE bad == {n \in 0..Len(s) : ~ \E f : Keeps(f, s, n)}
  <1> SUFFICES ASSUME bad # {}
               PROVE  FALSE
    OBVIOUS
  <1>1. PICK n \in bad : \A m \in bad : n <= m
    <2>1. bad \in SUBSET Nat
      OBVIOUS
    <2> HIDE DEF bad
    <2> QED
      BY <2>1, Least
  <1>2. CASE n = 0
    <2>1. \A k \in 0..0 : k = 0
      OBVIOUS
    <2>2. Keeps([k \in 0..0 |-> <<>>], s, 0)
      BY <2>1, Zenon DEF Keeps
    <2> QED
      BY <1>2, <1>1, <2>2
  <1>3. CASE n # 0
    <2>1. n - 1 \in 0..Len(s) /\ n - 1 \notin bad /\ n \in 1..Len(s)
      <3>1. n \in 0..Len(s) /\ Len(s) \in Nat
        BY <1>1 DEF Text
      <3>2. n - 1 \in 0..Len(s) /\ n \in 1..Len(s) /\ ~(n <= n - 1)
        BY <1>3, <3>1
      <3> HIDE DEF bad
      <3> QED
        BY <1>1, <3>2
    <2>2. PICK f : Keeps(f, s, n - 1)
      BY <2>1
    <2> DEFINE last == IF Kept(s[n]) THEN Append(f[n - 1], s[n]) ELSE f[n - 1]
               g == [k \in 0..n |-> IF k = n THEN last ELSE f[k]]
    <2> HIDE DEF last
    <2>3. ASSUME NEW k \in 0..n
          PROVE  g[k] = IF k = 0 THEN <<>>
                        ELSE IF Kept(s[k]) THEN Append(g[k - 1], s[k])
                        ELSE g[k - 1]
      <3>1. CASE k = n
        <4>1. g[n] = last /\ g[n - 1] = f[n - 1]
          BY <2>1
        <4> HIDE DEF g
        <4> QED
          BY <1>3, <3>1, <4>1 DEF last
      <3>2. CASE k # n
        <4>1. k \in 0..(n - 1)
          BY <2>1, <3>2
        <4>2. f[k] = IF k = 0 THEN <<>>
                     ELSE IF Kept(s[k]) THEN Append(f[k - 1], s[k])
                     ELSE f[k - 1]
          BY <2>2, <4>1 DEF Keeps
        <4>3. k # 0 => k - 1 \in 0..n /\ k - 1 # n
          BY <2>1, <4>1
        <4>4. g[k] = f[k] /\ (k # 0 => g[k - 1] = f[k - 1])
          BY <3>2, <4>3
        <4> HIDE DEF g
        <4> QED
          BY <4>2, <4>4
      <3> QED
        BY <3>1, <3>2
    <2>4. g = [k \in 0..n |-> g[k]]
      OBVIOUS
    <2>5. Keeps(g, s, n)
      <3> HIDE DEF g
      <3> QED
        BY <2>3, <2>4 DEF Keeps
    <2> QED
      BY <1>1, <2>5
  <1> QED
    BY <1>2, <1>3

(* What KeptOf computes, step by step. *)
LEMMA KeptOfIs ==
  ASSUME NEW s \in Text, NEW n \in Nat, n = Len(s)
  PROVE  \A k \in 0..n : KeptOf(s)[k] = IF k = 0 THEN <<>>
                                        ELSE IF Kept(s[k]) THEN Append(KeptOf(s)[k - 1], s[k])
                                        ELSE KeptOf(s)[k - 1]
  <1>1. \E f : Keeps(f, s, n)
    <2>1. n \in 0..Len(s)
      OBVIOUS
    <2> QED
      BY <2>1, KeepsExists
  <1> DEFINE g == CHOOSE f : Keeps(f, s, n)
  <1>2. Keeps(g, s, n)
    BY <1>1
  <1>3. KeptOf(s) = g
    BY DEF KeptOf, Keeps
  <1> HIDE DEF g
  <1> QED
    BY <1>2, <1>3 DEF Keeps

(* The code points kept are those that are not forbidden. *)
LEMMA KeptIs ==
  ASSUME NEW r \in Nat
  PROVE  Kept(r) <=> r \notin Forbidden
  BY DEF Kept, Forbidden

(* The place a code point of t moves to. *)
Place(t, k) == Cardinality({j \in 1..k : t[j] \notin Forbidden})

(* Only the code points that are kept move the place on. *)
LEMMA PlaceFacts ==
  ASSUME NEW t
  PROVE  /\ Place(t, 0) = 0
         /\ \A k \in Nat : Place(t, k) \in Nat
         /\ \A k \in Nat : Place(t, k + 1) = IF t[k + 1] \notin Forbidden THEN Place(t, k) + 1
                                             ELSE Place(t, k)
  <1> DEFINE kept(k) == {j \in 1..k : t[j] \notin Forbidden}
  <1>1. \A k \in Nat : IsFiniteSet(kept(k))
    <2> SUFFICES ASSUME NEW k \in Nat
                 PROVE  IsFiniteSet(kept(k))
      OBVIOUS
    <2>1. IsFiniteSet(1..k)
      BY FS_Interval
    <2>2. kept(k) \subseteq 1..k
      OBVIOUS
    <2> QED
      BY <2>1, <2>2, FS_Subset
  <1>2. kept(0) = {}
    OBVIOUS
  <1>3. \A k \in Nat : Place(t, k) \in Nat
    BY <1>1, FS_CardinalityType DEF Place
  <1>4. Place(t, 0) = 0
    BY <1>2, FS_EmptySet DEF Place
  <1>5. ASSUME NEW k \in Nat
        PROVE  Place(t, k + 1) = IF t[k + 1] \notin Forbidden THEN Place(t, k) + 1
                                 ELSE Place(t, k)
    <2>1. CASE t[k + 1] \notin Forbidden
      <3>1. kept(k + 1) = kept(k) \cup {k + 1} /\ k + 1 \notin kept(k)
        BY <2>1
      <3>2. Cardinality(kept(k) \cup {k + 1}) = Cardinality(kept(k)) + 1
        BY <1>1, <3>1, FS_AddElement
      <3> QED
        BY <2>1, <3>1, <3>2 DEF Place
    <2>2. CASE t[k + 1] \in Forbidden
      <3>1. kept(k + 1) = kept(k)
        BY <2>2
      <3> QED
        BY <2>2, <3>1 DEF Place
    <2> QED
      BY <2>1, <2>2
  <1> QED
    BY <1>3, <1>4, <1>5

(* What is kept of the first k code points: those that are not forbidden,  *)
(* each at its place, and no other.                                        *)
KeptRight(out, s, k) ==
  /\ out \in Seq(Nat) /\ Len(out) = Place(s, k)
  /\ \A i \in 1..Len(out) : out[i] \notin Forbidden
  /\ \A j \in 1..k : s[j] \notin Forbidden =>
       Place(s, j) \in 1..Len(out) /\ out[Place(s, j)] = s[j]

(* A code point more. *)
LEMMA KeepOne ==
  ASSUME NEW s \in Text, NEW k \in Nat, k + 1 <= Len(s), NEW out, KeptRight(out, s, k)
  PROVE  KeptRight(IF Kept(s[k + 1]) THEN Append(out, s[k + 1]) ELSE out, s, k + 1)
  <1>1. s[k + 1] \in Nat
    BY DEF Text
  <1>2. Kept(s[k + 1]) <=> s[k + 1] \notin Forbidden
    BY <1>1, KeptIs
  <1>3. \A j \in 1..(k + 1) : j \in 1..k \/ j = k + 1
    OBVIOUS
  <1>4. CASE s[k + 1] \in Forbidden
    <2>1. Place(s, k + 1) = Place(s, k)
      BY <1>4, PlaceFacts
    <2> QED
      BY <1>2, <1>3, <1>4, <2>1 DEF KeptRight
  <1>5. CASE s[k + 1] \notin Forbidden
    <2>1. Place(s, k + 1) = Place(s, k) + 1 /\ Place(s, k) \in Nat
      BY <1>5, PlaceFacts
    <2>2. PICK longer : longer = Append(out, s[k + 1])
      OBVIOUS
    <2>3. /\ out \in Seq(Nat) /\ Len(out) = Place(s, k)
          /\ \A i \in 1..Len(out) : out[i] \notin Forbidden
      BY DEF KeptRight
    <2>4. /\ longer \in Seq(Nat) /\ Len(longer) = Len(out) + 1
          /\ longer[Len(out) + 1] = s[k + 1] /\ \A i \in 1..Len(out) : longer[i] = out[i]
      BY <1>1, <2>2, <2>3
    <2>5. \A i \in 1..Len(longer) : longer[i] \notin Forbidden
      <3>1. \A i \in 1..(Len(out) + 1) : i \in 1..Len(out) \/ i = Len(out) + 1
        BY <2>3
      <3> QED
        BY <1>5, <2>3, <2>4, <3>1
    <2>6. ASSUME NEW j \in 1..(k + 1), s[j] \notin Forbidden
          PROVE  Place(s, j) \in 1..Len(longer) /\ longer[Place(s, j)] = s[j]
      <3>1. CASE j = k + 1
        BY <2>1, <2>3, <2>4, <3>1
      <3>2. CASE j \in 1..k
        <4>1. Place(s, j) \in 1..Len(out) /\ out[Place(s, j)] = s[j]
          BY <2>6, <3>2 DEF KeptRight
        <4>2. Place(s, j) \in 1..Len(longer)
          BY <2>1, <2>3, <2>4, <4>1
        <4> QED
          BY <2>4, <4>1, <4>2
      <3> QED
        BY <1>3, <3>1, <3>2
    <2>7. KeptRight(longer, s, k + 1)
      BY <2>1, <2>3, <2>4, <2>5, <2>6 DEF KeptRight
    <2> QED
      BY <1>2, <1>5, <2>2, <2>7
  <1> QED
    BY <1>4, <1>5

(* Every prefix is kept right. *)
LEMMA KeptOfRight ==
  ASSUME NEW s \in Text
  PROVE  \A k \in 0..Len(s) : KeptRight(KeptOf(s)[k], s, k)
  <1> DEFINE f == KeptOf(s)
             bad == {k \in 0..Len(s) : ~KeptRight(f[k], s, k)}
  <1> HIDE DEF f
  <1> SUFFICES ASSUME bad # {}
               PROVE  FALSE
    BY DEF f
  <1>1. PICK k \in bad : \A m \in bad : k <= m
    <2>1. bad \in SUBSET Nat
      OBVIOUS
    <2> HIDE DEF bad
    <2> QED
      BY <2>1, Least
  <1>2. k \in 0..Len(s) /\ Len(s) \in Nat /\ ~KeptRight(f[k], s, k)
    BY <1>1 DEF Text
  <1>3. f[k] = IF k = 0 THEN <<>>
               ELSE IF Kept(s[k]) THEN Append(f[k - 1], s[k]) ELSE f[k - 1]
    BY <1>2, KeptOfIs DEF f
  <1>4. CASE k = 0
    BY <1>2, <1>3, <1>4, PlaceFacts DEF KeptRight
  <1>5. CASE k # 0
    <2>1. k - 1 \in Nat /\ k - 1 \in 0..Len(s) /\ (k - 1) + 1 = k /\ k <= Len(s) /\ ~(k <= k - 1)
      BY <1>2, <1>5
    <2>2. k - 1 \notin bad
      <3> HIDE DEF bad
      <3> QED
        BY <1>1, <2>1
    <2>3. KeptRight(f[k - 1], s, k - 1)
      BY <2>1, <2>2
    <2> HIDE DEF bad
    <2>4. KeptRight(IF Kept(s[k]) THEN Append(f[k - 1], s[k]) ELSE f[k - 1], s, k)
      BY <2>1, <2>3, KeepOne
    <2> QED
      BY <1>2, <1>3, <1>5, <2>4
  <1> QED
    BY <1>4, <1>5

(* sanitizeOutput takes the forbidden characters out and nothing else. *)
LEMMA Sanitized ==
  ASSUME NEW s \in Text
  PROVE  Elements(SanitizeOutput(s)) \cap Forbidden = {} /\ Cleaned(SanitizeOutput(s), s)
  <1> DEFINE out == SanitizeOutput(s)
  <1>1. Len(s) \in 0..Len(s) /\ DOMAIN s = 1..Len(s)
    BY DEF Text
  <1>2. KeptRight(out, s, Len(s))
    BY <1>1, KeptOfRight DEF SanitizeOutput
  <1> HIDE DEF out
  <1>3. Elements(out) \cap Forbidden = {}
    <2>1. DOMAIN out = 1..Len(out)
      BY <1>2 DEF KeptRight
    <2> QED
      BY <1>2, <2>1 DEF KeptRight, Elements
  <1>4. Cleaned(out, s)
    BY <1>1, <1>2 DEF KeptRight, Cleaned, Place
  <1> QED
    BY <1>3, <1>4 DEF out

-----------------------------------------------------------------------------
(* The invariant *)

(* Each stage has what the one before it made of SearXNG's answer. *)
ResultInv ==
  /\ raw \in RawResponses /\ maxResults \in Limits
  /\ stage = "converted" => response = ToDomain(raw)
  /\ stage = "built" => output = ToOutput(ToDomain(raw))

(* The invariant holds: toDomain and searchHelper run one after the other *)
(* and change nothing else.                                               *)
LEMMA ResultInvariant == Spec => []ResultInv
  <1>1. Init => ResultInv
    BY DEF Init, ResultInv
  <1>2. ResultInv /\ [Next \/ Built]_vars => ResultInv'
    <2> SUFFICES ASSUME ResultInv, [Next \/ Built]_vars
                 PROVE  ResultInv'
      OBVIOUS
    <2>1. CASE Convert
      BY <2>1 DEF ResultInv, Convert
    <2>2. CASE Build
      <3>1. /\ response = ToDomain(raw) /\ output' = ToOutput(response)
            /\ stage' = "built" /\ UNCHANGED <<raw, maxResults, response>>
        BY <2>2 DEF ResultInv, Build
      <3>2. ToOutput(ToDomain(raw))' = ToOutput(response)
        BY <3>1 DEF ToOutput, Truncated
      <3> QED
        BY <3>1, <3>2 DEF ResultInv
    <2>3. CASE UNCHANGED vars
      BY <2>3 DEF ResultInv, vars, ToOutput, Truncated
    <2> QED
      BY <2>1, <2>2, <2>3 DEF Next, Built
  <1> QED
    BY <1>1, <1>2, PTL DEF Spec

-----------------------------------------------------------------------------
(* The fields of an output *)

(* max_results cuts what is beyond it and moves nothing. *)
LEMMA TruncatedFacts ==
  ASSUME NEW S, NEW results \in Seq(S), maxResults \in Optional(Nat)
  PROVE  /\ Truncated(results) \in Seq(S) /\ Len(Truncated(results)) <= Len(results)
         /\ maxResults = {} => Len(Truncated(results)) = Len(results)
         /\ \A n \in maxResults :
              Len(Truncated(results)) = IF n < Len(results) THEN n ELSE Len(results)
         /\ \A k \in 1..Len(Truncated(results)) : Truncated(results)[k] = results[k]
  <1> DEFINE cut == Min({Len(results)} \cup maxResults)
  <1>1. Len(results) \in Nat
    OBVIOUS
  <1>2. maxResults = {} => cut = Len(results)
    BY <1>1 DEF Min
  <1>3. ASSUME NEW n \in maxResults
        PROVE  n \in Nat /\ cut = IF n < Len(results) THEN n ELSE Len(results)
    <2>1. maxResults = {n} /\ n \in Nat
      BY DEF Optional
    <2>2. {Len(results)} \cup maxResults = {Len(results), n}
      BY <2>1
    <2>3. cut = CHOOSE x \in {Len(results), n} : \A y \in {Len(results), n} : x <= y
      BY <2>2, Zenon DEF Min
    <2> HIDE DEF cut
    <2> QED
      BY <1>1, <2>1, <2>3
  <1>4. cut \in Nat /\ cut <= Len(results)
    <2> HIDE DEF cut
    <2>1. CASE maxResults = {}
      BY <1>1, <1>2, <2>1
    <2>2. CASE maxResults # {}
      <3>1. PICK n : n \in maxResults
        BY <2>2
      <3> QED
        BY <1>1, <1>3, <3>1
    <2> QED
      BY <2>1, <2>2
  <1>5. Truncated(results) = SubSeq(results, 1, cut)
    BY DEF Truncated
  <1> HIDE DEF cut
  <1>6. /\ SubSeq(results, 1, cut) \in Seq(S) /\ Len(SubSeq(results, 1, cut)) = cut
        /\ \A k \in 1..cut : SubSeq(results, 1, cut)[k] = results[k]
    BY <1>1, <1>4
  <1> QED
    BY <1>2, <1>3, <1>4, <1>5, <1>6

(* The typed fields of SearXNG's answer. *)
LEMMA RawFacts ==
  ASSUME ResultInv
  PROVE  /\ raw \in ResponseType /\ maxResults \in Optional(Nat)
         /\ raw.query \in Text /\ raw.results \in Seq(ResultType)
         /\ raw.answers \in Seq(AnswerType) /\ raw.infoboxes \in Seq(InfoboxType)
         /\ raw.suggestions \in Seq(Text)
  <1>1. raw \in ResponseType /\ maxResults \in Optional(Nat)
    BY InputsAssumption DEF ResultInv
  <1> QED
    BY <1>1 DEF ResponseType

(* Each field of an output comes from the same field of the answer. *)
LEMMA OutputIs ==
  ASSUME ResultInv, stage = "built"
  PROVE  /\ output.query = SanitizeOutput(raw.query)
         /\ output.numberOfResults = raw.numberOfResults
         /\ output.answers =
              [k \in DOMAIN raw.answers |-> SanitizeOutput(AnswerToString(raw.answers[k]))]
         /\ output.suggestions =
              [k \in DOMAIN raw.suggestions |-> SanitizeOutput(raw.suggestions[k])]
         /\ output.infoboxes = [k \in DOMAIN raw.infoboxes |-> InfoboxItem(raw.infoboxes[k])]
  <1>1. output = ToOutput(ToDomain(raw))
    BY DEF ResultInv
  <1> QED
    BY <1>1 DEF ToOutput, ToDomain, Map

(* The results of an output are the first ones of the answer. *)
LEMMA ResultsAre ==
  ASSUME ResultInv, stage = "built"
  PROVE  \E n \in Nat :
           /\ DOMAIN output.results = 1..n /\ Len(output.results) = n /\ n <= Len(raw.results)
           /\ maxResults = {} => n = Len(raw.results)
           /\ \A m \in maxResults : n = IF m < Len(raw.results) THEN m ELSE Len(raw.results)
           /\ \A k \in 1..n : /\ output.results[k] = Item(ResultToDomain(raw.results[k]))
                              /\ raw.results[k] \in ResultType
  <1> DEFINE converted == Map(ResultToDomain, raw.results)
             cut == Truncated(converted)
             n == Len(cut)
             any == {ResultToDomain(r) : r \in ResultType}
  <1>1. raw.results \in Seq(ResultType) /\ maxResults \in Optional(Nat)
    BY RawFacts
  <1>2. /\ converted \in Seq(any) /\ Len(converted) = Len(raw.results)
        /\ \A k \in 1..Len(raw.results) : converted[k] = ResultToDomain(raw.results[k])
    <2>1. converted = [k \in 1..Len(raw.results) |-> ResultToDomain(raw.results[k])]
      BY <1>1 DEF Map
    <2>2. \A k \in 1..Len(raw.results) : ResultToDomain(raw.results[k]) \in any
      BY <1>1
    <2> HIDE DEF any, converted
    <2> QED
      BY <1>1, <2>1, <2>2
  <1> HIDE DEF converted, any
  <1>3. /\ cut \in Seq(any) /\ n <= Len(converted)
        /\ maxResults = {} => n = Len(converted)
        /\ \A m \in maxResults : n = IF m < Len(converted) THEN m ELSE Len(converted)
        /\ \A k \in 1..n : cut[k] = converted[k]
    BY <1>1, <1>2, TruncatedFacts
  <1>4. output.results = [k \in DOMAIN cut |-> Item(cut[k])]
    <2>1. output = ToOutput(ToDomain(raw))
      BY DEF ResultInv
    <2>2. ToDomain(raw).results = converted
      BY DEF ToDomain, converted
    <2> HIDE DEF cut
    <2>3. ToOutput(ToDomain(raw)).results = Map(Item, Truncated(ToDomain(raw).results))
      BY DEF ToOutput
    <2> QED
      BY <2>1, <2>2, <2>3 DEF Map, cut
  <1> HIDE DEF cut
  <1>5. n \in Nat /\ DOMAIN cut = 1..n
    BY <1>3
  <1>6. DOMAIN output.results = 1..n /\ \A k \in 1..n : output.results[k] = Item(cut[k])
    BY <1>4, <1>5
  <1>7. Len(output.results) = n
    <2>1. output.results = [k \in 1..n |-> Item(cut[k])]
      BY <1>4, <1>5
    <2> HIDE DEF n
    <2> QED
      BY <1>5, <2>1
  <1>8. \A k \in 1..n : k \in 1..Len(raw.results)
    BY <1>1, <1>2, <1>3, <1>5
  <1> HIDE DEF n
  <1> QED
    BY <1>1, <1>2, <1>3, <1>5, <1>6, <1>7, <1>8

-----------------------------------------------------------------------------
(* What a client gets is clean *)

(* A text is clean if sanitizeOutput would leave it as it is. *)
Clean(s) == Elements(s) \cap Forbidden = {}

(* A result: its own fields, its texts clean. *)
LEMMA ItemFacts ==
  ASSUME NEW q \in ResultType
  PROVE  LET item == Item(ResultToDomain(q))
         IN /\ item.text = [f \in DOMAIN q.text |-> SanitizeOutput(q.text[f])]
            /\ \A f \in DOMAIN q.text : q.text[f] \in Text
            /\ item.url = SanitizeURL(q.url) /\ item.imgSrc = SanitizeImgSrc(q.imgSrc)
            /\ item.publishedDate = PublishedDate(q)
            /\ item.formattedDate = FormatDate(PublishedDate(q))
            /\ \A s \in Elements(item.text) \cup item.source : Clean(s)
  <1> DEFINE item == Item(ResultToDomain(q))
  <1>1. /\ item.text = [f \in DOMAIN q.text |-> SanitizeOutput(q.text[f])]
        /\ item.url = SanitizeURL(q.url) /\ item.imgSrc = SanitizeImgSrc(q.imgSrc)
        /\ item.publishedDate = PublishedDate(q)
        /\ item.formattedDate = FormatDate(PublishedDate(q))
        /\ item.source = SanitizeOutputPtr(q.source)
    BY DEF Item, ResultToDomain
  <1> HIDE DEF item
  <1>2. q.text \in [{"title", "content", "engine", "category"} -> Text] /\ q.source \in Optional(Text)
    BY DEF ResultType
  <1>3. \A f \in DOMAIN q.text : q.text[f] \in Text
    BY <1>2
  <1>4. \A s \in Elements(item.text) : Clean(s)
    BY <1>1, <1>3, Sanitized DEF Elements, Clean
  <1>5. \A s \in item.source : Clean(s)
    BY <1>1, <1>2, Sanitized DEF Optional, SanitizeOutputPtr, Clean
  <1> QED
    BY <1>1, <1>3, <1>4, <1>5 DEF item

(* An infobox: its own links, its texts clean. *)
LEMMA InfoboxFacts ==
  ASSUME NEW q \in InfoboxType
  PROVE  LET b == InfoboxItem(q)
         IN /\ b.url = SanitizeURL(q.url) /\ b.imgSrc = SanitizeImgSrc(q.imgSrc)
            /\ \A u \in Elements(b.urls) :
                 \E v \in Elements(q.urls) : u.url = SanitizeURL(v.url)
            /\ \A s \in TextsOfInfobox(b) : Clean(s)
  <1> DEFINE b == InfoboxItem(q)
  <1>1. /\ b.text = [f \in DOMAIN q.text |-> SanitizeOutput(q.text[f])]
        /\ b.url = SanitizeURL(q.url) /\ b.imgSrc = SanitizeImgSrc(q.imgSrc)
        /\ b.attributes = [k \in DOMAIN q.attributes |-> AttributeItem(q.attributes[k])]
        /\ b.urls = [k \in DOMAIN q.urls |-> URLItem(q.urls[k])]
    BY DEF InfoboxItem, Map
  <1> HIDE DEF b
  <1>2. /\ q.text \in [{"id", "content", "engine"} -> Text]
        /\ q.attributes \in Seq([key : Text, value : Text])
        /\ q.urls \in Seq([title : Text, url : URLType])
    BY DEF InfoboxType
  <1>3. \A s \in Elements(b.text) : Clean(s)
    <2>1. \A f \in DOMAIN q.text : q.text[f] \in Text
      BY <1>2
    <2> QED
      BY <1>1, <2>1, Sanitized DEF Elements, Clean
  <1>4. \A a \in Elements(b.attributes) : Clean(a.key) /\ Clean(a.value)
    <2>1. \A k \in DOMAIN q.attributes :
            q.attributes[k].key \in Text /\ q.attributes[k].value \in Text
      <3>1. \A k \in DOMAIN q.attributes : q.attributes[k] \in [key : Text, value : Text]
        <4> DEFINE AttributeType == [key : Text, value : Text]
        <4>1. q.attributes \in Seq(AttributeType)
          BY <1>2
        <4> HIDE DEF AttributeType
        <4>2. \A k \in DOMAIN q.attributes : q.attributes[k] \in AttributeType
          BY <4>1
        <4> QED
          BY <4>2 DEF AttributeType
      <3>2. \A a \in [key : Text, value : Text] : a.key \in Text /\ a.value \in Text
        OBVIOUS
      <3> QED
        BY <3>1, <3>2, Zenon
    <2> QED
      BY <1>1, <2>1, Sanitized DEF Elements, Clean, AttributeItem
  <1>5. \A u \in Elements(b.urls) : Clean(u.title)
    <2>1. \A k \in DOMAIN q.urls : q.urls[k].title \in Text
      <3>1. \A k \in DOMAIN q.urls : q.urls[k] \in [title : Text, url : URLType]
        <4> DEFINE LinkType == [title : Text, url : URLType]
        <4>1. q.urls \in Seq(LinkType)
          BY <1>2
        <4> HIDE DEF LinkType
        <4>2. \A k \in DOMAIN q.urls : q.urls[k] \in LinkType
          BY <4>1
        <4> QED
          BY <4>2 DEF LinkType
      <3>2. \A u \in [title : Text, url : URLType] : u.title \in Text
        OBVIOUS
      <3> QED
        BY <3>1, <3>2, Zenon
    <2> QED
      BY <1>1, <2>1, Sanitized DEF Elements, Clean, URLItem
  <1>6. \A u \in Elements(b.urls) : \E v \in Elements(q.urls) : u.url = SanitizeURL(v.url)
    <2>1. /\ DOMAIN b.urls = DOMAIN q.urls
          /\ \A k \in DOMAIN q.urls : b.urls[k].url = SanitizeURL(q.urls[k].url)
      BY <1>1 DEF URLItem
    <2> QED
      BY <2>1, Zenon DEF Elements
  <1>7. \A s \in TextsOfInfobox(b) : Clean(s)
    <2> SUFFICES ASSUME NEW s \in TextsOfInfobox(b)
                 PROVE  Clean(s)
      OBVIOUS
    <2>1. CASE s \in Elements(b.text)
      BY <1>3, <2>1
    <2>2. CASE s \in UNION {{a.key, a.value} : a \in Elements(b.attributes)}
      <3>1. PICK a \in Elements(b.attributes) : s \in {a.key, a.value}
        BY <2>2
      <3> QED
        BY <1>4, <3>1
    <2>3. CASE s \in {u.title : u \in Elements(b.urls)}
      BY <1>5, <2>3
    <2> QED
      BY <2>1, <2>2, <2>3 DEF TextsOfInfobox
  <1> QED
    BY <1>1, <1>6, <1>7 DEF b

(* The results and infoboxes of an output are made of those of the answer. *)
LEMMA PartsOfOutput ==
  ASSUME ResultInv, stage = "built"
  PROVE  /\ \A r \in Elements(output.results) :
              \E q \in ResultType : q \in Elements(raw.results) /\ r = Item(ResultToDomain(q))
         /\ \A b \in Elements(output.infoboxes) :
              \E q \in InfoboxType : q \in Elements(raw.infoboxes) /\ b = InfoboxItem(q)
  <1>1. raw.results \in Seq(ResultType) /\ raw.infoboxes \in Seq(InfoboxType)
    BY RawFacts
  <1>2. ASSUME NEW r \in Elements(output.results)
        PROVE  \E q \in ResultType : q \in Elements(raw.results) /\ r = Item(ResultToDomain(q))
    <2>1. PICK n \in Nat :
             /\ DOMAIN output.results = 1..n /\ n <= Len(raw.results)
             /\ \A k \in 1..n : /\ output.results[k] = Item(ResultToDomain(raw.results[k]))
                                /\ raw.results[k] \in ResultType
      BY ResultsAre
    <2>2. PICK k \in 1..n : r = output.results[k]
      BY <2>1 DEF Elements
    <2>3. k \in DOMAIN raw.results
      BY <1>1, <2>1
    <2> QED
      BY <2>1, <2>2, <2>3, Zenon DEF Elements
  <1>3. ASSUME NEW b \in Elements(output.infoboxes)
        PROVE  \E q \in InfoboxType : q \in Elements(raw.infoboxes) /\ b = InfoboxItem(q)
    <2>1. output.infoboxes = [k \in DOMAIN raw.infoboxes |-> InfoboxItem(raw.infoboxes[k])]
      BY OutputIs
    <2>2. PICK k \in DOMAIN raw.infoboxes : b = InfoboxItem(raw.infoboxes[k])
      BY <2>1 DEF Elements
    <2>3. raw.infoboxes[k] \in InfoboxType
      BY <1>1
    <2> QED
      BY <2>2, <2>3, Zenon DEF Elements
  <1> QED
    BY <1>2, <1>3

(* Every text of an output has been sanitised. *)
LEMMA TextsClean ==
  ASSUME ResultInv, stage = "built", NEW s \in TextsOf(output)
  PROVE  Clean(s)
  <1>1. CASE s = output.query
    BY <1>1, OutputIs, RawFacts, Sanitized DEF Clean
  <1>2. CASE s \in Elements(output.answers)
    <2>1. PICK k \in DOMAIN raw.answers : s = SanitizeOutput(AnswerToString(raw.answers[k]))
      BY <1>2, OutputIs DEF Elements
    <2>2. raw.answers[k] \in AnswerType
      BY RawFacts
    <2>3. <<>> \in Text
      BY DEF Text
    <2>4. AnswerToString(raw.answers[k]) \in Text
      BY <2>2, <2>3 DEF AnswerToString, AnswerType
    <2> QED
      BY <2>1, <2>4, Sanitized DEF Clean
  <1>3. CASE s \in Elements(output.suggestions)
    <2>1. PICK k \in DOMAIN raw.suggestions : s = SanitizeOutput(raw.suggestions[k])
      BY <1>3, OutputIs DEF Elements
    <2>2. raw.suggestions[k] \in Text
      BY RawFacts
    <2> QED
      BY <2>1, <2>2, Sanitized DEF Clean
  <1>4. ASSUME NEW r \in Elements(output.results), s \in Elements(r.text) \cup r.source
        PROVE  Clean(s)
    BY <1>4, PartsOfOutput, ItemFacts
  <1>5. ASSUME NEW b \in Elements(output.infoboxes), s \in TextsOfInfobox(b)
        PROVE  Clean(s)
    BY <1>5, PartsOfOutput, InfoboxFacts
  <1>6. CASE s \in UNION {Elements(r.text) \cup r.source : r \in Elements(output.results)}
    <2>1. PICK r \in Elements(output.results) : s \in Elements(r.text) \cup r.source
      BY <1>6
    <2> QED
      BY <1>4, <2>1
  <1>7. CASE s \in UNION {TextsOfInfobox(b) : b \in Elements(output.infoboxes)}
    <2>1. PICK b \in Elements(output.infoboxes) : s \in TextsOfInfobox(b)
      BY <1>7
    <2> QED
      BY <1>5, <2>1
  <1> QED
    BY <1>1, <1>2, <1>3, <1>6, <1>7 DEF TextsOf

(* A link comes from one of the answer's through sanitizeURL. *)
LEMMA LinksFrom ==
  ASSUME ResultInv, stage = "built", NEW l \in LinksOf(output)
  PROVE  \E u \in LinksOf(raw) : l = SanitizeURL(u)
  <1>1. ASSUME NEW r \in Elements(output.results), l = r.url
        PROVE  \E u \in LinksOf(raw) : l = SanitizeURL(u)
    <2>1. PICK q \in ResultType : q \in Elements(raw.results) /\ r = Item(ResultToDomain(q))
      BY PartsOfOutput
    <2>2. l = SanitizeURL(q.url)
      BY <1>1, <2>1, ItemFacts
    <2>3. q.url \in LinksOf(raw)
      BY <2>1 DEF LinksOf
    <2> QED
      BY <2>2, <2>3
  <1>2. ASSUME NEW b \in Elements(output.infoboxes),
               l \in {b.url} \cup {u.url : u \in Elements(b.urls)}
        PROVE  \E u \in LinksOf(raw) : l = SanitizeURL(u)
    <2>1. PICK q \in InfoboxType : q \in Elements(raw.infoboxes) /\ b = InfoboxItem(q)
      BY PartsOfOutput
    <2>2. {q.url} \cup {u.url : u \in Elements(q.urls)} \subseteq LinksOf(raw)
      BY <2>1 DEF LinksOf
    <2>3. CASE l = b.url
      BY <2>1, <2>2, <2>3, InfoboxFacts
    <2>4. CASE l \in {u.url : u \in Elements(b.urls)}
      <3>1. PICK v \in Elements(q.urls) : l = SanitizeURL(v.url)
        BY <2>1, <2>4, InfoboxFacts
      <3> QED
        BY <2>2, <3>1
    <2> QED
      BY <1>2, <2>3, <2>4
  <1> QED
    BY <1>1, <1>2 DEF LinksOf

(* An image comes from one of the answer's through sanitizeImgSrc. *)
LEMMA ImagesFrom ==
  ASSUME ResultInv, stage = "built", NEW i \in ImagesOf(output)
  PROVE  \E u \in ImagesOf(raw) : u.text = i /\ u.scheme \in {"", "http", "https", "data"}
  <1>1. ASSUME NEW r \in Elements(output.results), i \in r.imgSrc
        PROVE  \E u \in ImagesOf(raw) : u.text = i /\ u.scheme \in {"", "http", "https", "data"}
    <2>1. PICK q \in ResultType : q \in Elements(raw.results) /\ r = Item(ResultToDomain(q))
      BY PartsOfOutput
    <2>2. i \in SanitizeImgSrc(q.imgSrc)
      BY <1>1, <2>1, ItemFacts
    <2>3. q.imgSrc \subseteq ImagesOf(raw)
      BY <2>1 DEF ImagesOf
    <2> QED
      BY <2>2, <2>3 DEF SanitizeImgSrc
  <1>2. ASSUME NEW b \in Elements(output.infoboxes), i \in b.imgSrc
        PROVE  \E u \in ImagesOf(raw) : u.text = i /\ u.scheme \in {"", "http", "https", "data"}
    <2>1. PICK q \in InfoboxType : q \in Elements(raw.infoboxes) /\ b = InfoboxItem(q)
      BY PartsOfOutput
    <2>2. i \in SanitizeImgSrc(q.imgSrc)
      BY <1>2, <2>1, InfoboxFacts
    <2>3. q.imgSrc \subseteq ImagesOf(raw)
      <3>1. q.imgSrc \subseteq UNION {box.imgSrc : box \in Elements(raw.infoboxes)}
        BY <2>1
      <3> QED
        BY <3>1 DEF ImagesOf
    <2> QED
      BY <2>2, <2>3 DEF SanitizeImgSrc
  <1> QED
    <2>1. CASE i \in UNION {r.imgSrc : r \in Elements(output.results)}
      <3>1. PICK r \in Elements(output.results) : i \in r.imgSrc
        BY <2>1
      <3> QED
        BY <1>1, <3>1
    <2>2. CASE i \in UNION {b.imgSrc : b \in Elements(output.infoboxes)}
      <3>1. PICK b \in Elements(output.infoboxes) : i \in b.imgSrc
        BY <2>2
      <3> QED
        BY <1>2, <3>1
    <2> QED
      BY <2>1, <2>2 DEF ImagesOf

(* Every text a client gets has been sanitised, every link is empty or of  *)
(* http or https, every image of the schemes sanitizeImgSrc lets through,  *)
(* whatever SearXNG answered (searchHelper, buildInfoboxes).               *)
THEOREM OutputIsClean == Spec => []OutputClean
  <1>1. ResultInv => OutputClean
    <2> SUFFICES ASSUME ResultInv, stage = "built"
                 PROVE  OutputClean
      BY DEF OutputClean
    <2>1. \A s \in TextsOf(output) : Elements(s) \cap Forbidden = {}
      BY TextsClean DEF Clean
    <2>2. ASSUME NEW l \in LinksOf(output) \ {""}, NEW u \in LinksOf(raw), u.string = l
          PROVE  u.scheme \in {"http", "https"}
      <3>1. PICK v \in LinksOf(raw) : l = SanitizeURL(v)
        BY LinksFrom
      <3>2. v.string = l /\ v.scheme \in {"http", "https"}
        BY <3>1 DEF SanitizeURL
      <3>3. u.scheme = v.scheme
        BY <2>2, <3>2, InputsAssumption DEF ResultInv
      <3> QED
        BY <3>2, <3>3
    <2>3. \A i \in ImagesOf(output) :
            \E u \in ImagesOf(raw) : u.text = i /\ u.scheme \in {"", "http", "https", "data"}
      BY ImagesFrom
    <2> QED
      BY <2>1, <2>2, <2>3 DEF OutputClean
  <1> QED
    BY <1>1, ResultInvariant, PTL

-----------------------------------------------------------------------------
(* What a client gets is what SearXNG answered *)

(* The date of an item is the answer's, under the name the code prefers,   *)
(* and so is the formatted one.                                            *)
LEMMA DatesOfItem ==
  ASSUME NEW q \in ResultType
  PROVE  DatesAgree(Item(ResultToDomain(q)), q)
  <1> DEFINE date == PublishedDate(q)
             item == Item(ResultToDomain(q))
  <1> SUFFICES DatesAgree(item, q)
    OBVIOUS
  <1>1. item.publishedDate = date /\ item.formattedDate = FormatDate(date)
    BY ItemFacts
  <1>2. q.publishedDate \in Optional(DateType) /\ q.pubdate \in Optional(DateType)
    BY DEF ResultType
  <1>3. date = IF q.publishedDate # {} THEN q.publishedDate ELSE q.pubdate
    BY DEF PublishedDate
  <1>4. date \in Optional(DateType)
    BY <1>2, <1>3
  <1> HIDE DEF date, item
  <1>5. CASE date = {}
    <2>1. FormatDate(date) = ""
      BY <1>5 DEF FormatDate
    <2> QED
      BY <1>1, <1>3, <1>5, <2>1 DEF DatesAgree
  <1>6. CASE date # {}
    <2>1. PICK d \in date : date = {d} /\ d \in DateType
      BY <1>4, <1>6 DEF Optional
    <2>2. d.layout # "none" => d.text # "" /\ d.day # ""
      BY <2>1 DEF DateType
    <2>3. FormatDate(date) = IF d.text # "" /\ d.layout # "none" THEN d.day ELSE ""
      <3>1. (CHOOSE x \in {d} : TRUE) = d
        OBVIOUS
      <3>2. (\E x \in {d} : x.text # "" /\ x.layout # "none") <=> d.text # "" /\ d.layout # "none"
        BY Zenon
      <3>3. FormatDate({d}) = IF d.text # "" /\ d.layout # "none" THEN d.day ELSE ""
        BY <3>1, <3>2, Zenon DEF FormatDate
      <3> QED
        BY <2>1, <3>3
    <2>4. FormatDate(date) # "" => FormatDate(date) = d.day
      BY <2>3
    <2>5. FormatDate(date) = "" => d.layout = "none"
      BY <2>2, <2>3
    <2> QED
      BY <1>1, <1>3, <2>1, <2>4, <2>5 DEF DatesAgree
  <1> QED
    BY <1>5, <1>6

(* The client gets the first results in SearXNG's order, as many as there  *)
(* are or as it asked for, each with its own texts and date and nothing    *)
(* lost but the forbidden characters; answers, infoboxes, suggestions and  *)
(* the number of results are not cut with them (toDomain, searchHelper).   *)
THEOREM OutputIsFaithful == Spec => []OutputFaithful
  <1>1. ResultInv => OutputFaithful
    <2> SUFFICES ASSUME ResultInv, stage = "built"
                 PROVE  OutputFaithful
      BY DEF OutputFaithful
    <2>1. PICK n \in Nat :
             /\ DOMAIN output.results = 1..n /\ Len(output.results) = n /\ n <= Len(raw.results)
             /\ maxResults = {} => n = Len(raw.results)
             /\ \A m \in maxResults : n = IF m < Len(raw.results) THEN m ELSE Len(raw.results)
             /\ \A k \in 1..n : /\ output.results[k] = Item(ResultToDomain(raw.results[k]))
                                /\ raw.results[k] \in ResultType
      BY ResultsAre
    <2>2. ASSUME NEW k \in DOMAIN output.results
          PROVE  /\ DatesAgree(output.results[k], raw.results[k])
                 /\ \A f \in DOMAIN raw.results[k].text :
                      Cleaned(output.results[k].text[f], raw.results[k].text[f])
      <3>1. /\ output.results[k] = Item(ResultToDomain(raw.results[k]))
            /\ raw.results[k] \in ResultType
        BY <2>1
      <3>2. DatesAgree(output.results[k], raw.results[k])
        BY <3>1, DatesOfItem
      <3>3. ASSUME NEW f \in DOMAIN raw.results[k].text
            PROVE  Cleaned(output.results[k].text[f], raw.results[k].text[f])
        <4>1. raw.results[k].text[f] \in Text
          BY <3>1, ItemFacts
        <4>2. output.results[k].text[f] = SanitizeOutput(raw.results[k].text[f])
          BY <3>1, ItemFacts
        <4> QED
          BY <4>1, <4>2, Sanitized
      <3> QED
        BY <3>2, <3>3
    <2>3. ASSUME NEW k \in DOMAIN raw.answers, raw.answers[k].kind # "null"
          PROVE  Cleaned(output.answers[k], raw.answers[k].text)
      <3>1. raw.answers[k] \in AnswerType
        BY RawFacts
      <3>2. raw.answers[k].text \in Text
        BY <3>1 DEF AnswerType
      <3>3. output.answers[k] = SanitizeOutput(raw.answers[k].text)
        BY <2>3, OutputIs DEF AnswerToString
      <3> QED
        BY <3>2, <3>3, Sanitized
    <2>4. Len(output.answers) = Len(raw.answers)
      BY OutputIs, RawFacts
    <2>5. Len(output.infoboxes) = Len(raw.infoboxes)
      BY OutputIs, RawFacts
    <2>6. Len(output.suggestions) = Len(raw.suggestions)
      BY OutputIs, RawFacts
    <2>7. output.numberOfResults = raw.numberOfResults
      BY OutputIs
    <2> QED
      BY <2>1, <2>2, <2>3, <2>4, <2>5, <2>6, <2>7 DEF OutputFaithful
  <1> QED
    BY <1>1, ResultInvariant, PTL

=============================================================================
