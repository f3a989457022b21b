-------------------------- MODULE SlogBridgeProofs --------------------------
(***************************************************************************)
(* The handlers the MCP SDK derives, however many and in whatever order,   *)
(* log the fields they stand for.  SlogBridge's recursive definitions are  *)
(* reasoned about by their least counterexample: what fails for some       *)
(* length fails for a least one.                                           *)
(***************************************************************************)
EXTENDS Startup, SequenceTheorems, WellFoundedInduction, TLAPS

-----------------------------------------------------------------------------
(* Sequences *)

(* What Append does. *)
LEMMA AppendIs ==
  ASSUME NEW S, NEW s \in Seq(S), NEW x \in S, NEW n \in Nat, n = Len(s)
  PROVE  /\ Append(s, x) \in Seq(S)
         /\ Len(Append(s, x)) = n + 1 /\ DOMAIN Append(s, x) = 1..(n + 1)
         /\ Append(s, x)[n + 1] = x
         /\ \A i \in 1..n : Append(s, x)[i] = s[i]
  OBVIOUS

(* A set of lengths that is not empty has a least element. *)
LEMMA Least == \A T \in SUBSET Nat : T # {} => \E x \in T : \A y \in T : x <= y
  <1> SUFFICES ASSUME NEW T \in SUBSET Nat, T # {} PROVE \E x \in T : \A y \in T : x <= y
    OBVIOUS
  <1>1. PICK x \in T : \A y \in T : ~ (<<y, x>> \in OpToRel(<,Nat))
    BY NatLessThanWellFounded, WFMin
  <1>2. \A y \in T : ~(y < x)
    BY <1>1 DEF OpToRel
  <1> QED BY <1>2

(* f[i] is the concatenation of the first i sequences of s. *)
Joins(f, s, n) ==
  f = [i \in 1..n |-> IF i = 1 THEN s[i] ELSE f[i - 1] \o s[i]]

(* Every prefix of s has its concatenations, so the recursive function of *)
(* FlattenSeq is defined. *)
LEMMA JoinsExists ==
  ASSUME NEW T, NEW s \in Seq(Seq(T))
  PROVE  \A n \in 0..Len(s) : \E f \in [1..n -> Seq(T)] : Joins(f, s, n)
  <1> DEFINE P(n) == \E f \in [1..n -> Seq(T)] : Joins(f, s, n)
             bad == {n \in 0..Len(s) : ~P(n)}
  <1> SUFFICES ASSUME bad # {}
               PROVE  FALSE
    OBVIOUS
  <1>1. PICK n \in bad : \A m \in bad : n <= m
    <2>1. bad \in SUBSET Nat
      OBVIOUS
    <2> HIDE DEF bad
    <2> QED
      BY <2>1, Least
  <1>2. CASE n = 0
    <2>1. [i \in 1..0 |-> s[i]] \in [1..0 -> Seq(T)]
      OBVIOUS
    <2>2. Joins([i \in 1..0 |-> s[i]], s, 0)
      BY DEF Joins
    <2> QED
      BY <1>2, <2>1, <2>2
  <1>3. CASE n # 0
    <2>1. n - 1 \in 0..Len(s) /\ n - 1 \notin bad /\ n \in 1..Len(s)
      <3>1. n \in 0..Len(s) /\ Len(s) \in Nat
        BY <1>1
      <3>2. n - 1 \in 0..Len(s) /\ n \in 1..Len(s) /\ ~(n <= n - 1)
        BY <1>3, <3>1
      <3> HIDE DEF bad
      <3> QED
        BY <1>1, <3>2
    <2>2. PICK f \in [1..(n - 1) -> Seq(T)] : Joins(f, s, n - 1)
      BY <2>1
    <2> DEFINE g == [i \in 1..n |-> IF i = n THEN (IF n = 1 THEN s[n] ELSE f[n - 1] \o s[n]) ELSE f[i]]
    <2>3. s[n] \in Seq(T)
      BY <2>1
    <2>4. g \in [1..n -> Seq(T)]
      BY <2>1, <2>3
    <2>5. ASSUME NEW i \in 1..n
          PROVE  g[i] = IF i = 1 THEN s[i] ELSE g[i - 1] \o s[i]
      <3>1. CASE i = n
        BY <2>1, <3>1
      <3>2. CASE i # n
        <4>1. i \in 1..(n - 1)
          BY <2>1, <3>2
        <4>4. f[i] = IF i = 1 THEN s[i] ELSE f[i - 1] \o s[i]
          BY <2>2, <4>1 DEF Joins
        <4>2. i # 1 => g[i - 1] = f[i - 1]
          <5>1. i # 1 => i - 1 \in 1..n /\ i - 1 # n
            BY <2>1, <4>1
          <5> QED
            BY <5>1
        <4>3. g[i] = f[i]
          BY <3>2
        <4> HIDE DEF g
        <4> QED
          BY <4>2, <4>3, <4>4
      <3> QED
        BY <3>1, <3>2
    <2>6. Joins(g, s, n)
      <3> HIDE DEF g
      <3> QED
        BY <2>4, <2>5 DEF Joins
    <2> QED
      BY <1>1, <2>4, <2>6
  <1> QED
    BY <1>2, <1>3

(* The same of a function whose domain may reach beyond n. *)
Steps(f, s, n) == \A i \in 1..n : f[i] = IF i = 1 THEN s[i] ELSE f[i - 1] \o s[i]

(* There is one. *)
LEMMA StepsUnique ==
  ASSUME NEW s, NEW n \in Nat, NEW f, NEW g, Steps(f, s, n), Steps(g, s, n)
  PROVE  \A i \in 1..n : f[i] = g[i]
  <1> DEFINE bad == {i \in 1..n : f[i] # g[i]}
  <1> SUFFICES ASSUME bad # {}
               PROVE  FALSE
    OBVIOUS
  <1>1. PICK i \in bad : \A j \in bad : i <= j
    <2>1. bad \in SUBSET Nat
      OBVIOUS
    <2> HIDE DEF bad
    <2> QED
      BY <2>1, Least
  <1>2. i \in 1..n
    BY <1>1
  <1>3. i # 1 => f[i - 1] = g[i - 1]
    BY <1>1, <1>2
  <1> QED
    BY <1>1, <1>2, <1>3 DEF Steps

(* FlattenSeq is the last of them. *)
LEMMA FlattenIs ==
  ASSUME NEW T, NEW s \in Seq(Seq(T)), NEW f, Joins(f, s, Len(s)), Len(s) # 0
  PROVE  Slog!FlattenSeq(s) = f[Len(s)]
  <1> DEFINE g == CHOOSE h : Joins(h, s, Len(s))
  <1>1. Joins(g, s, Len(s))
    OBVIOUS
  <1>2. Slog!FlattenSeq(s) = g[Len(s)]
    BY DEF Slog!FlattenSeq, Joins
  <1>3. Len(s) \in Nat /\ Len(s) \in 1..Len(s)
    OBVIOUS
  <1> HIDE DEF g
  <1>4. Steps(f, s, Len(s)) /\ Steps(g, s, Len(s))
    BY <1>1 DEF Joins, Steps
  <1> QED
    BY <1>2, <1>3, <1>4, StepsUnique

(* A sequence more concatenates one more. *)
LEMMA FlattenAppend ==
  ASSUME NEW T, NEW s \in Seq(Seq(T)), NEW x \in Seq(T)
  PROVE  Slog!FlattenSeq(s) \in Seq(T) /\ Slog!FlattenSeq(Append(s, x)) = Slog!FlattenSeq(s) \o x
  <1>1. /\ Append(s, x) \in Seq(Seq(T)) /\ Len(Append(s, x)) = Len(s) + 1
        /\ Append(s, x)[Len(s) + 1] = x /\ \A i \in 1..Len(s) : Append(s, x)[i] = s[i]
    OBVIOUS
  <1> SUFFICES ASSUME NEW n \in Nat, n = Len(s), NEW s2 \in Seq(Seq(T)), Len(s2) = n + 1,
                      s2[n + 1] = x, \A i \in 1..n : s2[i] = s[i]
               PROVE  Slog!FlattenSeq(s) \in Seq(T) /\ Slog!FlattenSeq(s2) = Slog!FlattenSeq(s) \o x
    <2>1. Len(s) \in Nat
      OBVIOUS
    <2> QED
      BY <1>1, <2>1
  <1>2. PICK f : f \in [1..n -> Seq(T)] /\ Joins(f, s, n)
    <2>1. n \in 0..Len(s)
      OBVIOUS
    <2> QED
      BY <2>1, JoinsExists
  <1>3. PICK g : g \in [1..(n + 1) -> Seq(T)] /\ Joins(g, s2, n + 1)
    <2>1. n + 1 \in 0..Len(s2)
      OBVIOUS
    <2> QED
      BY <2>1, JoinsExists
  <1>4. Slog!FlattenSeq(s2) = g[n + 1]
    <2>1. Len(s2) # 0
      OBVIOUS
    <2> QED
      BY <1>3, <2>1, FlattenIs
  <1>5. g[n + 1] = IF n = 0 THEN x ELSE g[n] \o x
    <2>1. \A i \in 1..(n + 1) : g[i] = IF i = 1 THEN s2[i] ELSE g[i - 1] \o s2[i]
      BY <1>3 DEF Joins
    <2>2. n + 1 \in 1..(n + 1) /\ (n + 1) - 1 = n /\ (n + 1 = 1 <=> n = 0)
      OBVIOUS
    <2> QED
      BY <2>1, <2>2
  <1>6. CASE n = 0
    <2>1. Slog!FlattenSeq(s) = s
      BY <1>6 DEF Slog!FlattenSeq
    <2>2. s = <<>>
      BY <1>6, EmptySeq
    <2>3. <<>> \o x = x /\ <<>> \in Seq(T)
      OBVIOUS
    <2> QED
      BY <1>4, <1>5, <1>6, <2>1, <2>2, <2>3
  <1>7. CASE n # 0
    <2>1. Slog!FlattenSeq(s) = f[n]
      BY <1>2, <1>7, FlattenIs
    <2>2. n \in 1..n /\ n <= n + 1 /\ n + 1 \in Nat
      BY <1>7
    <2>3. f[n] \in Seq(T)
      BY <1>2, <2>2
    <2>4. \A i \in 1..n : f[i] = g[i]
      <3>1. Steps(f, s, n)
        BY <1>2 DEF Joins, Steps
      <3>2. Steps(g, s, n)
        <4>1. \A i \in 1..(n + 1) : g[i] = IF i = 1 THEN s2[i] ELSE g[i - 1] \o s2[i]
          BY <1>3 DEF Joins
        <4>2. \A i \in 1..n : i \in 1..(n + 1) /\ s2[i] = s[i]
          OBVIOUS
        <4> QED
          BY <4>1, <4>2 DEF Steps
      <3> QED
        BY <3>1, <3>2, StepsUnique
    <2> QED
      BY <1>4, <1>5, <1>7, <2>1, <2>2, <2>3, <2>4
  <1> QED
    BY <1>6, <1>7

-----------------------------------------------------------------------------
(* The calls that make a handler *)

GroupNames == Groups \cup {""}
CallType == [attrs : Seq(Slog!LeafType), group : GroupNames]
FieldType == [key : Seq(STRING), value : STRING]

(* f[k] is the groups that the first k calls leave open. *)
Opens(f, calls, n) ==
  f = [k \in 0..n |-> IF k = 0 THEN <<>>
                      ELSE IF calls[k].group = "" THEN f[k - 1]
                      ELSE Append(f[k - 1], calls[k].group)]

(* The groups are defined after every number of calls. *)
LEMMA OpensExists ==
  ASSUME NEW calls \in Seq(CallType)
  PROVE  \A n \in 0..Len(calls) : \E f \in [0..n -> Seq(Groups)] : Opens(f, calls, n)
  <1> DEFINE P(n) == \E f \in [0..n -> Seq(Groups)] : Opens(f, calls, n)
             bad == {n \in 0..Len(calls) : ~P(n)}
  <1> SUFFICES ASSUME bad # {}
               PROVE  FALSE
    OBVIOUS
  <1>1. PICK n \in bad : \A m \in bad : n <= m
    <2>1. bad \in SUBSET Nat
      OBVIOUS
    <2> HIDE DEF bad
    <2> QED
      BY <2>1, Least
  <1>2. CASE n = 0
    <2>1. [k \in 0..0 |-> <<>>] \in [0..0 -> Seq(Groups)]
      OBVIOUS
    <2>2. \A k \in 0..0 : k = 0
      OBVIOUS
    <2>3. Opens([k \in 0..0 |-> <<>>], calls, 0)
      BY <2>2, Zenon DEF Opens
    <2> QED
      BY <1>2, <1>1, <2>1, <2>3
  <1>3. CASE n # 0
    <2>1. n - 1 \in 0..Len(calls) /\ n - 1 \notin bad /\ n \in 1..Len(calls)
      <3>1. n \in 0..Len(calls) /\ Len(calls) \in Nat
        BY <1>1
      <3>2. n - 1 \in 0..Len(calls) /\ n \in 1..Len(calls) /\ ~(n <= n - 1)
        BY <1>3, <3>1
      <3> HIDE DEF bad
      <3> QED
        BY <1>1, <3>2
    <2>2. PICK f : f \in [0..(n - 1) -> Seq(Groups)] /\ Opens(f, calls, n - 1)
      BY <2>1
    <2> DEFINE last == IF calls[n].group = "" THEN f[n - 1]
                       ELSE Append(f[n - 1], calls[n].group)
               g == [k \in 0..n |-> IF k = n THEN last ELSE f[k]]
    <2>3. last \in Seq(Groups)
      <3>1. calls[n] \in CallType /\ f[n - 1] \in Seq(Groups)
        BY <2>1, <2>2
      <3>2. calls[n].group \in GroupNames
        BY <3>1 DEF CallType
      <3>3. calls[n].group # "" => calls[n].group \in Groups
        BY <3>2, Zenon DEF GroupNames
      <3>4. calls[n].group # "" => Append(f[n - 1], calls[n].group) \in Seq(Groups)
        <4> DEFINE x == calls[n].group
        <4>1. x \in Groups => Append(f[n - 1], x) \in Seq(Groups)
          <5> HIDE DEF x
          <5> QED
            BY <3>1
        <4> QED
          BY <3>3, <4>1
      <3> QED
        BY <3>1, <3>4
    <2> HIDE DEF last
    <2>4. g \in [0..n -> Seq(Groups)]
      BY <2>1, <2>2, <2>3
    <2>5. ASSUME NEW k \in 0..n
          PROVE  g[k] = IF k = 0 THEN <<>>
                        ELSE IF calls[k].group = "" THEN g[k - 1]
                        ELSE Append(g[k - 1], calls[k].group)
      <3>1. CASE k = n
        <4>1. g[n] = last /\ g[n - 1] = f[n - 1]
          BY <2>1
        <4> HIDE DEF g
        <4> QED
          BY <1>3, <3>1, <4>1 DEF last
      <3>2. CASE k # n
        <4>1. k \in 0..(n - 1)
          BY <2>1, <3>2
        <4>2. f[k] = IF k = 0 THEN <<>>
                     ELSE IF calls[k].group = "" THEN f[k - 1]
                     ELSE Append(f[k - 1], calls[k].group)
          BY <2>2, <4>1 DEF Opens
        <4>3. k # 0 => k - 1 \in 0..n /\ k - 1 # n
          BY <2>1, <4>1
        <4>4. g[k] = f[k] /\ (k # 0 => g[k - 1] = f[k - 1])
          BY <3>2, <4>3
        <4> HIDE DEF g
        <4> QED
          BY <4>2, <4>4
      <3> QED
        BY <3>1, <3>2
    <2>6. Opens(g, calls, n)
      <3> HIDE DEF g
      <3> QED
        BY <2>4, <2>5 DEF Opens
    <2> QED
      BY <1>1, <2>4, <2>6
  <1> QED
    BY <1>2, <1>3

(* The same of a function whose domain may reach beyond n. *)
OpenSteps(f, calls, n) ==
  \A k \in 0..n : f[k] = IF k = 0 THEN <<>>
                         ELSE IF calls[k].group = "" THEN f[k - 1]
                         ELSE Append(f[k - 1], calls[k].group)

(* There is one. *)
LEMMA OpenStepsUnique ==
  ASSUME NEW calls, NEW n \in Nat, NEW f, NEW g,
         OpenSteps(f, calls, n), OpenSteps(g, calls, n)
  PROVE  \A k \in 0..n : f[k] = g[k]
  <1> DEFINE bad == {k \in 0..n : f[k] # g[k]}
  <1> SUFFICES ASSUME bad # {}
               PROVE  FALSE
    OBVIOUS
  <1>1. PICK k \in bad : \A j \in bad : k <= j
    <2>1. bad \in SUBSET Nat
      OBVIOUS
    <2> HIDE DEF bad
    <2> QED
      BY <2>1, Least
  <1>2. k \in 0..n
    BY <1>1
  <1>3. k # 0 => f[k - 1] = g[k - 1]
    BY <1>1, <1>2
  <1> QED
    BY <1>1, <1>2, <1>3 DEF OpenSteps

(* OpenGroups is that function. *)
LEMMA OpenGroupsIs ==
  ASSUME NEW calls \in Seq(CallType), NEW n \in Nat, n = Len(calls)
  PROVE  /\ Slog!OpenGroups(calls) \in [0..n -> Seq(Groups)]
         /\ OpenSteps(Slog!OpenGroups(calls), calls, n)
  <1>1. PICK f : f \in [0..n -> Seq(Groups)] /\ Opens(f, calls, n)
    <2>1. n \in 0..Len(calls)
      OBVIOUS
    <2> QED
      BY <2>1, OpensExists
  <1> DEFINE g == CHOOSE h : Opens(h, calls, n)
  <1>2. Opens(g, calls, n)
    BY <1>1
  <1>3. Slog!OpenGroups(calls) = g
    BY DEF Slog!OpenGroups, Opens
  <1> HIDE DEF g
  <1>4. OpenSteps(f, calls, n) /\ OpenSteps(g, calls, n)
    BY <1>1, <1>2 DEF Opens, OpenSteps
  <1>5. \A k \in 0..n : f[k] = g[k]
    BY <1>4, OpenStepsUnique
  <1>6. g = f
    <2>1. g = [k \in 0..n |-> g[k]]
      BY <1>2, Zenon DEF Opens
    <2> QED
      BY <1>1, <1>5, <2>1
  <1> QED
    BY <1>1, <1>3, <1>4, <1>6

(* A call more leaves the groups of the calls before it as they are, and   *)
(* opens the one it asks for.                                              *)
LEMMA OpenGroupsAppend ==
  ASSUME NEW calls \in Seq(CallType), NEW op \in CallType, NEW n \in Nat, n = Len(calls)
  PROVE  LET before == Slog!OpenGroups(calls)
             after == Slog!OpenGroups(Append(calls, op))
         IN /\ before \in [0..n -> Seq(Groups)] /\ after \in [0..(n + 1) -> Seq(Groups)]
            /\ \A k \in 0..n : after[k] = before[k]
            /\ after[n + 1] = IF op.group = "" THEN before[n] ELSE Append(before[n], op.group)
  <1> DEFINE before == Slog!OpenGroups(calls)
             after == Slog!OpenGroups(Append(calls, op))
  <1>1. PICK longer : /\ longer = Append(calls, op) /\ longer \in Seq(CallType)
                      /\ Len(longer) = n + 1 /\ longer[n + 1] = op
                      /\ \A k \in 1..n : longer[k] = calls[k]
    <2>1. /\ Append(calls, op) \in Seq(CallType)
          /\ Len(Append(calls, op)) = n + 1 /\ DOMAIN Append(calls, op) = 1..(n + 1)
          /\ Append(calls, op)[n + 1] = op
          /\ \A k \in 1..n : Append(calls, op)[k] = calls[k]
      BY AppendIs
    <2> QED
      BY <2>1, Zenon
  <1>2. before \in [0..n -> Seq(Groups)] /\ OpenSteps(before, calls, n)
    BY OpenGroupsIs
  <1>3. after \in [0..(n + 1) -> Seq(Groups)] /\ OpenSteps(after, longer, n + 1)
    <2>1. n + 1 \in Nat /\ after = Slog!OpenGroups(longer)
      BY <1>1
    <2> HIDE DEF after
    <2> QED
      BY <1>1, <2>1, OpenGroupsIs
  <1> HIDE DEF before, after
  <1>4. OpenSteps(after, calls, n)
    <2>1. \A k \in 0..n : k \in 0..(n + 1) /\ (k # 0 => longer[k] = calls[k])
      BY <1>1
    <2> QED
      BY <1>3, <2>1 DEF OpenSteps
  <1>5. \A k \in 0..n : after[k] = before[k]
    BY <1>2, <1>4, OpenStepsUnique
  <1>6. after[n + 1] = IF op.group = "" THEN before[n] ELSE Append(before[n], op.group)
    <2>1. n + 1 \in 0..(n + 1) /\ n + 1 # 0 /\ (n + 1) - 1 = n /\ n \in 0..n
      OBVIOUS
    <2>2. after[n + 1] = IF longer[n + 1].group = "" THEN after[n]
                         ELSE Append(after[n], longer[n + 1].group)
      BY <1>3, <2>1 DEF OpenSteps
    <2> QED
      BY <1>1, <1>5, <2>1, <2>2
  <1> QED
    BY <1>2, <1>3, <1>5, <1>6 DEF before, after

(* The fields of an attribute are typed. *)
LEMMA FlattenType ==
  ASSUME NEW a \in Seq(Slog!LeafType), NEW groups \in Seq(Groups)
  PROVE  Slog!Flatten(a, groups) \in Seq(FieldType)
  <1>1. groups \in Seq(STRING)
    <2>1. \A k \in 1..Len(groups) : groups[k] \in STRING
      <3>1. \A k \in 1..Len(groups) : groups[k] \in Groups
        OBVIOUS
      <3> QED
        BY <3>1, SdkAssumption, Zenon
    <2>2. Len(groups) \in Nat /\ groups \in [1..Len(groups) -> STRING]
      BY <2>1
    <2> QED
      BY <2>2, SeqDef
  <1>2. \A k \in 1..Len(a) : a[k].path \in Seq(STRING) /\ a[k].value \in STRING
    <2>1. \A k \in 1..Len(a) : a[k] \in Slog!LeafType
      OBVIOUS
    <2>2. \A leaf \in Slog!LeafType : leaf.path \in Seq(STRING) /\ leaf.value \in STRING
      BY DEF Slog!LeafType
    <2> QED
      BY <2>1, <2>2, Zenon
  <1>3. \A k \in 1..Len(a) : [key |-> groups \o a[k].path, value |-> a[k].value] \in FieldType
    BY <1>1, <1>2 DEF FieldType
  <1> QED
    BY <1>3 DEF Slog!Flatten

(* What a call more gives comes after what the calls before it gave. *)
LEMMA GivenAppend ==
  ASSUME NEW calls \in Seq(CallType), NEW op \in CallType
  PROVE  LET after == Slog!OpenGroups(Append(calls, op))
         IN /\ Slog!Given(calls) \in Seq(Seq(FieldType))
            /\ Slog!Given(Append(calls, op)) =
                 Append(Slog!Given(calls), Slog!Flatten(op.attrs, after[Len(calls) + 1]))
  <1>1. PICK n \in Nat : n = Len(calls)
    OBVIOUS
  <1>2. PICK longer : /\ longer = Append(calls, op) /\ longer \in Seq(CallType)
                      /\ DOMAIN longer = 1..(n + 1) /\ longer[n + 1] = op
                      /\ \A k \in 1..n : longer[k] = calls[k]
    <2>1. /\ Append(calls, op) \in Seq(CallType)
          /\ Len(Append(calls, op)) = n + 1 /\ DOMAIN Append(calls, op) = 1..(n + 1)
          /\ Append(calls, op)[n + 1] = op
          /\ \A k \in 1..n : Append(calls, op)[k] = calls[k]
      BY <1>1, AppendIs
    <2> QED
      BY <2>1, Zenon
  <1>3. PICK before, after :
           /\ before = Slog!OpenGroups(calls) /\ after = Slog!OpenGroups(longer)
           /\ before \in [0..n -> Seq(Groups)] /\ after \in [0..(n + 1) -> Seq(Groups)]
           /\ \A k \in 0..n : after[k] = before[k]
    <2> DEFINE before == Slog!OpenGroups(calls)
               after == Slog!OpenGroups(longer)
    <2>1. /\ before \in [0..n -> Seq(Groups)] /\ after \in [0..(n + 1) -> Seq(Groups)]
          /\ \A k \in 0..n : after[k] = before[k]
      BY <1>1, <1>2, OpenGroupsAppend
    <2> QED
      BY <2>1, Zenon
  <1>4. Slog!Given(calls) = [k \in 1..n |-> Slog!Flatten(calls[k].attrs, before[k])]
    BY <1>1, <1>3 DEF Slog!Given
  <1>5. Slog!Given(longer) =
          [k \in 1..(n + 1) |-> Slog!Flatten(longer[k].attrs, after[k])]
    BY <1>2, <1>3 DEF Slog!Given
  <1>6. \A k \in 1..n : Slog!Flatten(calls[k].attrs, before[k]) \in Seq(FieldType)
    <2>1. \A k \in 1..n : calls[k].attrs \in Seq(Slog!LeafType) /\ before[k] \in Seq(Groups)
      <3>1. \A k \in 1..n : calls[k] \in CallType /\ k \in 0..n
        BY <1>1
      <3>2. \A call \in CallType : call.attrs \in Seq(Slog!LeafType)
        BY DEF CallType
      <3> QED
        BY <1>3, <3>1, <3>2
    <2> QED
      BY <2>1, FlattenType
  <1>7. \A k \in 1..n : longer[k].attrs = calls[k].attrs /\ after[k] = before[k]
    BY <1>2, <1>3
  <1> QED
    BY <1>1, <1>2, <1>3, <1>4, <1>5, <1>6, <1>7

-----------------------------------------------------------------------------
(* The inductive invariant *)

EntryType == [attr : Seq(Slog!LeafType), groups : Seq(Groups)]
HandlerType == [array : Nat, len : Nat, groups : Seq(Groups)]

(* The fields of the first len entries of an array. *)
FieldsOf(array, len) == [k \in 1..len |-> Slog!Flatten(array[k].attr, array[k].groups)]

(* A handler's slice lies in its array, and it is what the calls that made *)
(* the handler ask for.                                                    *)
HandlerInv(h, calls) ==
  /\ h.array \in 1..Len(heap) /\ h.len <= Len(heap[h.array])
  /\ h.groups = Slog!OpenGroups(calls)[Len(calls)]
  /\ Slog!FlattenSeq(FieldsOf(heap[h.array], h.len)) = Slog!FlattenSeq(Slog!Given(calls))

SlogInv ==
  /\ heap \in Seq(Seq(EntryType))
  /\ handlers \in Seq(HandlerType)
  /\ ops \in Seq(Seq(CallType)) /\ Len(ops) = Len(handlers)
  /\ \A i \in 1..Len(handlers) : HandlerInv(handlers[i], ops[i])

(* A handler writes the fields of its slice. *)
LEMMA BoundIs ==
  ASSUME SlogInv, NEW i \in 1..Len(handlers)
  PROVE  Slog!Bound(handlers[i]) = FieldsOf(heap[handlers[i].array], handlers[i].len)
  <1> DEFINE h == handlers[i]
             array == heap[h.array]
  <1>1. h \in HandlerType /\ h.array \in 1..Len(heap) /\ h.len <= Len(array)
    BY DEF SlogInv, HandlerInv
  <1>2. h.len \in Nat /\ array \in Seq(EntryType)
    BY <1>1 DEF SlogInv, HandlerType
  <1> HIDE DEF h, array
  <1>3. \A k \in 1..h.len : SubSeq(array, 1, h.len)[k] = array[k]
    BY <1>1, <1>2
  <1>4. Slog!AttrsOf(h) = SubSeq(array, 1, h.len)
    BY DEF Slog!AttrsOf, array
  <1>5. Slog!Bound(h) = FieldsOf(array, h.len)
    BY <1>3, <1>4, Zenon DEF Slog!Bound, FieldsOf
  <1> QED
    BY <1>5 DEF h, array

(* The fields of typed entries are typed. *)
LEMMA FieldsOfType ==
  ASSUME NEW array \in Seq(EntryType), NEW len \in Nat, len <= Len(array)
  PROVE  FieldsOf(array, len) \in Seq(Seq(FieldType))
  <1>1. \A k \in 1..len : array[k] \in EntryType
    OBVIOUS
  <1>2. \A entry \in EntryType : entry.attr \in Seq(Slog!LeafType) /\ entry.groups \in Seq(Groups)
    BY DEF EntryType
  <1>3. \A k \in 1..len : Slog!Flatten(array[k].attr, array[k].groups) \in Seq(FieldType)
    BY <1>1, <1>2, FlattenType
  <1> QED
    BY <1>3 DEF FieldsOf

(* A new handler disturbs no other one, if the arrays there are stay.      *)
LEMMA NewHandler ==
  ASSUME SlogInv, NEW h \in HandlerType, NEW calls \in Seq(CallType),
         handlers' = Append(handlers, h), ops' = Append(ops, calls),
         heap' \in Seq(Seq(EntryType)), Len(heap) <= Len(heap'),
         \A k \in 1..Len(heap) : heap'[k] = heap[k],
         HandlerInv(h, calls)'
  PROVE  SlogInv'
  <1>1. PICK n \in Nat : n = Len(handlers) /\ n = Len(ops)
    BY DEF SlogInv
  <1>2. /\ handlers' \in Seq(HandlerType) /\ Len(handlers') = n + 1
        /\ handlers'[n + 1] = h /\ \A i \in 1..n : handlers'[i] = handlers[i]
    BY <1>1, AppendIs DEF SlogInv
  <1>3. /\ ops' \in Seq(Seq(CallType)) /\ Len(ops') = n + 1
        /\ ops'[n + 1] = calls /\ \A i \in 1..n : ops'[i] = ops[i]
    BY <1>1, AppendIs DEF SlogInv
  <1>4. ASSUME NEW i \in 1..n
        PROVE  HandlerInv(handlers[i], ops[i])'
    <2>1. HandlerInv(handlers[i], ops[i])
      BY <1>1 DEF SlogInv
    <2>2. handlers[i].array \in 1..Len(heap) /\ Len(heap) \in Nat /\ Len(heap') \in Nat
      <3>1. handlers[i].array \in 1..Len(heap)
        BY <2>1, Zenon DEF HandlerInv
      <3>2. \A s \in Seq(Seq(EntryType)) : Len(s) \in Nat
        OBVIOUS
      <3>3. heap \in Seq(Seq(EntryType)) /\ heap' \in Seq(Seq(EntryType))
        BY Zenon DEF SlogInv
      <3> QED
        BY <3>1, <3>2, <3>3, Zenon
    <2>3. heap'[handlers[i].array] = heap[handlers[i].array]
      BY <2>2
    <2>4. handlers[i].array \in 1..Len(heap')
      BY <2>2
    <2> QED
      BY <1>2, <1>3, <2>1, <2>3, <2>4 DEF HandlerInv
  <1>5. \A i \in 1..Len(handlers') : HandlerInv(handlers[i], ops[i])'
    <2>1. \A i \in 1..(n + 1) : i \in 1..n \/ i = n + 1
      OBVIOUS
    <2> QED
      BY <1>2, <1>3, <1>4, <2>1
  <1> QED
    BY <1>2, <1>3, <1>5 DEF SlogInv

-----------------------------------------------------------------------------
(* The actions *)

(* NewSlogHandler's handler has no attributes and no groups. *)
LEMMA RootInv ==
  ASSUME Slog!Init
  PROVE  SlogInv
  <1>1. /\ heap = <<<<>>>> /\ ops = <<<<>>>>
        /\ handlers = <<[array |-> 1, len |-> 0, groups |-> <<>>]>>
    BY DEF Slog!Init
  <1> DEFINE root == [array |-> 1, len |-> 0, groups |-> <<>>]
             none == [k \in 0..0 |-> <<>>]
  <1>2. heap \in Seq(Seq(EntryType)) /\ ops \in Seq(Seq(CallType)) /\ Len(ops) = 1
    BY <1>1
  <1>3. handlers \in Seq(HandlerType) /\ Len(handlers) = 1
    BY <1>1 DEF HandlerType
  <1>4. Slog!OpenGroups(<<>>)[0] = <<>>
    <2>1. <<>> \in Seq(CallType) /\ Len(<<>>) = 0 /\ 0 \in 0..0
      OBVIOUS
    <2>2. OpenSteps(Slog!OpenGroups(<<>>), <<>>, 0)
      BY <2>1, OpenGroupsIs
    <2> QED
      BY <2>1, <2>2 DEF OpenSteps
  <1>5. FieldsOf(<<>>, 0) = Slog!Given(<<>>)
    <2>1. FieldsOf(<<>>, 0) = <<>>
      BY DEF FieldsOf
    <2>2. Slog!Given(<<>>) = <<>>
      BY DEF Slog!Given
    <2> QED
      BY <2>1, <2>2
  <1>6. HandlerInv(root, <<>>)
    <2>1. root.array = 1 /\ root.len = 0 /\ root.groups = <<>>
      OBVIOUS
    <2>2. heap[1] = <<>> /\ Len(heap) = 1 /\ Len(<<>>) = 0
      BY <1>1
    <2> HIDE DEF root
    <2> QED
      BY <1>4, <1>5, <2>1, <2>2 DEF HandlerInv
  <1>7. \A i \in 1..1 : handlers[i] = root /\ ops[i] = <<>>
    BY <1>1
  <1> HIDE DEF root
  <1> QED
    BY <1>2, <1>3, <1>6, <1>7 DEF SlogInv

(* What WithGroup makes of a handler. *)
LEMMA HandlerUpdates ==
  ASSUME NEW h \in HandlerType, NEW groups
  PROVE  [h EXCEPT !.groups = groups] = [array |-> h.array, len |-> h.len, groups |-> groups]
  <1>1. PICK a, l, g : h = [array |-> a, len |-> l, groups |-> g]
    BY DEF HandlerType
  <1> QED
    BY <1>1

(* What a handler is, and what its calls gave it. *)
LEMMA HandlerFacts ==
  ASSUME SlogInv, NEW i \in DOMAIN handlers
  PROVE  /\ handlers[i] \in HandlerType /\ ops[i] \in Seq(CallType)
         /\ HandlerInv(handlers[i], ops[i])
         /\ heap[handlers[i].array] \in Seq(EntryType)
         /\ handlers[i].array \in Nat /\ handlers[i].len \in Nat
         /\ handlers[i].groups \in Seq(Groups)
         /\ Len(heap) \in Nat /\ Len(heap[handlers[i].array]) \in Nat
  <1>1. i \in 1..Len(handlers)
    BY DEF SlogInv
  <1>2. handlers[i] \in HandlerType /\ ops[i] \in Seq(CallType) /\ HandlerInv(handlers[i], ops[i])
    BY <1>1 DEF SlogInv
  <1>3. handlers[i].array \in 1..Len(heap)
    BY <1>2 DEF HandlerInv
  <1>4. heap[handlers[i].array] \in Seq(EntryType) /\ Len(heap) \in Nat
    BY <1>3 DEF SlogInv
  <1>5. /\ handlers[i].array \in Nat /\ handlers[i].len \in Nat
        /\ handlers[i].groups \in Seq(Groups)
    BY <1>2 DEF HandlerType
  <1> QED
    BY <1>2, <1>4, <1>5

(* WithAttrs copies the slice into a new array and adds the attribute, in  *)
(* the groups that are open: the one call more it stands for.              *)
LEMMA WithAttrsInv ==
  ASSUME SlogInv, NEW i \in DOMAIN handlers, NEW a \in Attrs, Slog!WithAttrs(i, a)
  PROVE  SlogInv'
  <1> DEFINE h == handlers[i]
             entry == [attr |-> a, groups |-> h.groups]
             array == heap[h.array]
             copied == Append(SubSeq(array, 1, h.len), entry)
             derived == [array |-> Len(heap) + 1, len |-> h.len + 1, groups |-> h.groups]
             op == [attrs |-> a, group |-> ""]
             calls == Append(ops[i], op)
  <1>1. /\ h \in HandlerType /\ ops[i] \in Seq(CallType) /\ HandlerInv(h, ops[i])
        /\ array \in Seq(EntryType) /\ h.len \in Nat /\ h.groups \in Seq(Groups)
        /\ Len(heap) \in Nat /\ h.len <= Len(array)
    BY HandlerFacts DEF HandlerInv
  <1>2. heap' = Append(heap, copied) /\ ops' = Append(ops, calls)
    BY DEF Slog!WithAttrs, Slog!Derived, Slog!AttrsOf
  <1>3. handlers' = Append(handlers, derived)
    BY DEF Slog!WithAttrs
  <1>4. a \in Seq(Slog!LeafType)
    BY SdkAssumption
  <1>5. entry \in EntryType /\ derived \in HandlerType /\ op \in CallType
    <2>1. entry \in EntryType
      BY <1>1, <1>4 DEF EntryType
    <2>2. derived \in HandlerType
      <3> HIDE DEF h
      <3> QED
        BY <1>1 DEF HandlerType
    <2>3. op \in CallType
      <3>1. "" \in GroupNames
        BY Zenon DEF GroupNames
      <3> QED
        BY <1>4, <3>1 DEF CallType
    <2> QED
      BY <2>1, <2>2, <2>3
  <1>6. derived.array = Len(heap) + 1 /\ derived.len = h.len + 1 /\ derived.groups = h.groups
    OBVIOUS
  <1>7. op.attrs = a /\ op.group = "" /\ entry.attr = a /\ entry.groups = h.groups
    OBVIOUS
  <1> HIDE DEF h, entry, derived, op
  <1>8. /\ copied \in Seq(EntryType) /\ Len(copied) = h.len + 1
        /\ copied[h.len + 1] = entry /\ \A k \in 1..h.len : copied[k] = array[k]
    <2> DEFINE s == SubSeq(array, 1, h.len)
    <2>1. s \in Seq(EntryType) /\ Len(s) = h.len /\ \A k \in 1..h.len : s[k] = array[k]
      <3> HIDE DEF array
      <3> QED
        BY <1>1
    <2> HIDE DEF s
    <2>2. copied = Append(s, entry)
      BY DEF s
    <2> QED
      BY <1>1, <1>5, <2>1, <2>2, AppendIs
  <1>9. calls \in Seq(CallType) /\ Len(calls) = Len(ops[i]) + 1 /\ Len(ops[i]) \in Nat
    BY <1>1, <1>5
  <1>10. Slog!OpenGroups(calls)[Len(calls)] = h.groups
    <2>1. Slog!OpenGroups(calls)[Len(ops[i]) + 1] = Slog!OpenGroups(ops[i])[Len(ops[i])]
      BY <1>1, <1>5, <1>7, <1>9, OpenGroupsAppend
    <2> QED
      BY <1>1, <1>9, <2>1 DEF HandlerInv
  <1> HIDE DEF array
  <1>11. Slog!FlattenSeq(FieldsOf(copied, h.len + 1)) = Slog!FlattenSeq(Slog!Given(calls))
    <2> DEFINE more == Slog!Flatten(a, h.groups)
    <2>1. more \in Seq(FieldType)
      BY <1>1, <1>4, FlattenType
    <2>2. /\ Slog!Given(ops[i]) \in Seq(Seq(FieldType))
          /\ Slog!Given(calls) = Append(Slog!Given(ops[i]), more)
      BY <1>1, <1>5, <1>7, <1>9, <1>10, GivenAppend
    <2>3. FieldsOf(array, h.len) \in Seq(Seq(FieldType))
      BY <1>1, FieldsOfType
    <2>4. FieldsOf(copied, h.len + 1) = Append(FieldsOf(array, h.len), more)
      <3>1. \A k \in 1..h.len : Slog!Flatten(copied[k].attr, copied[k].groups)
                                  = Slog!Flatten(array[k].attr, array[k].groups)
        BY <1>8
      <3>2. Slog!Flatten(copied[h.len + 1].attr, copied[h.len + 1].groups) = more
        BY <1>7, <1>8
      <3>3. Len(FieldsOf(array, h.len)) = h.len
        BY <1>1, <2>3 DEF FieldsOf
      <3> HIDE DEF copied, more
      <3> QED
        BY <1>1, <2>1, <2>3, <3>1, <3>2, <3>3 DEF FieldsOf
    <2>5. Slog!FlattenSeq(FieldsOf(array, h.len)) = Slog!FlattenSeq(Slog!Given(ops[i]))
      BY <1>1 DEF HandlerInv, array
    <2> HIDE DEF more
    <2> QED
      BY <2>1, <2>2, <2>3, <2>4, <2>5, FlattenAppend
  <1> HIDE DEF copied, calls
  <1>12. /\ heap' \in Seq(Seq(EntryType)) /\ Len(heap') = Len(heap) + 1
         /\ heap'[Len(heap) + 1] = copied /\ \A k \in 1..Len(heap) : heap'[k] = heap[k]
    BY <1>1, <1>2, <1>8, AppendIs DEF SlogInv
  <1>13. PICK d, c : d = derived /\ c = calls
    OBVIOUS
  <1>14. Len(heap) <= Len(heap') /\ Len(heap) + 1 \in 1..Len(heap')
    BY <1>1, <1>12
  <1>15. HandlerInv(d, c)'
    <2>1. d.array = Len(heap) + 1 /\ d.len = Len(copied) /\ d.len = h.len + 1
      BY <1>6, <1>8, <1>13
    <2>2. d.groups = Slog!OpenGroups(c)[Len(c)]
      BY <1>6, <1>10, <1>13
    <2>3. Slog!FlattenSeq(FieldsOf(copied, d.len)) = Slog!FlattenSeq(Slog!Given(c))
      BY <1>11, <1>13, <2>1
    <2>4. d.len <= Len(heap'[d.array])
      <3>1. heap'[d.array] = copied /\ d.len \in Nat
        BY <1>1, <1>12, <2>1
      <3>2. Len(heap'[d.array]) = d.len
        BY <2>1, <3>1, Zenon
      <3> QED
        BY <3>1, <3>2
    <2> QED
      BY <1>12, <1>14, <2>1, <2>2, <2>3, <2>4 DEF HandlerInv
  <1> QED
    BY <1>2, <1>3, <1>5, <1>9, <1>12, <1>13, <1>14, <1>15, NewHandler

(* WithGroup shares the array; the call gives no attribute. *)
LEMMA WithGroupInv ==
  ASSUME SlogInv, NEW i \in DOMAIN handlers, NEW g \in GroupNames, Slog!WithGroup(i, g)
  PROVE  SlogInv'
  <1> DEFINE h == handlers[i]
             op == [attrs |-> <<>>, group |-> g]
             calls == Append(ops[i], op)
             groups == IF g = "" THEN h.groups ELSE Append(h.groups, g)
             derived == [array |-> h.array, len |-> h.len, groups |-> groups]
  <1>1. /\ h \in HandlerType /\ ops[i] \in Seq(CallType) /\ HandlerInv(h, ops[i])
        /\ h.array \in 1..Len(heap) /\ h.len \in Nat /\ h.groups \in Seq(Groups)
    BY HandlerFacts DEF HandlerInv
  <1>2. heap' = heap /\ ops' = Append(ops, calls)
    BY DEF Slog!WithGroup, Slog!Derived
  <1>3. handlers' = Append(handlers, derived)
    <2>1. handlers' = Append(handlers, IF g = "" THEN h ELSE [h EXCEPT !.groups = Append(@, g)])
      BY DEF Slog!WithGroup
    <2>2. h = [array |-> h.array, len |-> h.len, groups |-> h.groups]
      <3> HIDE DEF h
      <3> QED
        BY <1>1 DEF HandlerType
    <2>3. [h EXCEPT !.groups = Append(@, g)]
             = [array |-> h.array, len |-> h.len, groups |-> Append(h.groups, g)]
      <3> HIDE DEF h
      <3> QED
        BY <1>1, HandlerUpdates
    <2> HIDE DEF h
    <2> QED
      BY <2>1, <2>2, <2>3
  <1>4. groups \in Seq(Groups)
    <2>1. g # "" => g \in Groups
      BY Zenon DEF GroupNames
    <2>2. g \in Groups => Append(h.groups, g) \in Seq(Groups)
      <3>1. \A s \in Seq(Groups), x \in Groups : Append(s, x) \in Seq(Groups)
        OBVIOUS
      <3> QED
        BY <1>1, <3>1, Zenon
    <2> QED
      BY <1>1, <2>1, <2>2, Zenon
  <1>5. derived \in HandlerType /\ op \in CallType
    <2>1. derived \in HandlerType
      <3> HIDE DEF h, groups
      <3> QED
        BY <1>1, <1>4 DEF HandlerType
    <2>2. op \in CallType
      <3>1. <<>> \in Seq(Slog!LeafType)
        OBVIOUS
      <3> QED
        BY <3>1, Zenon DEF CallType
    <2> QED
      BY <2>1, <2>2
  <1>6. derived.array = h.array /\ derived.len = h.len /\ derived.groups = groups
    OBVIOUS
  <1>7. op.attrs = <<>> /\ op.group = g
    OBVIOUS
  <1> HIDE DEF h, op, derived
  <1>8. calls \in Seq(CallType) /\ Len(calls) = Len(ops[i]) + 1 /\ Len(ops[i]) \in Nat
    <2>1. Len(ops[i]) \in Nat
      BY <1>1
    <2> QED
      BY <1>1, <1>5, <2>1, AppendIs
  <1>9. Slog!OpenGroups(calls)[Len(calls)] = groups
    <2>1. Slog!OpenGroups(calls)[Len(ops[i]) + 1]
            = IF g = "" THEN Slog!OpenGroups(ops[i])[Len(ops[i])]
              ELSE Append(Slog!OpenGroups(ops[i])[Len(ops[i])], g)
      BY <1>1, <1>5, <1>7, <1>8, OpenGroupsAppend
    <2>2. h.groups = Slog!OpenGroups(ops[i])[Len(ops[i])]
      BY <1>1 DEF HandlerInv
    <2> QED
      BY <1>8, <2>1, <2>2
  <1>10. Slog!FlattenSeq(Slog!Given(calls)) = Slog!FlattenSeq(Slog!Given(ops[i]))
    <2> DEFINE more == Slog!Flatten(<<>>, groups)
    <2>1. more = <<>>
      <3> HIDE DEF groups
      <3> QED
        BY DEF Slog!Flatten
    <2>2. /\ Slog!Given(ops[i]) \in Seq(Seq(FieldType))
          /\ Slog!Given(calls) = Append(Slog!Given(ops[i]), more)
      <3>1. Slog!OpenGroups(calls)[Len(ops[i]) + 1] = groups
        BY <1>8, <1>9
      <3> HIDE DEF groups
      <3> QED
        BY <1>1, <1>5, <1>7, <3>1, GivenAppend
    <2>3. <<>> \in Seq(FieldType) /\ \A s \in Seq(FieldType) : s \o <<>> = s
      OBVIOUS
    <2> HIDE DEF more, calls
    <2> QED
      BY <2>1, <2>2, <2>3, FlattenAppend
  <1> HIDE DEF calls, groups
  <1>11. PICK d, c : d = derived /\ c = calls
    OBVIOUS
  <1>12. HandlerInv(d, c)'
    <2>1. d.array = h.array /\ d.len = h.len /\ d.groups = Slog!OpenGroups(c)[Len(c)]
      BY <1>6, <1>9, <1>11
    <2>2. /\ h.array \in 1..Len(heap) /\ h.len <= Len(heap[h.array])
          /\ Slog!FlattenSeq(FieldsOf(heap[h.array], h.len))
               = Slog!FlattenSeq(Slog!Given(ops[i]))
      BY <1>1 DEF HandlerInv
    <2> QED
      BY <1>2, <1>10, <1>11, <2>1, <2>2 DEF HandlerInv
  <1>13. /\ heap' \in Seq(Seq(EntryType)) /\ Len(heap) <= Len(heap')
         /\ \A k \in 1..Len(heap) : heap'[k] = heap[k]
    <2>1. heap \in Seq(Seq(EntryType)) /\ Len(heap) \in Nat
      BY HandlerFacts DEF SlogInv
    <2>2. Len(heap) <= Len(heap)
      BY <2>1
    <2> QED
      BY <1>2, <2>1, <2>2, Zenon
  <1> QED
    BY <1>2, <1>3, <1>5, <1>8, <1>11, <1>12, <1>13, NewHandler

(* The SDK derives its handlers while main serves; nothing else touches    *)
(* them.                                                                   *)
LEMMA SlogInductive == Spec => []SlogInv
  <1>1. Init => SlogInv
    BY RootInv DEF Init
  <1>2. SlogInv /\ [Next \/ Exited]_vars => SlogInv'
    <2> SUFFICES ASSUME SlogInv, [Next \/ Exited]_vars
                 PROVE  SlogInv'
      OBVIOUS
    <2>1. CASE Derive
      <3>1. PICK i \in DOMAIN handlers :
               \/ \E a \in Attrs : Slog!WithAttrs(i, a)
               \/ \E g \in GroupNames : Slog!WithGroup(i, g)
        BY <2>1 DEF Derive, Slog!Next, GroupNames
      <3> QED
        BY <3>1, WithAttrsInv, WithGroupInv
    <2>2. CASE UNCHANGED <<heap, handlers, ops>>
      BY <2>2 DEF SlogInv, HandlerInv
    <2> QED
      BY <2>1, <2>2
         DEF vars, slogVars, Next, Exited, Refuse, Load, LoadFails, Override, OverrideFails,
             ConfigureLogger, LoggerFails, BindInternal, BindFails, Build, SdkLogs
  <1> QED
    BY <1>1, <1>2, PTL DEF Spec

-----------------------------------------------------------------------------
(* The fields *)

(* Every handler logs exactly the fields the calls that made it stand for, *)
(* whatever else was derived from it or from its parents                   *)
(* (logrusHandler.WithAttrs, WithGroup and Handle), for any attributes and *)
(* groups and any number of handlers.                                      *)
THEOREM FieldsDerived == Spec => []FieldsAsDerived
  <1>1. SlogInv => FieldsAsDerived
    <2> SUFFICES ASSUME SlogInv, NEW i \in DOMAIN handlers, NEW a \in Attrs \cup {<<>>}
                 PROVE  Slog!Fields(i, a, "INFO") = Slog!Promised(ops[i], a, "INFO")
      BY DEF FieldsAsDerived, Slog!FieldsAsDerived
    <2>1. i \in 1..Len(handlers) /\ HandlerInv(handlers[i], ops[i])
      BY HandlerFacts DEF SlogInv
    <2>2. Slog!FlattenSeq(Slog!Bound(handlers[i])) = Slog!FlattenSeq(Slog!Given(ops[i]))
      BY <2>1, BoundIs DEF HandlerInv
    <2>3. handlers[i].groups = Slog!OpenGroups(ops[i])[Len(ops[i])]
      BY <2>1 DEF HandlerInv
    <2> QED
      BY <2>2, <2>3 DEF Slog!Fields, Slog!Promised
  <1> QED
    BY <1>1, SlogInductive, PTL

=============================================================================
