--------------------------- MODULE Dialect_proofs ---------------------------
(***************************************************************************)
(* Proofs about Dialect, for every set of targets and groups and either    *)
(* policy of the bus, and for targets of every length: what parse()        *)
(* answers for the fields of an extractor; what re makes of a target, and  *)
(* with it the groups that analyze() reports and the targets without       *)
(* backslashes and classes that Field() takes.                             *)
(*                                                                         *)
(* Reading goes from token to token: what holds of the empty sequence, and *)
(* of Append(s, t) when it holds of s, holds of every sequence (SeqSets).  *)
(***************************************************************************)
EXTENDS Dialect, FiniteSetTheorems, SequenceTheorems, WellFoundedInduction, TLAPS

\* Where in the failures field i has one.
FailuresOf(i) == {j \in DOMAIN failures : failures[j][1] = i}

\* The fields behind parse() have a value or one failure, the others nothing.
AnsweredOnce(i) ==
    IF i >= at THEN i \notin results /\ FailuresOf(i) = {}
    ELSE IF i \in results THEN FailuresOf(i) = {}
    ELSE \E j \in DOMAIN failures : FailuresOf(i) = {j}

\* parse() goes through the fields in turn, and the client adds none meanwhile.
FieldsAt ==
    /\ fields \in Seq(Groups)
    /\ at \in 0..Len(fields) + 1
    /\ failures \in Seq(Nat \X Kinds)
    /\ at = 0 => results = {} /\ failures = <<>>
    /\ ended = "returned" => at = Len(fields) + 1
    /\ ended \in {"no", "returned", "raised"}

IInv == FieldsAt /\ (ended # "raised" /\ at > 0 => \A i \in DOMAIN fields : AnsweredOnce(i))

-----------------------------------------------------------------------------
\* Nothing is declared or parsed.
LEMMA InitInv == Init => IInv
<1> SUFFICES ASSUME Init PROVE IInv
  OBVIOUS
<1>1. fields = <<>> /\ at = 0 /\ results = {} /\ failures = <<>> /\ ended = "no"
  BY DEF Init
<1>2. <<>> \in Seq(Groups) /\ <<>> \in Seq(Nat \X Kinds) /\ Len(<<>>) = 0
  OBVIOUS
<1> QED BY <1>1, <1>2 DEF IInv, FieldsAt

\* A failure more is one of the field it names, and of no other.
LEMMA OneFailureMore ==
    ASSUME FieldsAt, NEW n \in Nat, NEW kind \in Kinds, failures' = Append(failures, <<n, kind>>),
           NEW i \in Nat
    PROVE  /\ failures' \in Seq(Nat \X Kinds)
           /\ DOMAIN failures \subseteq DOMAIN failures'
           /\ i # n => FailuresOf(i)' = FailuresOf(i)
           /\ i = n /\ FailuresOf(i) = {} => \E j \in DOMAIN failures' : FailuresOf(i)' = {j}
<1> DEFINE k == Len(failures)
<1>1. failures \in Seq(Nat \X Kinds) /\ k \in Nat /\ DOMAIN failures = 1..k
  BY DEF FieldsAt
<1>2. failures' \in Seq(Nat \X Kinds)
  BY <1>1
<1>3. /\ DOMAIN failures' = (1..k) \cup {k + 1} /\ failures'[k + 1] = <<n, kind>>
      /\ \A j \in 1..k : failures'[j] = failures[j]
  BY <1>1
<1>4. FailuresOf(i)' = FailuresOf(i) \cup (IF i = n THEN {k + 1} ELSE {})
  BY <1>1, <1>3 DEF FailuresOf
<1> QED BY <1>1, <1>2, <1>3, <1>4

\* A step of parse() answers the field it is at.
LEMMA ParseFieldInv == ASSUME IInv, ParseField PROVE IInv'
<1>1. /\ FieldsAt /\ fields' = fields /\ at \in DOMAIN fields /\ ended = "no"
      /\ \A i \in DOMAIN fields : AnsweredOnce(i)
  BY DEF ParseField, IInv, FieldsAt
<1>2. /\ at \in Nat /\ at > 0 /\ DOMAIN fields = 1..Len(fields) /\ Len(fields) \in Nat
      /\ at + 1 \in 0..Len(fields) + 1 /\ at + 1 > 0
  BY <1>1 DEF FieldsAt
<1>3. "NO_MATCH" \in Kinds /\ "INCOMPATIBLE_JSON_TYPE" \in Kinds
  BY DEF Kinds
<1>4. ASSUME ended' = "raised", at' = at, failures' \in Seq(Nat \X Kinds) PROVE IInv'
  BY <1>1, <1>2, <1>4 DEF IInv, FieldsAt
<1>5. ASSUME NEW kind \in Kinds, failures' = Append(failures, <<at, kind>>), results' = results,
             at' = at + 1, ended' = ended
      PROVE  IInv'
  <2>1. failures' \in Seq(Nat \X Kinds)
    BY <1>1, <1>2, <1>5, OneFailureMore
  <2>2. ASSUME NEW i \in DOMAIN fields PROVE AnsweredOnce(i)'
    <3>1. i \in Nat /\ AnsweredOnce(i)
      BY <1>1, <1>2, <2>2
    <3>2. CASE i = at
      <4>1. i \notin results /\ FailuresOf(i) = {}
        BY <1>2, <3>1, <3>2 DEF AnsweredOnce
      <4>2. \E j \in DOMAIN failures' : FailuresOf(i)' = {j}
        BY <1>1, <1>2, <1>5, <3>1, <3>2, <4>1, OneFailureMore
      <4>3. ~(i >= at')
        BY <1>2, <1>5, <3>2
      <4> QED BY <1>5, <4>1, <4>2, <4>3 DEF AnsweredOnce
    <3>3. CASE i # at
      <4>1. FailuresOf(i)' = FailuresOf(i) /\ DOMAIN failures \subseteq DOMAIN failures'
        BY <1>1, <1>2, <1>5, <3>1, <3>3, OneFailureMore
      <4>2. i >= at' <=> i >= at
        BY <1>2, <1>5, <3>1, <3>3
      <4> QED BY <1>5, <3>1, <4>1, <4>2 DEF AnsweredOnce
    <3> QED BY <3>2, <3>3
  <2> QED BY <1>1, <1>2, <1>5, <2>1, <2>2 DEF IInv, FieldsAt
<1>6. ASSUME results' = results \cup {at}, at' = at + 1, UNCHANGED <<failures, ended>>
      PROVE  IInv'
  <2>1. ASSUME NEW i \in DOMAIN fields PROVE AnsweredOnce(i)'
    <3>1. i \in Nat /\ AnsweredOnce(i) /\ FailuresOf(i)' = FailuresOf(i)
      BY <1>1, <1>2, <1>6, <2>1 DEF FailuresOf
    <3>2. i = at \/ (i >= at' <=> i >= at)
      BY <1>2, <1>6, <3>1
    <3>3. i = at => ~(i >= at') /\ i >= at
      BY <1>2, <1>6
    <3> QED BY <1>6, <3>1, <3>2, <3>3 DEF AnsweredOnce
  <2> QED BY <1>1, <1>2, <1>6, <2>1 DEF IInv, FieldsAt
<1>7. CASE NoMatch /\ at' = at + 1 /\ UNCHANGED ended
  BY <1>3, <1>5, <1>7 DEF NoMatch
<1>8. CASE failures' = CastFailure /\ UNCHANGED results
  <2>1. failures' \in Seq(Nat \X Kinds)
    BY <1>1, <1>2, <1>3, <1>8, OneFailureMore DEF CastFailure
  <2>2. CASE ended' = "raised" /\ at' = at
    BY <1>4, <2>1, <2>2
  <2>3. CASE at' = at + 1 /\ UNCHANGED ended
    BY <1>3, <1>5, <1>8, <2>3 DEF CastFailure
  <2>4. (ended' = "raised" /\ at' = at) \/ (at' = at + 1 /\ UNCHANGED ended)
    BY <1>2, <1>8, <1>1 DEF ParseField, CastFailure
  <2> QED BY <2>2, <2>3, <2>4
<1>9. CASE ended' = "raised" /\ UNCHANGED <<at, results, failures>>
  BY <1>1, <1>4, <1>9 DEF FieldsAt
<1> QED BY <1>6, <1>7, <1>8, <1>9 DEF ParseField

\* Each other step leaves what parse() has answered as it is.
LEMMA NextInv == IInv /\ [Next]_vars => IInv'
<1> SUFFICES ASSUME IInv, [Next]_vars PROVE IInv'
  OBVIOUS
<1>1. ASSUME UNCHANGED <<fields, at, results, failures>>,
             UNCHANGED ended \/ (ended = "no" /\ ended' = "returned" /\ at = Len(fields) + 1)
      PROVE  IInv'
  BY <1>1 DEF IInv, FieldsAt, AnsweredOnce, FailuresOf
<1>2. ASSUME NEW t \in Tokens, Write(t) PROVE IInv'
  BY <1>1, <1>2 DEF Write, parsing
<1>3. ASSUME NEW g \in Groups, Declare(g) PROVE IInv'
  <2>1. at = 0 /\ UNCHANGED <<at, results, failures, ended>> /\ fields \in Seq(Groups)
    BY <1>3 DEF Declare, parsing, IInv, FieldsAt
  <2>2. fields' \in Seq(Groups)
    BY <1>3, <2>1 DEF Declare
  <2>3. ended # "returned"
    BY <2>1 DEF IInv, FieldsAt
  <2> QED BY <2>1, <2>2, <2>3 DEF IInv, FieldsAt
<1>4. CASE Parse
  <2>1. /\ at = 0 /\ at' = 1 /\ fields # <<>> /\ fields \in Seq(Groups)
        /\ UNCHANGED <<fields, results, failures, ended>> /\ results = {} /\ failures = <<>>
    BY <1>4 DEF Parse, IInv, FieldsAt
  <2>2. 1 \in 0..Len(fields) + 1 /\ DOMAIN fields = 1..Len(fields)
    BY <2>1
  <2>3. ended # "returned"
    BY <2>1 DEF IInv, FieldsAt
  <2>4. ASSUME NEW i \in DOMAIN fields PROVE AnsweredOnce(i)'
    <3>1. i >= at'
      BY <2>1, <2>2, <2>4
    <3>2. FailuresOf(i)' = {}
      BY <2>1 DEF FailuresOf
    <3> QED BY <2>1, <3>1, <3>2 DEF AnsweredOnce
  <2> QED BY <2>1, <2>2, <2>3, <2>4 DEF IInv, FieldsAt
<1>5. CASE ParseField
  BY <1>5, ParseFieldInv
<1>6. CASE Return
  <2>1. at = Len(fields) + 1
    BY <1>6 DEF Return, IInv, FieldsAt
  <2> QED BY <1>1, <1>6, <2>1 DEF Return
<1>7. ASSUME NEW fn \in ParseFns, Analyze(fn) PROVE IInv'
  BY <1>1, <1>7 DEF Analyze, parsing
<1>8. CASE UNCHANGED vars
  BY <1>1, <1>8 DEF vars, parsing
<1> QED BY <1>2, <1>3, <1>4, <1>5, <1>6, <1>7, <1>8 DEF Next

-----------------------------------------------------------------------------
\* parse() is at one field, the ones before it are answered, and no field comes
\* or goes meanwhile.
THEOREM Invariant == Spec => []IInv
<1> QED BY InitInv, NextInv, PTL DEF Spec

\* For every extractor, whatever matches, and under either policy: when parse()
\* returns, each field has a value or exactly one failure, never both.
THEOREM Answered == Spec => []EveryFieldAnswered
<1>1. IInv => EveryFieldAnswered
  <2> SUFFICES ASSUME IInv, ended = "returned", NEW i \in DOMAIN fields
               PROVE  Cardinality(FailuresOf(i)) = IF i \in results THEN 0 ELSE 1
    BY DEF EveryFieldAnswered, FailuresOf
  <2>1. at = Len(fields) + 1 /\ Len(fields) \in Nat /\ i \in 1..Len(fields)
    BY DEF IInv, FieldsAt
  <2>2. AnsweredOnce(i) /\ ~(i >= at)
    BY <2>1 DEF IInv
  <2>3. CASE i \in results
    BY <2>2, <2>3, FS_EmptySet DEF AnsweredOnce
  <2>4. CASE i \notin results
    <3>1. PICK j \in DOMAIN failures : FailuresOf(i) = {j}
      BY <2>2, <2>4 DEF AnsweredOnce
    <3> QED BY <2>4, <3>1, FS_Singleton
  <2> QED BY <2>3, <2>4
<1> QED BY <1>1, Invariant, PTL

-----------------------------------------------------------------------------
(***************************************************************************)
(* Induction over the natural numbers, for a set that is closed under it.  *)
(***************************************************************************)
\* Every set of natural numbers has a least one.
LEMMA Least ==
  ASSUME NEW T \in SUBSET Nat, T # {}
  PROVE  \E m \in T : \A n \in T : m <= n
<1> DEFINE Below == {0..n : n \in T}
<1>1. \A n \in T : 0..n \in SUBSET Nat /\ IsFiniteSet(0..n)
  BY FS_Interval
<1>2. Below \subseteq FiniteSubsetsOf(Nat) /\ Below # {}
  BY <1>1 DEF FiniteSubsetsOf
<1>3. IsWellFoundedOn(StrictSubsetOrdering(Nat), FiniteSubsetsOf(Nat))
  BY FS_StrictSubsetOrderingWellFounded
<1>4. \E x \in Below : \A y \in Below : ~(<<y, x>> \in StrictSubsetOrdering(Nat))
  <2> HIDE DEF Below
  <2> QED BY <1>2, <1>3, WFMin
<1>5. PICK m \in T : \A n \in T : ~(<<0..n, 0..m>> \in StrictSubsetOrdering(Nat))
  BY <1>4
<1>6. ASSUME NEW n \in T, n < m PROVE FALSE
  <2>1. 0..n \subseteq 0..m /\ m \in 0..m /\ m \notin 0..n /\ 0..n \in SUBSET Nat /\ 0..m \in SUBSET Nat
    BY <1>6
  <2> HIDE DEF Below
  <2>2. 0..n # 0..m
    BY <2>1
  <2> QED BY <2>1, <2>2, <1>5 DEF StrictSubsetOrdering
<1> QED BY <1>6

\* A set with 0, and with n + 1 for every n in it, has all the natural numbers.
LEMMA NatSets ==
  ASSUME NEW S, 0 \in S, \A n \in Nat : n \in S => n + 1 \in S
  PROVE  \A n \in Nat : n \in S
<1> DEFINE T == Nat \ S
<1>1. ASSUME T # {} PROVE FALSE
  <2>1. PICK m \in T : \A n \in T : m <= n
    BY <1>1, Least
  <2>2. m # 0 /\ m \in Nat /\ m - 1 \in Nat /\ m - 1 \notin T
    BY <2>1
  <2> QED BY <2>1, <2>2
<1> QED BY <1>1

\* FlattenSeq is the last of the sequences f[i] that put the first i together.
LEMMA Flattened ==
  ASSUME NEW S, NEW n \in Nat \ {0}, NEW s \in [1..n -> Seq(S)], NEW f \in [1..n -> Seq(S)],
         f[1] = s[1], \A i \in 2..n : f[i] = f[i - 1] \o s[i]
  PROVE  FlattenSeq(s) = f[n]
<1> DEFINE step(g) == [i \in 1..n |-> IF i = 1 THEN s[i] ELSE g[i - 1] \o s[i]]
           flat == CHOOSE g : g = step(g)
<1>1. Len(s) = n /\ n # 0
  OBVIOUS
<1>2. FlattenSeq(s) = flat[n]
  BY <1>1 DEF FlattenSeq
<1>3. f = step(f)
  <2>1. \A i \in 1..n : f[i] = IF i = 1 THEN s[i] ELSE f[i - 1] \o s[i]
    <3> SUFFICES ASSUME NEW i \in 1..n PROVE f[i] = IF i = 1 THEN s[i] ELSE f[i - 1] \o s[i]
      OBVIOUS
    <3>1. CASE i = 1
      BY <3>1
    <3>2. CASE i # 1
      <4>1. i \in Nat /\ i >= 1 /\ i <= n /\ n \in Nat
        OBVIOUS
      <4>2. i \in 2..n
        BY <3>2, <4>1
      <4> QED BY <3>2, <4>2
    <3> QED BY <3>1, <3>2
  <2>2. f = [i \in 1..n |-> f[i]]
    OBVIOUS
  <2> QED BY <2>1, <2>2
<1>4. flat = step(flat)
  BY <1>3
<1> HIDE DEF flat
<1>5. \A i \in 1..n : flat[i] = IF i = 1 THEN s[i] ELSE flat[i - 1] \o s[i]
  BY <1>4
<1> DEFINE Same == {m \in Nat : m + 1 \in 1..n => flat[m + 1] = f[m + 1]}
<1>6. 0 \in Same
  BY <1>5
<1>7. ASSUME NEW m \in Nat, m \in Same PROVE m + 1 \in Same
  <2> SUFFICES ASSUME (m + 1) + 1 \in 1..n PROVE flat[(m + 1) + 1] = f[(m + 1) + 1]
    OBVIOUS
  <2>1. m + 1 \in 1..n /\ (m + 1) + 1 \in 2..n /\ (m + 1) + 1 # 1 /\ ((m + 1) + 1) - 1 = m + 1
    OBVIOUS
  <2>2. flat[m + 1] = f[m + 1]
    BY <1>7, <2>1
  <2>3. flat[(m + 1) + 1] = flat[m + 1] \o s[(m + 1) + 1]
    BY <1>5, <2>1
  <2>4. f[(m + 1) + 1] = f[m + 1] \o s[(m + 1) + 1]
    BY <2>1
  <2> QED BY <2>2, <2>3, <2>4
<1>8. \A m \in Nat : m \in Same
  <2> HIDE DEF Same
  <2> QED BY <1>6, <1>7, NatSets
<1>9. n - 1 \in Nat /\ (n - 1) + 1 = n /\ n \in 1..n
  OBVIOUS
<1>10. n - 1 \in Same
  BY <1>8, <1>9
<1> QED BY <1>2, <1>9, <1>10

\* What is put together from sequences over S is one.
LEMMA FlattenType ==
  ASSUME NEW S, NEW n \in Nat, NEW s \in [1..n -> Seq(S)]
  PROVE  FlattenSeq(s) \in Seq(S)
<1>1. CASE n = 0
  <2>1. s = <<>> /\ Len(s) = 0
    BY <1>1
  <2> QED BY <2>1 DEF FlattenSeq
<1>2. CASE n # 0
  <2> DEFINE Parts(f, k) == f[1] = s[1] /\ \A i \in 2..k : f[i] = f[i - 1] \o s[i]
             Has(k) == k \in 1..n => \E f \in [1..k -> Seq(S)] : Parts(f, k)
             Have == {k \in Nat : Has(k + 1)}
  <2>1. Has(0 + 1)
    <3> DEFINE f == [i \in 1..1 |-> s[1]]
    <3>1. f \in [1..(0 + 1) -> Seq(S)] /\ Parts(f, 0 + 1)
      BY <1>2
    <3> QED BY <3>1
  <2>2. ASSUME NEW k \in Nat, Has(k + 1) PROVE Has((k + 1) + 1)
    <3> SUFFICES ASSUME (k + 1) + 1 \in 1..n
                 PROVE  \E f \in [1..((k + 1) + 1) -> Seq(S)] : Parts(f, (k + 1) + 1)
      OBVIOUS
    <3>0. k + 1 \in 1..n
      OBVIOUS
    <3>1. PICK f \in [1..(k + 1) -> Seq(S)] : Parts(f, k + 1)
      <4> HIDE DEF Parts
      <4> QED BY <2>2, <3>0
    <3> DEFINE u == f[k + 1] \o s[k + 2]
               g == [i \in 1..((k + 1) + 1) |-> IF i <= k + 1 THEN f[i] ELSE u]
    <3>2. u \in Seq(S)
      <4>1. f[k + 1] \in Seq(S) /\ s[k + 2] \in Seq(S)
        OBVIOUS
      <4> QED BY <4>1, ConcatProperties
    <3>3. u = f[k + 1] \o s[k + 2]
      OBVIOUS
    <3> HIDE DEF u
    <3>4. g \in [1..((k + 1) + 1) -> Seq(S)]
      BY <3>2
    <3>5. g[1] = s[1]
      BY <3>1
    <3>6. \A i \in 2..((k + 1) + 1) : g[i] = g[i - 1] \o s[i]
      <4> SUFFICES ASSUME NEW i \in 2..((k + 1) + 1) PROVE g[i] = g[i - 1] \o s[i]
        OBVIOUS
      <4>1. CASE i <= k + 1
        <5>1. g[i] = f[i] /\ g[i - 1] = f[i - 1] /\ i \in 2..(k + 1)
          BY <4>1
        <5> HIDE DEF g
        <5> QED BY <3>1, <5>1
      <4>2. CASE ~(i <= k + 1)
        <5>1. i = k + 2 /\ g[i] = u /\ g[i - 1] = f[k + 1]
          BY <4>2
        <5> HIDE DEF g
        <5> QED BY <3>3, <5>1
      <4> QED BY <4>1, <4>2
    <3> HIDE DEF g
    <3> QED BY <3>4, <3>5, <3>6
  <2>3. \A k \in Nat : k \in Have
    <3> HIDE DEF Has
    <3>1. 0 \in Have /\ \A k \in Nat : k \in Have => k + 1 \in Have
      BY <2>1, <2>2
    <3> HIDE DEF Have
    <3> QED BY <3>1, NatSets
  <2>4. Has(n)
    <3>1. (n - 1) + 1 = n /\ n - 1 \in Nat
      BY <1>2
    <3> HIDE DEF Has
    <3>2. n - 1 \in Have
      <4> HIDE DEF Have
      <4> QED BY <2>3, <3>1
    <3> QED BY <3>1, <3>2
  <2>5. PICK f \in [1..n -> Seq(S)] : Parts(f, n)
    <3>1. n \in 1..n
      BY <1>2
    <3> HIDE DEF Parts
    <3> QED BY <2>4, <3>1
  <2>6. f[1] = s[1] /\ \A i \in 2..n : f[i] = f[i - 1] \o s[i]
    BY <2>5
  <2>7. FlattenSeq(s) = f[n]
    BY <1>2, <2>6, Flattened
  <2> QED BY <1>2, <2>7
<1> QED BY <1>1, <1>2

-----------------------------------------------------------------------------
(***************************************************************************)
(* The reader of patterns, token by token.                                 *)
(***************************************************************************)
\* f[i] is what the reader knows behind i tokens of s.
Reads(f, s, n) == f = [i \in 0..n |-> IF i = 0 THEN Beginning ELSE ReadToken(f[i - 1], s[i])]

\* The readers after each of the first n tokens are there, one after the other.
LEMMA ReadsExists ==
  ASSUME NEW s, NEW n \in Nat
  PROVE  \E f : Reads(f, s, n)
<1> DEFINE Have == {k \in Nat : \E f : Reads(f, s, k)}
<1>1. 0 \in Have
  <2> DEFINE f == [i \in 0..0 |-> Beginning]
  <2>1. Reads(f, s, 0)
    BY DEF Reads
  <2> QED BY <2>1
<1>2. ASSUME NEW k \in Nat, k \in Have PROVE k + 1 \in Have
  <2>1. PICK f : Reads(f, s, k)
    BY <1>2
  <2> DEFINE u == ReadToken(f[k], s[k + 1])
             g == [i \in 0..(k + 1) |-> IF i <= k THEN f[i] ELSE u]
             h == [i \in 0..(k + 1) |-> IF i = 0 THEN Beginning ELSE ReadToken(g[i - 1], s[i])]
  <2>2. ASSUME NEW i \in 0..(k + 1) PROVE g[i] = h[i]
    <3>1. CASE i = 0
      BY <2>1, <3>1 DEF Reads
    <3>2. CASE i # 0 /\ i <= k
      <4>1. i \in 0..k /\ i - 1 \in 0..k /\ f[i] = ReadToken(f[i - 1], s[i])
        BY <2>1, <3>2 DEF Reads
      <4>2. g[i] = f[i] /\ g[i - 1] = f[i - 1]
        BY <4>1
      <4>3. h[i] = ReadToken(g[i - 1], s[i])
        BY <3>2
      <4> QED BY <4>1, <4>2, <4>3
    <3>3. CASE i = k + 1
      <4>1. g[i] = u /\ g[i - 1] = f[k] /\ h[i] = ReadToken(g[i - 1], s[i])
        BY <3>3
      <4> QED BY <3>3, <4>1
    <3> QED BY <3>1, <3>2, <3>3
  <2>3. g = h
    <3>1. DOMAIN g = DOMAIN h /\ g = [i \in DOMAIN g |-> g[i]] /\ h = [i \in DOMAIN h |-> h[i]]
      OBVIOUS
    <3> QED BY <2>2, <3>1
  <2> HIDE DEF g
  <2> QED BY <2>3 DEF Reads
<1> HIDE DEF Have
<1>3. \A k \in Nat : k \in Have
  BY <1>1, <1>2, NatSets
<1> QED BY <1>3 DEF Have

\* They depend on the first n tokens alone.
LEMMA ReadsUnique ==
  ASSUME NEW n \in Nat, NEW s, NEW r, NEW f, NEW g,
         Reads(f, s, n) /\ Reads(g, r, n + 1) /\ \A i \in 1..n : s[i] = r[i]
  PROVE  f[n] = g[n]
<1> DEFINE Same == {k \in Nat : k <= n => f[k] = g[k]}
<1>1. /\ \A i \in 0..n : f[i] = IF i = 0 THEN Beginning ELSE ReadToken(f[i - 1], s[i])
      /\ \A i \in 0..(n + 1) : g[i] = IF i = 0 THEN Beginning ELSE ReadToken(g[i - 1], r[i])
  BY DEF Reads
<1>2. 0 \in Same
  BY <1>1
<1>3. ASSUME NEW k \in Nat, k \in Same PROVE k + 1 \in Same
  <2> SUFFICES ASSUME k + 1 <= n PROVE f[k + 1] = g[k + 1]
    OBVIOUS
  <2>1. k + 1 \in 0..n /\ k + 1 \in 1..n /\ k + 1 \in 0..(n + 1) /\ k + 1 # 0 /\ (k + 1) - 1 = k
    OBVIOUS
  <2>2. f[k + 1] = ReadToken(f[k], s[k + 1]) /\ g[k + 1] = ReadToken(g[k], r[k + 1])
    BY <1>1, <2>1
  <2> QED BY <1>3, <2>1, <2>2
<1>4. \A k \in Nat : k \in Same
  <2> HIDE DEF Same
  <2> QED BY <1>2, <1>3, NatSets
<1> QED BY <1>4

\* Reading is the last of them.
LEMMA ReadingIs ==
  ASSUME NEW S, NEW s \in Seq(S)
  PROVE  \E f : Reads(f, s, Len(s)) /\ Reading(s) = f[Len(s)]
<1> DEFINE n == Len(s)
           upto == CHOOSE f : f = [i \in 0..n |-> IF i = 0 THEN Beginning ELSE ReadToken(f[i - 1], s[i])]
<1>1. n \in Nat
  OBVIOUS
<1>2. \E f : f = [i \in 0..n |-> IF i = 0 THEN Beginning ELSE ReadToken(f[i - 1], s[i])]
  BY <1>1, ReadsExists DEF Reads
<1>3. Reads(upto, s, n)
  BY <1>2 DEF Reads
<1>4. Reading(s) = upto[n]
  BY DEF Reading
<1> HIDE DEF upto
<1> QED BY <1>3, <1>4

\* At the beginning nothing is read.
LEMMA ReadingNothing == Reading(<<>>) = Beginning
<1>1. <<>> \in Seq(Tokens) /\ Len(<<>>) = 0
  OBVIOUS
<1>2. PICK f : Reads(f, <<>>, 0) /\ Reading(<<>>) = f[0]
  BY <1>1, ReadingIs
<1>3. f[0] = Beginning
  BY <1>2 DEF Reads
<1> QED BY <1>2, <1>3

\* A token more is read behind the ones before it.
LEMMA ReadingMore ==
  ASSUME NEW S, NEW s \in Seq(S), NEW t \in S
  PROVE  Reading(Append(s, t)) = ReadToken(Reading(s), t)
<1> DEFINE n == Len(s)
           r == Append(s, t)
<1>1. n \in Nat /\ r \in Seq(S) /\ Len(r) = n + 1 /\ r[n + 1] = t /\ \A i \in 1..n : s[i] = r[i]
  OBVIOUS
<1> HIDE DEF r
<1>2. PICK f : Reads(f, s, n) /\ Reading(s) = f[n]
  BY ReadingIs
<1>3. PICK g : Reads(g, r, n + 1) /\ Reading(r) = g[n + 1]
  BY <1>1, ReadingIs
<1> HIDE DEF n
<1>4. f[n] = g[n]
  <2>1. n \in Nat /\ \A i \in 1..n : s[i] = r[i]
    BY <1>1
  <2>2. Reads(f, s, n) /\ Reads(g, r, n + 1)
    BY <1>2, <1>3
  <2> QED BY <2>1, <2>2, ReadsUnique
<1>5. g[n + 1] = ReadToken(g[n], r[n + 1])
  BY <1>1, <1>3 DEF Reads
<1> QED BY <1>1, <1>2, <1>3, <1>4, <1>5 DEF r

\* A set with the empty sequence, and with each sequence one longer than one in
\* it, has all sequences.
LEMMA SeqSets ==
  ASSUME NEW S, NEW X, <<>> \in X, \A s \in Seq(S), t \in S : s \in X => Append(s, t) \in X
  PROVE  \A s \in Seq(S) : s \in X
<1> DEFINE Have == {n \in Nat : \A s \in Seq(S) : Len(s) = n => s \in X}
<1>1. 0 \in Have
  BY EmptySeq
<1>2. ASSUME NEW n \in Nat, n \in Have PROVE n + 1 \in Have
  <2> SUFFICES ASSUME NEW s \in Seq(S), Len(s) = n + 1 PROVE s \in X
    OBVIOUS
  <2>1. PICK r \in Seq(S), t \in S : s = Append(r, t)
    <3>1. s # <<>>
      OBVIOUS
    <3> QED BY <3>1, SequenceEmptyOrAppend
  <2>2. Len(r) = n
    BY <2>1
  <2> QED BY <1>2, <2>1, <2>2
<1>3. \A n \in Nat : n \in Have
  <2> HIDE DEF Have
  <2> QED BY <1>1, <1>2, NatSets
<1> QED BY <1>3

\* The items, alternatives and open groups that a reader of tokens in S has.
Item(S) == [is : {"literal", "group", "class"}, of : SUBSET S, at : Nat]
AltsOf(S) == Seq(Seq(Item(S)))
ReaderOf(S) ==
    [open : Seq(AltsOf(S)), class : {"none", "start", "inside"}, chars : SUBSET S,
     groups : Nat, named : BOOLEAN, union : BOOLEAN,
     error : {"none", "redefinition", "unbalanced parenthesis"}]

\* The whole pattern lies under the open groups, and each has an alternative.
Stacked(r) == Len(r.open) > 0 /\ \A d \in DOMAIN r.open : Len(r.open[d]) > 0

\* What a reader that is stacked consists of.
LEMMA ReaderFields ==
  ASSUME NEW S, NEW r \in ReaderOf(S), Stacked(r)
  PROVE  /\ r.open \in Seq(AltsOf(S)) /\ Len(r.open) \in Nat \ {0}
         /\ DOMAIN r.open = 1..Len(r.open)
         /\ \A d \in 1..Len(r.open) : /\ r.open[d] \in AltsOf(S)
                                     /\ Len(r.open[d]) \in Nat \ {0}
                                     /\ \A a \in 1..Len(r.open[d]) : r.open[d][a] \in Seq(Item(S))
         /\ r.groups \in Nat /\ r.named \in BOOLEAN /\ r.union \in BOOLEAN
<1>1. r.open \in Seq(AltsOf(S)) /\ r.groups \in Nat /\ r.named \in BOOLEAN /\ r.union \in BOOLEAN
  BY DEF ReaderOf
<1>2. Len(r.open) \in Nat \ {0} /\ DOMAIN r.open = 1..Len(r.open)
  BY <1>1 DEF Stacked
<1>3. ASSUME NEW d \in 1..Len(r.open)
      PROVE  /\ r.open[d] \in AltsOf(S)
             /\ Len(r.open[d]) \in Nat \ {0}
             /\ \A a \in 1..Len(r.open[d]) : r.open[d][a] \in Seq(Item(S))
  <2>1. r.open[d] \in AltsOf(S)
    BY <1>1
  <2>2. Len(r.open[d]) > 0
    BY <1>2 DEF Stacked
  <2>3. Len(r.open[d]) \in Nat /\ \A a \in 1..Len(r.open[d]) : r.open[d][a] \in Seq(Item(S))
    BY <2>1 DEF AltsOf
  <2> QED BY <2>1, <2>2, <2>3
<1> QED BY <1>1, <1>2, <1>3

\* A level of a reader has an alternative to which items are added.
LEMMA ReaderAlts ==
  ASSUME NEW S, NEW r \in ReaderOf(S), Stacked(r), NEW d \in 1..Len(r.open)
  PROVE  /\ r.open[d] \in AltsOf(S) /\ Len(r.open[d]) \in Nat \ {0} /\ Len(r.open[d]) > 0
         /\ Len(r.open[d]) \in 1..Len(r.open[d])
         /\ r.open[d][Len(r.open[d])] \in Seq(Item(S))
<1>1. /\ r.open[d] \in AltsOf(S) /\ Len(r.open[d]) \in Nat \ {0}
      /\ \A a \in 1..Len(r.open[d]) : r.open[d][a] \in Seq(Item(S))
  BY ReaderFields
<1>2. Len(r.open[d]) \in 1..Len(r.open[d]) /\ Len(r.open[d]) > 0
  BY <1>1
<1> QED BY <1>1, <1>2

\* re begins with a reader that is stacked.
LEMMA BeginningType == ASSUME NEW S PROVE Beginning \in ReaderOf(S) /\ Stacked(Beginning)
<1>1. << << <<>> >> >> \in Seq(AltsOf(S))
  <2>1. <<>> \in Seq(Item(S))
    OBVIOUS
  <2>2. << <<>> >> \in AltsOf(S)
    BY <2>1 DEF AltsOf
  <2> QED BY <2>2
<1>2. Beginning \in ReaderOf(S)
  BY <1>1 DEF Beginning, ReaderOf
<1>3. Stacked(Beginning)
  BY DEF Beginning, Stacked
<1> QED BY <1>2, <1>3

\* An item goes to the end of the last alternative of the innermost group.
LEMMA AddItemIs ==
  ASSUME NEW S, NEW r \in ReaderOf(S), Stacked(r), NEW item \in Item(S)
  PROVE  LET d == Len(r.open)
             n == Len(r.open[d])
             u == AddItem(r, item)
         IN  /\ u \in ReaderOf(S) /\ Stacked(u)
             /\ \A x \in {"class", "chars", "groups", "named", "union", "error"} : u[x] = r[x]
             /\ Len(u.open) = d
             /\ \A k \in 1..d : k # d => u.open[k] = r.open[k]
             /\ Len(u.open[d]) = n
             /\ \A a \in 1..n : a # n => u.open[d][a] = r.open[d][a]
             /\ u.open[d][n] = Append(r.open[d][n], item)
<1> DEFINE d == Len(r.open)
           n == Len(r.open[d])
           u == AddItem(r, item)
           alt == Append(r.open[d][n], item)
           alts == [r.open[d] EXCEPT ![n] = alt]
           open == [r.open EXCEPT ![d] = alts]
<1>1. /\ r.open \in Seq(AltsOf(S)) /\ d \in Nat \ {0}
      /\ r.open[d] \in AltsOf(S) /\ n \in Nat \ {0}
      /\ r.open[d][n] \in Seq(Item(S)) /\ d \in 1..d /\ n \in 1..n
  <2>1. r.open \in Seq(AltsOf(S)) /\ d \in Nat \ {0} /\ d \in 1..d
    BY ReaderFields
  <2> QED BY <2>1, ReaderAlts
<1>2. alt \in Seq(Item(S)) /\ alt = Append(r.open[d][n], item)
  BY <1>1
<1>3. u = [r EXCEPT !.open = open]
  BY DEF AddItem
<1> HIDE DEF alt
<1>4. /\ alts \in AltsOf(S) /\ Len(alts) = n /\ alts[n] = alt
      /\ \A a \in 1..n : a # n => alts[a] = r.open[d][a]
  BY <1>1, <1>2, SMTT(30) DEF AltsOf
<1> HIDE DEF alts
<1>5. /\ open \in Seq(AltsOf(S)) /\ Len(open) = d /\ open[d] = alts
      /\ \A k \in 1..d : k # d => open[k] = r.open[k]
  BY <1>1, <1>4
<1> HIDE DEF open, u
<1>6. /\ u \in ReaderOf(S) /\ u.open = open
      /\ \A x \in {"class", "chars", "groups", "named", "union", "error"} : u[x] = r[x]
  BY <1>3, <1>5 DEF ReaderOf
<1>7. Stacked(u)
  <2> SUFFICES ASSUME NEW k \in DOMAIN u.open PROVE Len(u.open[k]) > 0
    BY <1>1, <1>5, <1>6 DEF Stacked
  <2>1. CASE k = d
    BY <1>1, <1>4, <1>5, <1>6, <2>1
  <2>2. CASE k # d
    <3>1. k \in DOMAIN r.open /\ u.open[k] = r.open[k]
      BY <1>1, <1>5, <1>6, <2>2
    <3> QED BY <3>1 DEF Stacked
  <2> QED BY <2>1, <2>2
<1> HIDE DEF d, n
<1>8. /\ u \in ReaderOf(S) /\ Stacked(u)
      /\ \A x \in {"class", "chars", "groups", "named", "union", "error"} : u[x] = r[x]
      /\ Len(u.open) = d
      /\ \A k \in 1..d : k # d => u.open[k] = r.open[k]
      /\ Len(u.open[d]) = n
      /\ \A a \in 1..n : a # n => u.open[d][a] = r.open[d][a]
      /\ u.open[d][n] = Append(r.open[d][n], item)
  BY <1>2, <1>4, <1>5, <1>6, <1>7
<1> QED BY <1>8 DEF d, n, u

\* A reader that an item was added to is a reader, with the same groups.
LEMMA AddItemGood ==
  ASSUME NEW S, NEW r \in ReaderOf(S), Stacked(r), NEW item \in Item(S)
  PROVE  /\ AddItem(r, item) \in ReaderOf(S) /\ Stacked(AddItem(r, item))
         /\ AddItem(r, item).groups = r.groups
<1>1. LET d == Len(r.open)
          n == Len(r.open[d])
          u == AddItem(r, item)
      IN  /\ u \in ReaderOf(S) /\ Stacked(u)
          /\ \A x \in {"class", "chars", "groups", "named", "union", "error"} : u[x] = r[x]
          /\ Len(u.open) = d
          /\ \A k \in 1..d : k # d => u.open[k] = r.open[k]
          /\ Len(u.open[d]) = n
          /\ \A a \in 1..n : a # n => u.open[d][a] = r.open[d][a]
          /\ u.open[d][n] = Append(r.open[d][n], item)
  BY AddItemIs, ZenonT(60)
<1>2. \A x \in {"class", "chars", "groups", "named", "union", "error"} : AddItem(r, item)[x] = r[x]
  BY <1>1, ZenonT(60)
<1> QED BY <1>1, <1>2, ZenonT(60)

\* A group that begins lies above the others, with one empty alternative.
LEMMA OpenGroupIs ==
  ASSUME NEW S, NEW r \in ReaderOf(S), Stacked(r), NEW t, ~(t = "(?P<n>" /\ r.named)
  PROVE  LET d == Len(r.open)
             u == OpenGroup(r, t)
         IN  /\ u \in ReaderOf(S) /\ Stacked(u)
             /\ \A x \in {"class", "chars", "union", "error"} : u[x] = r[x]
             /\ u.groups = r.groups + 1
             /\ u.named = (r.named \/ t = "(?P<n>")
             /\ Len(u.open) = d + 1
             /\ \A k \in 1..d : u.open[k] = r.open[k]
             /\ u.open[d + 1] = << <<>> >>
<1> DEFINE d == Len(r.open)
           u == OpenGroup(r, t)
           new == << <<>> >>
           open == Append(r.open, new)
           groups == r.groups + 1
           named == r.named \/ t = "(?P<n>"
<1>1. r.open \in Seq(AltsOf(S)) /\ d \in Nat \ {0}
  BY ReaderFields
<1>2. new \in AltsOf(S) /\ Len(new) = 1 /\ new = << <<>> >>
  <2>1. <<>> \in Seq(Item(S))
    OBVIOUS
  <2> QED BY <2>1 DEF AltsOf
<1>3. u = [r EXCEPT !.open = open, !.groups = groups, !.named = named]
  BY DEF OpenGroup
<1> HIDE DEF new
<1>4. /\ open \in Seq(AltsOf(S)) /\ Len(open) = d + 1 /\ open[d + 1] = new
      /\ \A k \in 1..d : open[k] = r.open[k]
  BY <1>1, <1>2
<1>7. named \in BOOLEAN /\ named = (r.named \/ t = "(?P<n>") /\ groups \in Nat /\ groups = r.groups + 1
  BY ReaderFields
<1> HIDE DEF open, u, named, groups
<1>5. /\ u \in ReaderOf(S) /\ u.open = open /\ u.groups = groups /\ u.named = named
      /\ \A x \in {"class", "chars", "union", "error"} : u[x] = r[x]
  <2>1. /\ u \in ReaderOf(S) /\ u.open = open /\ u.groups = groups /\ u.named = named
        /\ u.class = r.class /\ u.chars = r.chars /\ u.union = r.union /\ u.error = r.error
    BY <1>3, <1>4, <1>7 DEF ReaderOf
  <2> QED BY <2>1
<1> HIDE DEF d
<1>6. Stacked(u)
  <2>1. DOMAIN u.open = 1..(d + 1) /\ Len(u.open) = d + 1 /\ \A k \in 1..d : u.open[k] = r.open[k]
    BY <1>1, <1>4, <1>5
  <2>2. \A k \in 1..d : Len(r.open[k]) > 0
    <3> SUFFICES ASSUME NEW k \in 1..Len(r.open) PROVE Len(r.open[k]) > 0
      BY DEF d
    <3> QED BY ReaderAlts
  <2>3. \A k \in 1..(d + 1) : k \in 1..d \/ k = d + 1
    BY <1>1
  <2>4. Len(u.open[d + 1]) > 0
    <3>1. u.open[d + 1] = new
      BY <1>4, <1>5
    <3>2. Len(new) = 1
      BY <1>2
    <3> QED BY <3>1, <3>2
  <2> QED BY <1>1, <2>1, <2>2, <2>3, <2>4 DEF Stacked
<1>8. /\ u \in ReaderOf(S) /\ Stacked(u)
      /\ \A x \in {"class", "chars", "union", "error"} : u[x] = r[x]
      /\ u.groups = r.groups + 1
      /\ u.named = (r.named \/ t = "(?P<n>")
      /\ Len(u.open) = d + 1
      /\ \A k \in 1..d : u.open[k] = r.open[k]
      /\ u.open[d + 1] = << <<>> >>
  BY <1>2, <1>4, <1>5, <1>6, <1>7
<1> QED BY <1>8 DEF d, u

\* A bar begins an alternative of the innermost group.
BarRead(r) == [r EXCEPT !.open[Len(r.open)] = Append(@, <<>>)]

\* A bar begins an alternative of the innermost group.
LEMMA BarReadIs ==
  ASSUME NEW S, NEW r \in ReaderOf(S), Stacked(r)
  PROVE  LET d == Len(r.open)
             n == Len(r.open[d])
             u == BarRead(r)
         IN  /\ u \in ReaderOf(S) /\ Stacked(u)
             /\ \A x \in {"class", "chars", "groups", "named", "union", "error"} : u[x] = r[x]
             /\ Len(u.open) = d
             /\ \A k \in 1..d : k # d => u.open[k] = r.open[k]
             /\ Len(u.open[d]) = n + 1
             /\ \A a \in 1..n : u.open[d][a] = r.open[d][a]
             /\ u.open[d][n + 1] = <<>>
<1> DEFINE d == Len(r.open)
           n == Len(r.open[d])
           u == BarRead(r)
           alts == Append(r.open[d], <<>>)
           open == [r.open EXCEPT ![d] = alts]
<1>1. /\ r.open \in Seq(AltsOf(S)) /\ d \in Nat \ {0}
      /\ r.open[d] \in AltsOf(S) /\ n \in Nat \ {0} /\ d \in 1..d
  <2>1. r.open \in Seq(AltsOf(S)) /\ d \in Nat \ {0} /\ d \in 1..d
    BY ReaderFields
  <2> QED BY <2>1, ReaderFields
<1>2. <<>> \in Seq(Item(S))
  OBVIOUS
<1>3. u = [r EXCEPT !.open = open]
  BY DEF BarRead
<1>4. /\ alts \in AltsOf(S) /\ Len(alts) = n + 1 /\ alts[n + 1] = <<>>
      /\ \A a \in 1..n : alts[a] = r.open[d][a]
  BY <1>1, <1>2 DEF AltsOf
<1> HIDE DEF alts
<1>5. /\ open \in Seq(AltsOf(S)) /\ Len(open) = d /\ open[d] = alts
      /\ \A k \in 1..d : k # d => open[k] = r.open[k]
  BY <1>1, <1>4
<1> HIDE DEF open, u
<1>6. /\ u \in ReaderOf(S) /\ u.open = open
      /\ \A x \in {"class", "chars", "groups", "named", "union", "error"} : u[x] = r[x]
  BY <1>3, <1>5 DEF ReaderOf
<1>7. Stacked(u)
  <2> SUFFICES ASSUME NEW k \in DOMAIN u.open PROVE Len(u.open[k]) > 0
    BY <1>1, <1>5, <1>6 DEF Stacked
  <2>1. CASE k = d
    BY <1>1, <1>4, <1>5, <1>6, <2>1
  <2>2. CASE k # d
    <3>1. k \in DOMAIN r.open /\ u.open[k] = r.open[k]
      BY <1>1, <1>5, <1>6, <2>2
    <3> QED BY <3>1 DEF Stacked
  <2> QED BY <2>1, <2>2
<1> HIDE DEF d, n
<1>8. /\ u \in ReaderOf(S) /\ Stacked(u)
      /\ \A x \in {"class", "chars", "groups", "named", "union", "error"} : u[x] = r[x]
      /\ Len(u.open) = d
      /\ \A k \in 1..d : k # d => u.open[k] = r.open[k]
      /\ Len(u.open[d]) = n + 1
      /\ \A a \in 1..n : u.open[d][a] = r.open[d][a]
      /\ u.open[d][n + 1] = <<>>
  BY <1>4, <1>5, <1>6, <1>7
<1> QED BY <1>8 DEF d, n, u

\* A group that ends is an item of the one under it, and its alternatives are
\* judged.
LEMMA CloseGroupIs ==
  ASSUME NEW S, NEW r \in ReaderOf(S), Stacked(r), Len(r.open) # 1
  PROVE  LET d == Len(r.open) - 1
             n == Len(r.open[d])
             u == CloseGroup(r)
         IN  /\ u \in ReaderOf(S) /\ Stacked(u)
             /\ \A x \in {"class", "chars", "groups", "named", "error"} : u[x] = r[x]
             /\ u.union = Walk(r, r.open[d + 1])
             /\ Len(u.open) = d
             /\ \A k \in 1..d : k # d => u.open[k] = r.open[k]
             /\ Len(u.open[d]) = n
             /\ \A a \in 1..n : a # n => u.open[d][a] = r.open[d][a]
             /\ u.open[d][n] = Append(r.open[d][n], Group(r.groups))
<1> DEFINE d == Len(r.open) - 1
           open == Front(r.open)
           v == [r EXCEPT !.open = open, !.union = Walk(r, r.open[d + 1])]
           u == AddItem(v, Group(r.groups))
<1>1. r.open \in Seq(AltsOf(S)) /\ d \in Nat \ {0} /\ Len(r.open) = d + 1
  BY ReaderFields
<1>2. CloseGroup(r) = u
  BY <1>1 DEF CloseGroup, Last
<1>3. open \in Seq(AltsOf(S)) /\ Len(open) = d /\ \A k \in 1..d : open[k] = r.open[k]
  BY <1>1 DEF Front
<1>4. Walk(r, r.open[d + 1]) \in BOOLEAN
  BY DEF Walk
<1> HIDE DEF open
<1>5. /\ v \in ReaderOf(S) /\ v.open = open /\ v.union = Walk(r, r.open[d + 1])
      /\ \A x \in {"class", "chars", "groups", "named", "error"} : v[x] = r[x]
  BY <1>3, <1>4 DEF ReaderOf
<1> HIDE DEF v
<1>8. d \in 1..d /\ Len(v.open) = d /\ v.open[d] = r.open[d] /\ \A k \in 1..d : v.open[k] = r.open[k]
  <2> HIDE DEF d
  <2> QED BY <1>1, <1>3, <1>5
<1>6. Stacked(v)
  <2>1. \A k \in 1..d : Len(r.open[k]) > 0
    <3>1. \A k \in 1..d : k \in 1..Len(r.open)
      BY <1>1
    <3> HIDE DEF d
    <3> QED BY <3>1, ReaderAlts
  <2>2. DOMAIN v.open = 1..d
    BY <1>3, <1>5
  <2> HIDE DEF d
  <2> QED BY <1>1, <1>8, <2>1, <2>2 DEF Stacked
<1>7. Group(r.groups) \in Item(S)
  BY DEF Group, Item, ReaderOf
<1> DEFINE n == Len(r.open[d])
<1>9. /\ u \in ReaderOf(S) /\ Stacked(u)
      /\ \A x \in {"class", "chars", "groups", "named", "union", "error"} : u[x] = v[x]
      /\ Len(u.open) = d
      /\ \A k \in 1..d : k # d => u.open[k] = v.open[k]
      /\ Len(u.open[d]) = n
      /\ \A a \in 1..n : a # n => u.open[d][a] = v.open[d][a]
      /\ u.open[d][n] = Append(v.open[d][n], Group(r.groups))
  <2> HIDE DEF u
  <2>1. u = AddItem(v, Group(r.groups))
    BY DEF u
  <2>2. Len(v.open[Len(v.open)]) = n /\ Len(v.open) = d
    BY <1>8
  <2> HIDE DEF d, n
  <2>3. LET D == Len(v.open)
            N == Len(v.open[D])
        IN  /\ u \in ReaderOf(S) /\ Stacked(u)
            /\ \A x \in {"class", "chars", "groups", "named", "union", "error"} : u[x] = v[x]
            /\ Len(u.open) = D
            /\ \A k \in 1..D : k # D => u.open[k] = v.open[k]
            /\ Len(u.open[D]) = N
            /\ \A a \in 1..N : a # N => u.open[D][a] = v.open[D][a]
            /\ u.open[D][N] = Append(v.open[D][N], Group(r.groups))
    <3> DEFINE item == Group(r.groups)
    <3>1. v \in ReaderOf(S) /\ Stacked(v) /\ item \in Item(S)
      BY <1>5, <1>6, <1>7
    <3> HIDE DEF item
    <3>2. LET D == Len(v.open)
              N == Len(v.open[D])
              w == AddItem(v, item)
          IN  /\ w \in ReaderOf(S) /\ Stacked(w)
              /\ \A x \in {"class", "chars", "groups", "named", "union", "error"} : w[x] = v[x]
              /\ Len(w.open) = D
              /\ \A k \in 1..D : k # D => w.open[k] = v.open[k]
              /\ Len(w.open[D]) = N
              /\ \A a \in 1..N : a # N => w.open[D][a] = v.open[D][a]
              /\ w.open[D][N] = Append(v.open[D][N], item)
      BY <3>1, AddItemIs, ZenonT(60)
    <3>3. u = AddItem(v, item)
      BY <2>1 DEF item
    <3> QED BY <3>2, <3>3 DEF item
  <2> QED BY <2>2, <2>3
<1> HIDE DEF u, d, n
<1>10. /\ u \in ReaderOf(S) /\ Stacked(u)
       /\ \A x \in {"class", "chars", "groups", "named", "error"} : u[x] = r[x]
       /\ u.union = Walk(r, r.open[d + 1])
       /\ Len(u.open) = d
       /\ \A k \in 1..d : k # d => u.open[k] = r.open[k]
       /\ Len(u.open[d]) = n
       /\ \A a \in 1..n : a # n => u.open[d][a] = r.open[d][a]
       /\ u.open[d][n] = Append(r.open[d][n], Group(r.groups))
  BY <1>5, <1>8, <1>9
<1> QED BY <1>2, <1>10 DEF d, n

\* A reader stays one, and counts a group at most for each token.
LEMMA ReadTokenType ==
  ASSUME NEW S, NEW r \in ReaderOf(S), Stacked(r), NEW t \in S
  PROVE  /\ ReadToken(r, t) \in ReaderOf(S) /\ Stacked(ReadToken(r, t))
         /\ ReadToken(r, t).groups \in {r.groups, r.groups + 1}
<1> DEFINE u == ReadToken(r, t)
           Good(v) == v \in ReaderOf(S) /\ Stacked(v) /\ v.groups \in {r.groups, r.groups + 1}
<1>1. ASSUME NEW e \in {"redefinition", "unbalanced parenthesis"} PROVE Good([r EXCEPT !.error = e])
  <2> DEFINE v == [r EXCEPT !.error = e]
  <2>1. v \in ReaderOf(S) /\ v.open = r.open /\ v.groups = r.groups
    BY <1>1 DEF ReaderOf
  <2> QED BY <2>1 DEF Stacked
<1>2. CASE r.error # "none"
  <2>1. u = r
    BY <1>2 DEF ReadToken
  <2> QED BY <2>1
<1>3. CASE r.error = "none" /\ r.class # "none"
  <2>1. u = InClass(r, t)
    BY <1>3 DEF ReadToken
  <2>2. CASE t = "]" /\ r.class = "inside"
    <3> DEFINE item == ClassOf(r.chars)
               v == AddItem(r, item)
               w == [v EXCEPT !.class = "none", !.chars = {}]
    <3>1. item \in Item(S)
      BY DEF ClassOf, Item, ReaderOf
    <3> HIDE DEF item
    <3>2. v \in ReaderOf(S) /\ Stacked(v) /\ v.groups = r.groups
      BY <3>1, AddItemIs
    <3>3. u = w
      BY <2>1, <2>2 DEF InClass, item
    <3> HIDE DEF v
    <3>4. w \in ReaderOf(S) /\ w.open = v.open /\ w.groups = v.groups
      BY <3>2 DEF ReaderOf
    <3> QED BY <3>2, <3>3, <3>4 DEF Stacked
  <2>3. CASE ~(t = "]" /\ r.class = "inside")
    <3> DEFINE chars == r.chars \cup {t}
               w == [r EXCEPT !.class = "inside", !.chars = chars]
    <3>1. chars \in SUBSET S
      BY DEF ReaderOf
    <3>2. u = w
      BY <2>1, <2>3 DEF InClass
    <3> HIDE DEF chars
    <3>3. w \in ReaderOf(S) /\ w.open = r.open /\ w.groups = r.groups
      BY <3>1 DEF ReaderOf
    <3> QED BY <3>2, <3>3 DEF Stacked
  <2> QED BY <2>2, <2>3
<1>4. CASE r.error = "none" /\ r.class = "none"
  <2> HIDE DEF Good
  <2>1. CASE t \in Opening
    <3>1. u = OpenGroup(r, t)
      BY <1>4, <2>1 DEF ReadToken
    <3>2. CASE t = "(?P<n>" /\ r.named
      BY <1>1, <3>1, <3>2 DEF OpenGroup, Good
    <3>3. CASE ~(t = "(?P<n>" /\ r.named)
      BY <3>1, <3>3, OpenGroupIs DEF Good
    <3> QED BY <3>2, <3>3
  <2>2. CASE t \notin Opening /\ t = ")"
    <3>1. u = CloseGroup(r)
      BY <1>4, <2>2 DEF ReadToken
    <3>2. CASE Len(r.open) = 1
      BY <1>1, <3>1, <3>2 DEF CloseGroup, Good
    <3>3. CASE Len(r.open) # 1
      BY <3>1, <3>3, CloseGroupIs, ZenonT(60) DEF Good
    <3> QED BY <3>2, <3>3
  <2>3. CASE t \notin Opening /\ t = "|"
    <3>1. u = BarRead(r)
      BY <1>4, <2>3 DEF ReadToken, BarRead
    <3> QED BY <3>1, BarReadIs DEF Good
  <2>4. CASE t \notin Opening /\ t = "["
    <3> DEFINE w == [r EXCEPT !.class = "start"]
    <3>1. u = w
      BY <1>4, <2>4 DEF ReadToken
    <3>2. w \in ReaderOf(S) /\ w.open = r.open /\ w.groups = r.groups
      BY DEF ReaderOf
    <3> QED BY <3>1, <3>2 DEF Stacked, Good
  <2>5. CASE t \notin Opening /\ t \notin {")", "|", "["}
    <3>1. u = AddItem(r, Literal(t))
      BY <1>4, <2>5 DEF ReadToken
    <3>2. Literal(t) \in Item(S)
      BY DEF Literal, Item
    <3> QED BY <3>1, <3>2, AddItemGood DEF Good
  <2>6. Good(u)
    BY <2>1, <2>2, <2>3, <2>4, <2>5 DEF Good
  <2> QED BY <2>6 DEF Good
<1> QED BY <1>2, <1>3, <1>4

\* The reader of a target is one, with no more groups than tokens.
LEMMA ReadingType ==
  ASSUME NEW S, NEW s \in Seq(S)
  PROVE  Reading(s) \in ReaderOf(S) /\ Stacked(Reading(s)) /\ Reading(s).groups \in 0..Len(s)
<1> DEFINE X == {q \in Seq(S) : /\ Reading(q) \in ReaderOf(S) /\ Stacked(Reading(q))
                                /\ Reading(q).groups \in 0..Len(q)}
<1>1. <<>> \in X
  <2>1. Beginning.groups = 0 /\ <<>> \in Seq(S) /\ Len(<<>>) = 0
    BY DEF Beginning
  <2> QED BY <2>1, ReadingNothing, BeginningType
<1>2. ASSUME NEW q \in Seq(S), NEW t \in S, q \in X PROVE Append(q, t) \in X
  <2> DEFINE r == Reading(q)
             u == ReadToken(r, t)
  <2>1. r \in ReaderOf(S) /\ Stacked(r) /\ r.groups \in 0..Len(q)
    BY <1>2
  <2> HIDE DEF r
  <2>2. u \in ReaderOf(S) /\ Stacked(u) /\ u.groups \in {r.groups, r.groups + 1}
    BY <2>1, ReadTokenType
  <2>3. Reading(Append(q, t)) = u
    BY ReadingMore DEF r
  <2>4. Append(q, t) \in Seq(S) /\ Len(Append(q, t)) = Len(q) + 1 /\ Len(q) \in Nat
    OBVIOUS
  <2> HIDE DEF u
  <2> QED BY <2>1, <2>2, <2>3, <2>4
<1>3. \A q \in Seq(S) : q \in X
  <2> HIDE DEF X
  <2> QED BY <1>1, <1>2, SeqSets
<1> QED BY <1>3

\* The end of the pattern changes neither the number of groups nor the names.
LEMMA AtEndIs ==
  ASSUME NEW S, NEW s \in Seq(S)
  PROVE  /\ Read(s).groups = Reading(s).groups /\ Read(s).named = Reading(s).named
         /\ Read(s).error = "none" => Reading(s).error = "none" /\ Len(Reading(s).open) = 1
                                        /\ Reading(s).class = "none"
         /\ Reading(s).error = "none" /\ Len(Reading(s).open) = 1 /\ Reading(s).class = "none"
               => /\ Read(s).error = "none"
                  /\ Read(s).union = Walk(Reading(s), Reading(s).open[1])
<1> DEFINE r == Reading(s)
<1>1. r \in ReaderOf(S) /\ Stacked(r)
  BY ReadingType
<1>2. Len(r.open) > 1 <=> Len(r.open) # 1
  <2> DEFINE n == Len(r.open)
  <2>1. n \in Nat /\ n # 0
    BY <1>1, ReaderFields
  <2> HIDE DEF n
  <2>2. n > 1 <=> n # 1
    BY <2>1
  <2> QED BY <2>2 DEF n
<1>3. Read(s) = AtEnd(r)
  BY DEF Read
<1>4. Walk(r, r.open[1]) \in BOOLEAN
  BY DEF Walk
<1> DEFINE w == Walk(r, r.open[1])
<1> HIDE DEF r
<1>5. AtEnd(r) = IF r.error # "none" THEN r
                 ELSE IF r.class # "none" THEN [r EXCEPT !.error = "unterminated character set"]
                 ELSE IF Len(r.open) > 1 THEN [r EXCEPT !.error = "unterminated subpattern"]
                 ELSE [r EXCEPT !.union = w]
  BY DEF AtEnd
<1> HIDE DEF w
<1>6. /\ AtEnd(r).groups = r.groups /\ AtEnd(r).named = r.named
      /\ AtEnd(r).error = "none" => r.error = "none" /\ ~(Len(r.open) > 1) /\ r.class = "none"
      /\ r.error = "none" /\ ~(Len(r.open) > 1) /\ r.class = "none"
            => AtEnd(r).error = "none" /\ AtEnd(r).union = w
  BY <1>1, <1>5 DEF ReaderOf
<1>7. /\ AtEnd(r).groups = r.groups /\ AtEnd(r).named = r.named
      /\ AtEnd(r).error = "none" => r.error = "none" /\ Len(r.open) = 1 /\ r.class = "none"
      /\ r.error = "none" /\ Len(r.open) = 1 /\ r.class = "none"
            => AtEnd(r).error = "none" /\ AtEnd(r).union = w
  BY <1>2, <1>6
<1> QED BY <1>3, <1>7 DEF r, w

-----------------------------------------------------------------------------
(***************************************************************************)
(* Types.                                                                  *)
(***************************************************************************)
Verdicts == {"accepted", "re.error", "UNTERMINATED_CHARACTER_CLASS",
             "UNTERMINATED_GROUP", "UNKNOWN", "MISSING_GROUP", "OUT_OF_BOUND_GROUP",
             "NAMED_GROUP_FORBIDDEN", "UNION_FORBIDDEN"}

\* The verdict on a target is that it is accepted, or an error of the rules.
LEMMA ValidateType == ASSUME NEW s, NEW g PROVE Validate(s, g) \in Verdicts
<1>1. ASSUME NEW e PROVE Malformed(e) \in Verdicts
  BY DEF Malformed, Verdicts
<1>2. UnionKind(s) \in Verdicts
  BY DEF UnionKind, Verdicts
<1> DEFINE r == Read(s)
           bad == Malformed(r.error)
           kind == UnionKind(s)
<1>3. bad \in Verdicts /\ kind \in Verdicts
  BY <1>1, <1>2
<1>4. Validate(s, g) \in {bad, kind, "MISSING_GROUP", "OUT_OF_BOUND_GROUP", "NAMED_GROUP_FORBIDDEN"}
  <2> HIDE DEF bad, kind
  <2>1. Validate(s, g) = IF r.error # "none" THEN bad
                         ELSE IF r.groups = 0 THEN "MISSING_GROUP"
                         ELSE IF OutOfBound(g, r.groups) THEN "OUT_OF_BOUND_GROUP"
                         ELSE IF r.named THEN "NAMED_GROUP_FORBIDDEN"
                         ELSE kind
    BY DEF Validate, bad, kind
  <2> HIDE DEF r
  <2> QED BY <2>1
<1> HIDE DEF bad, kind
<1> QED BY <1>3, <1>4 DEF Verdicts

\* The inductive invariant of TypeOK: before parse() there are no answers and
\* no messages, and what is parsed has fields, whose target was accepted.
Typed ==
    /\ TypeOK
    /\ fields # <<>> => verdict # "none" /\ \E g \in Groups : Validate(target, g) = "accepted"
    /\ at = 0 => results = {} /\ failures = <<>> /\ ended = "no" /\ messages = <<>> /\ report = "no"
    /\ at # 0 => fields # <<>>

\* The types that the messages are made of.
LEMMA Lengths ==
  ASSUME TypeOK
  PROVE  /\ target \in Seq(Tokens) /\ Len(target) \in Nat /\ DOMAIN target = 1..Len(target)
         /\ fields \in Seq(Groups) /\ Len(fields) \in Nat /\ DOMAIN fields = 1..Len(fields)
         /\ results \subseteq DOMAIN fields
         /\ failures \in Seq((DOMAIN fields) \X Kinds) /\ messages \in Seq(Message)
BY DEF TypeOK

\* The messages that are about fields.
Advised == Advice \X SUBSET DOMAIN fields

\* A message has what it says and fields, or groups of the target.
LEMMA MessageIs ==
  /\ \A what \in Advice, S \in SUBSET DOMAIN fields : <<what, S>> \in Advised
  /\ \A S \in SUBSET DOMAIN target : <<"unconsumed", S>> \in Message
BY DEF Message, Advised

\* A diagnosis field by field gives messages.
LEMMA PerFieldType ==
  ASSUME TypeOK, NEW what \in Advice, NEW S
  PROVE  PerField(what, S) \in Seq(Advised)
<1> DEFINE n == Len(fields)
           f == [i \in DOMAIN fields |-> IF i \in S THEN << <<what, {i}>> >> ELSE <<>>]
<1>1. n \in Nat /\ DOMAIN fields = 1..n
  BY Lengths
<1>2. f \in [1..n -> Seq(Advised)]
  <2> SUFFICES ASSUME NEW i \in 1..n
               PROVE  (IF i \in S THEN << <<what, {i}>> >> ELSE <<>>) \in Seq(Advised)
    BY <1>1
  <2>1. <<what, {i}>> \in Advised
    BY <1>1, MessageIs
  <2> DEFINE m == <<what, {i}>>
  <2> HIDE DEF m
  <2>2. m \in Advised
    BY <2>1 DEF m
  <2>3. <<m>> \in Seq(Advised) /\ <<>> \in Seq(Advised)
    BY <2>2
  <2> QED BY <2>3 DEF m
<1> HIDE DEF f, n
<1>3. FlattenSeq(f) \in Seq(Advised)
  BY <1>1, <1>2, FlattenType
<1> QED BY <1>3 DEF PerField, f

\* re counts a group at most for each token of the target.
LEMMA GroupsCounted ==
  ASSUME TypeOK
  PROVE  Read(target).groups \in 0..Len(target)
<1>1. target \in Seq(Tokens)
  BY Lengths
<1> QED BY <1>1, ReadingType, AtEndIs

\* The groups that no field consumes are a message.
LEMMA GroupIsNotConsumedType ==
  ASSUME TypeOK
  PROVE  GroupIsNotConsumed \in Seq(Message)
<1> DEFINE diff == Declared(Read(target).groups) \ ToSet(fields)
           m == <<"unconsumed", diff>>
<1>1. diff \in SUBSET DOMAIN target
  BY Lengths, GroupsCounted DEF Declared
<1>2. m \in Message
  <2> HIDE DEF diff
  <2> QED BY <1>1, MessageIs
<1> HIDE DEF m
<1>3. <<m>> \in Seq(Message) /\ <<>> \in Seq(Message)
  BY <1>2
<1> QED BY <1>3 DEF GroupIsNotConsumed, m

\* The other diagnoses give messages about fields.
LEMMA AdviceTypes ==
  ASSUME TypeOK, NEW found \in SUBSET DOMAIN fields
  PROVE  /\ UnionIsBadPractice \in Seq(Advised)
         /\ DidNotMatchOrFailed \in Seq(Advised)
         /\ MultipleMatched(found) \in Seq(Advised)
         /\ TooFewMatches \in Seq(Advised)
         /\ MultiGroupMatched(found) \in Seq(Advised)
         /\ MultiGroupNotMatched(found) \in Seq(Advised)
<1>1. /\ {"union", "many matched", "too few matched", "matched", "not matched"} \subseteq Advice
      /\ Kinds \subseteq Advice
  BY DEF Advice
<1>0. <<>> \in Seq(Advised)
  OBVIOUS
<1>2. UnionIsBadPractice \in Seq(Advised)
  BY <1>1, PerFieldType DEF UnionIsBadPractice
<1>3. DidNotMatchOrFailed \in Seq(Advised)
  <2> DEFINE f == [k \in DOMAIN failures |-> <<failures[k][2], {failures[k][1]}>>]
  <2>1. failures \in Seq((DOMAIN fields) \X Kinds)
    BY Lengths
  <2>2. f \in Seq(Advised)
    <3> DEFINE n == Len(failures)
    <3>1. n \in Nat /\ DOMAIN failures = 1..n
      BY <2>1
    <3>2. ASSUME NEW k \in 1..n PROVE f[k] \in Advised
      <4>1. failures[k][1] \in DOMAIN fields /\ failures[k][2] \in Kinds
        BY <2>1, <3>1
      <4>2. f[k] = <<failures[k][2], {failures[k][1]}>>
        BY <3>1
      <4> QED BY <1>1, <4>1, <4>2, MessageIs
    <3>3. f = [k \in 1..n |-> f[k]]
      BY <3>1
    <3> HIDE DEF f, n
    <3>4. \A k \in 1..n : f[k] \in Advised
      BY <3>2
    <3> QED BY <3>1, <3>3, <3>4, IsASeq
  <2> HIDE DEF f
  <2> QED BY <1>0, <2>2 DEF DidNotMatchOrFailed, f
<1>4. MultipleMatched(found) \in Seq(Advised)
  <2> DEFINE m == <<"many matched", found>>
  <2>1. m \in Advised
    BY <1>1, MessageIs
  <2> HIDE DEF m
  <2>2. <<m>> \in Seq(Advised)
    BY <2>1
  <2> QED BY <1>0, <2>2 DEF MultipleMatched, m
<1>5. TooFewMatches \in Seq(Advised)
  <2> DEFINE S == {failures[k][1] : k \in DOMAIN failures}
             m == <<"too few matched", S>>
  <2>1. S \in SUBSET DOMAIN fields
    BY Lengths
  <2>2. m \in Advised
    <3> HIDE DEF S
    <3> QED BY <1>1, <2>1, MessageIs
  <2> HIDE DEF m
  <2>3. <<m>> \in Seq(Advised)
    BY <2>2
  <2> QED BY <1>0, <2>3 DEF TooFewMatches, m
<1>6. MultiGroupMatched(found) \in Seq(Advised)
  BY <1>0, <1>1, PerFieldType DEF MultiGroupMatched
<1>7. MultiGroupNotMatched(found) \in Seq(Advised)
  BY <1>0, <1>1, PerFieldType DEF MultiGroupNotMatched
<1> QED BY <1>2, <1>3, <1>4, <1>5, <1>6, <1>7

\* The groups that messages report as not consumed.
Unconsumed(ms) == UNION {m[2] : m \in {x \in ToSet(ms) : x[1] = "unconsumed"}}

\* What several diagnoses report as not consumed is what each reports.
LEMMA UnconsumedOf ==
  /\ \A a, b \in Seq(Message) : Unconsumed(a \o b) = Unconsumed(a) \cup Unconsumed(b)
  /\ \A a \in Seq(Advised) : a \in Seq(Message) /\ Unconsumed(a) = {}
<1>1. ASSUME NEW a \in Seq(Message), NEW b \in Seq(Message)
      PROVE  Unconsumed(a \o b) = Unconsumed(a) \cup Unconsumed(b)
  <2> DEFINE c == a \o b
  <2>1. ToSet(c) = ToSet(a) \cup ToSet(b)
    <3>1. /\ Len(a) \in Nat /\ Len(b) \in Nat /\ DOMAIN c = 1..(Len(a) + Len(b))
          /\ DOMAIN a = 1..Len(a) /\ DOMAIN b = 1..Len(b)
          /\ \A i \in 1..(Len(a) + Len(b)) : c[i] = IF i <= Len(a) THEN a[i] ELSE b[i - Len(a)]
      BY ConcatProperties
    <3> HIDE DEF c
    <3>2. \A i \in 1..Len(a) : i \in DOMAIN c /\ c[i] = a[i]
      BY <3>1
    <3>3. \A i \in 1..Len(b) : i + Len(a) \in DOMAIN c /\ c[i + Len(a)] = b[i]
      BY <3>1
    <3>4. \A i \in DOMAIN c : c[i] \in ToSet(a) \cup ToSet(b)
      <4> SUFFICES ASSUME NEW i \in DOMAIN c PROVE c[i] \in ToSet(a) \cup ToSet(b)
        OBVIOUS
      <4>1. CASE i <= Len(a)
        <5>1. i \in DOMAIN a /\ c[i] = a[i]
          BY <3>1, <4>1
        <5> QED BY <5>1 DEF ToSet
      <4>2. CASE ~(i <= Len(a))
        <5>1. i - Len(a) \in DOMAIN b /\ c[i] = b[i - Len(a)]
          BY <3>1, <4>2
        <5> QED BY <5>1 DEF ToSet
      <4> QED BY <4>1, <4>2
    <3>5. ToSet(c) \subseteq ToSet(a) \cup ToSet(b)
      BY <3>4 DEF ToSet
    <3>6. ToSet(a) \subseteq ToSet(c) /\ ToSet(b) \subseteq ToSet(c)
      <4>1. ASSUME NEW x \in ToSet(a) PROVE x \in ToSet(c)
        <5>1. PICK i \in 1..Len(a) : x = a[i]
          BY <3>1 DEF ToSet
        <5> QED BY <3>2, <5>1 DEF ToSet
      <4>2. ASSUME NEW x \in ToSet(b) PROVE x \in ToSet(c)
        <5>1. PICK i \in 1..Len(b) : x = b[i]
          BY <3>1 DEF ToSet
        <5>2. i + Len(a) \in DOMAIN c /\ c[i + Len(a)] = x
          BY <3>3, <5>1
        <5> QED BY <5>2 DEF ToSet
      <4> QED BY <4>1, <4>2
    <3> QED BY <3>5, <3>6
  <2> HIDE DEF c
  <2>2. {x \in ToSet(c) : x[1] = "unconsumed"}
            = {x \in ToSet(a) : x[1] = "unconsumed"} \cup {x \in ToSet(b) : x[1] = "unconsumed"}
    BY <2>1
  <2>3. Unconsumed(c) = Unconsumed(a) \cup Unconsumed(b)
    BY <2>2 DEF Unconsumed
  <2> QED BY <2>3 DEF c
<1>2. ASSUME NEW a \in Seq(Advised) PROVE a \in Seq(Message) /\ Unconsumed(a) = {}
  <2>1. Advised \subseteq Message /\ \A x \in Advised : x[1] # "unconsumed"
    BY DEF Advised, Message, Advice, Kinds
  <2>2. ToSet(a) \subseteq Advised
    BY DEF ToSet
  <2>3. a \in Seq(Message)
    <3>1. Len(a) \in Nat /\ a = [i \in 1..Len(a) |-> a[i]] /\ \A i \in 1..Len(a) : a[i] \in Message
      BY <2>1
    <3> QED BY <3>1, IsASeq
  <2>4. {x \in ToSet(a) : x[1] = "unconsumed"} = {}
    BY <2>1, <2>2
  <2> QED BY <2>3, <2>4 DEF Unconsumed
<1> QED BY <1>1, <1>2

\* The diagnosis of groups reports those of the target that no field takes.
LEMMA GroupsAreUnconsumed ==
  ASSUME TypeOK
  PROVE  Unconsumed(GroupIsNotConsumed) = Declared(Read(target).groups) \ ToSet(fields)
<1> DEFINE diff == Declared(Read(target).groups) \ ToSet(fields)
           m == <<"unconsumed", diff>>
<1>1. ToSet(<<m>>) = {m} /\ ToSet(<<>>) = {}
  BY DEF ToSet
<1> HIDE DEF diff
<1>2. Unconsumed(<<m>>) = diff /\ Unconsumed(<<>>) = {}
  BY <1>1 DEF Unconsumed
<1>3. GroupIsNotConsumed = IF diff = {} THEN <<>> ELSE <<m>>
  BY DEF GroupIsNotConsumed, diff
<1> QED BY <1>2, <1>3 DEF diff

\* What a call of analyze adds to the diagnosis.
LEMMA AnalyzeIs ==
  ASSUME TypeOK, NEW fn \in ParseFns, Analyze(fn)
  PROVE  /\ messages' \in Seq(Message)
         /\ report' \in {"returned", "raised"}
         /\ report' = "returned" =>
               Unconsumed(messages') = Declared(Read(target).groups) \ ToSet(fields)
<1> DEFINE error == fn = "raise" /\ failures # <<>>
           found == IF error THEN {} ELSE results
           p1 == UnionIsBadPractice
           p2 == GroupIsNotConsumed
           p3 == IF error THEN DidNotMatchOrFailed ELSE <<>>
           p4 == MultipleMatched(found)
           p5 == IF error THEN TooFewMatches ELSE <<>>
           p6 == MultiGroupMatched(found)
           p7 == MultiGroupNotMatched(found)
           first == p1 \o p2
<1>1. found \in SUBSET DOMAIN fields
  BY Lengths
<1> HIDE DEF found
<1>2. /\ p1 \in Seq(Advised) /\ p3 \in Seq(Advised) /\ p4 \in Seq(Advised)
      /\ p5 \in Seq(Advised) /\ p6 \in Seq(Advised) /\ p7 \in Seq(Advised)
  <2>1. <<>> \in Seq(Advised)
    OBVIOUS
  <2> QED BY <1>1, <2>1, AdviceTypes
<1>3. p2 \in Seq(Message) /\ Unconsumed(p2) = Declared(Read(target).groups) \ ToSet(fields)
  BY GroupIsNotConsumedType, GroupsAreUnconsumed
<1>4. \/ /\ report' = "raised" /\ messages' = messages
      \/ /\ report' = "raised" /\ messages' = first
      \/ /\ report' = "returned" /\ messages' = first \o p3 \o p4 \o p5 \o p6 \o p7
  BY DEF Analyze, found
<1> HIDE DEF p1, p2, p3, p4, p5, p6, p7
<1>5. \A a \in Seq(Message), b \in Seq(Advised) :
         a \o b \in Seq(Message) /\ Unconsumed(a \o b) = Unconsumed(a)
  <2> SUFFICES ASSUME NEW a \in Seq(Message), NEW b \in Seq(Advised)
               PROVE  a \o b \in Seq(Message) /\ Unconsumed(a \o b) = Unconsumed(a)
    OBVIOUS
  <2>1. b \in Seq(Message) /\ Unconsumed(b) = {}
    BY UnconsumedOf
  <2>2. a \o b \in Seq(Message)
    BY <2>1, ConcatProperties
  <2>3. Unconsumed(a \o b) = Unconsumed(a) \cup Unconsumed(b)
    BY <2>1, UnconsumedOf
  <2> QED BY <2>1, <2>2, <2>3
<1>6. first \in Seq(Message) /\ Unconsumed(first) = Unconsumed(p2)
  <2>1. p1 \in Seq(Message) /\ Unconsumed(p1) = {}
    BY <1>2, UnconsumedOf
  <2>2. first \in Seq(Message)
    BY <1>3, <2>1, ConcatProperties
  <2>3. Unconsumed(first) = Unconsumed(p1) \cup Unconsumed(p2)
    BY <1>3, <2>1, UnconsumedOf
  <2> QED BY <2>1, <2>2, <2>3
<1> DEFINE q3 == first \o p3
           q4 == q3 \o p4
           q5 == q4 \o p5
           q6 == q5 \o p6
           q7 == q6 \o p7
<1> HIDE DEF first
<1>7. q3 \in Seq(Message) /\ Unconsumed(q3) = Unconsumed(p2)
  BY <1>2, <1>5, <1>6
<1> HIDE DEF q3
<1>8. q4 \in Seq(Message) /\ Unconsumed(q4) = Unconsumed(p2)
  BY <1>2, <1>5, <1>7
<1> HIDE DEF q4
<1>9. q5 \in Seq(Message) /\ Unconsumed(q5) = Unconsumed(p2)
  BY <1>2, <1>5, <1>8
<1> HIDE DEF q5
<1>10. q6 \in Seq(Message) /\ Unconsumed(q6) = Unconsumed(p2)
  BY <1>2, <1>5, <1>9
<1> HIDE DEF q6
<1>11. q7 \in Seq(Message) /\ Unconsumed(q7) = Unconsumed(p2)
  BY <1>2, <1>5, <1>10
<1>12. messages \in Seq(Message)
  BY Lengths
<1>13. report' = "returned" => messages' = q7
  BY <1>4 DEF q3, q4, q5, q6, q7
<1>14. messages' \in {messages, first, q7} /\ report' \in {"returned", "raised"}
  BY <1>4 DEF q3, q4, q5, q6, q7
<1> HIDE DEF q7
<1> QED BY <1>3, <1>6, <1>11, <1>12, <1>13, <1>14

\* The invariant of GroupsReported, beside Typed.
Reported ==
    report = "returned" => Unconsumed(messages) = Declared(Read(target).groups) \ ToSet(fields)

\* At first nothing is written, declared, parsed or reported.
LEMMA InitTyped == Init => Typed /\ Reported
<1> SUFFICES ASSUME Init PROVE Typed /\ Reported
  OBVIOUS
<1>1. /\ target = <<>> /\ verdict = "none" /\ fields = <<>>
      /\ at = 0 /\ results = {} /\ failures = <<>> /\ ended = "no"
      /\ messages = <<>> /\ report = "no"
  BY DEF Init
<1>2. <<>> \in Seq(Tokens) /\ <<>> \in Seq(Groups) /\ Len(<<>>) = 0
      /\ <<>> \in Seq(Message) /\ <<>> \in Seq((DOMAIN fields) \X Kinds)
  OBVIOUS
<1> QED BY <1>1, <1>2 DEF Typed, Reported, TypeOK

\* Each step keeps the types, and analyze() reports the groups not consumed.
LEMMA NextTyped ==
  ASSUME Typed, Reported, [Next]_vars
  PROVE  Typed' /\ Reported'
<1>0. TypeOK /\ Typed /\ Reported
  BY DEF Typed
<1>1. ASSUME NEW t \in Tokens, Write(t) PROVE Typed' /\ Reported'
  <2>1. /\ verdict = "none" /\ target' = Append(target, t)
        /\ UNCHANGED <<verdict, fields, at, results, failures, ended, messages, report>>
    BY <1>1 DEF Write, parsing, diagnosis
  <2>2. target' \in Seq(Tokens)
    BY <1>0, <2>1, Lengths
  <2>3. fields = <<>> /\ at = 0 /\ messages = <<>> /\ report = "no"
    BY <2>1 DEF Typed
  <2>4. <<>> \in Seq(Message)'
    OBVIOUS
  <2>5. TypeOK'
    BY <1>0, <2>1, <2>2, <2>3, <2>4 DEF TypeOK
  <2> QED BY <1>0, <2>1, <2>3, <2>5 DEF Typed, Reported
<1>2. ASSUME NEW g \in Groups, Declare(g) PROVE Typed' /\ Reported'
  <2>1. /\ at = 0 /\ target # <<>> /\ verdict' = Validate(target, g)
        /\ fields' = (IF verdict' = "accepted" THEN Append(fields, g) ELSE fields)
        /\ UNCHANGED <<target, at, results, failures, ended, messages, report>>
    BY <1>2 DEF Declare, parsing, diagnosis
  <2>2. /\ results = {} /\ failures = <<>> /\ ended = "no" /\ messages = <<>> /\ report = "no"
    BY <2>1 DEF Typed
  <2>3. fields' \in Seq(Groups)
    BY <1>0, <2>1, Lengths
  <2>4. verdict' \in Verdicts
    BY <2>1, ValidateType
  <2>5. <<>> \in Seq(Message)' /\ <<>> \in Seq((DOMAIN fields') \X Kinds) /\ 0 \in 0..Len(fields') + 1
    BY <2>3
  <2>6. TypeOK'
    BY <1>0, <2>1, <2>2, <2>3, <2>4, <2>5 DEF TypeOK, Verdicts
  <2>7. fields' # <<>> => verdict' # "none" /\ \E h \in Groups : Validate(target', h) = "accepted"
    <3>1. verdict' # "none"
      BY <2>4 DEF Verdicts
    <3>2. CASE verdict' = "accepted"
      BY <2>1, <3>1, <3>2
    <3>3. CASE verdict' # "accepted"
      <4>1. fields' = fields /\ target' = target
        BY <2>1, <3>3
      <4>2. fields # <<>> => \E h \in Groups : Validate(target, h) = "accepted"
        BY DEF Typed
      <4> QED BY <3>1, <4>1, <4>2
    <3> QED BY <3>2, <3>3
  <2> QED BY <2>1, <2>2, <2>6, <2>7 DEF Typed, Reported
\* Nothing that was written or declared changes, and no message comes.
<1>3. ASSUME UNCHANGED <<target, verdict, fields, messages, report>>,
             at' \in 1..Len(fields) + 1, fields # <<>>, results' \subseteq DOMAIN fields,
             failures' \in Seq((DOMAIN fields) \X Kinds),
             ended' \in {"no", "returned", "raised"}
      PROVE  Typed' /\ Reported'
  <2>1. Message' = Message
    BY <1>3 DEF Message
  <2>2. at' \in 0..Len(fields) + 1 /\ at' # 0
    BY <1>0, <1>3, Lengths
  <2>3. TypeOK'
    BY <1>0, <1>3, <2>1, <2>2 DEF TypeOK
  <2>4. Reported'
    BY <1>0, <1>3 DEF Reported
  <2> QED BY <1>3, <2>2, <2>3, <2>4 DEF Typed
<1>4. CASE Parse
  <2>1. /\ fields # <<>> /\ at' = 1
        /\ UNCHANGED <<target, verdict, fields, messages, report, results, failures, ended>>
    BY <1>4 DEF Parse, diagnosis
  <2>2. 1 \in 1..Len(fields) + 1
    BY <1>0, <2>1, Lengths
  <2> QED BY <1>0, <1>3, <2>1, <2>2 DEF TypeOK
<1>5. CASE ParseField
  <2>1. at \in DOMAIN fields /\ UNCHANGED <<target, verdict, fields, messages, report>>
    BY <1>5 DEF ParseField, diagnosis
  <2>2. fields # <<>> /\ at \in 1..Len(fields) + 1 /\ at + 1 \in 1..Len(fields) + 1
    BY <1>0, <2>1, Lengths
  <2>3. at' \in {at, at + 1} /\ ended' \in {"no", "raised"}
    BY <1>5 DEF ParseField
  <2>4. results' \in {results, results \cup {at}}
    BY <1>5 DEF ParseField, NoMatch
  <2>5. \A kind \in Kinds : Append(failures, <<at, kind>>) \in Seq((DOMAIN fields) \X Kinds)
    <3> SUFFICES ASSUME NEW kind \in Kinds
                 PROVE  Append(failures, <<at, kind>>) \in Seq((DOMAIN fields) \X Kinds)
      OBVIOUS
    <3>1. <<at, kind>> \in (DOMAIN fields) \X Kinds /\ failures \in Seq((DOMAIN fields) \X Kinds)
      BY <1>0, <2>1, Lengths
    <3> QED BY <3>1
  <2>6. \/ failures' = failures
        \/ \E kind \in {"NO_MATCH", "INCOMPATIBLE_JSON_TYPE"} : failures' = Append(failures, <<at, kind>>)
    BY <1>5 DEF ParseField, NoMatch, CastFailure
  <2>7. failures' \in Seq((DOMAIN fields) \X Kinds)
    BY <1>0, <2>5, <2>6, Lengths DEF Kinds
  <2>8. results' \subseteq DOMAIN fields
    BY <1>0, <2>1, <2>4, Lengths
  <2>9. at' \in 1..Len(fields) + 1
    BY <2>2, <2>3
  <2> QED BY <1>3, <2>1, <2>2, <2>3, <2>7, <2>8, <2>9
<1>6. CASE Return
  <2>1. /\ at > 0 /\ ended' = "returned"
        /\ UNCHANGED <<target, verdict, fields, at, results, failures, messages, report>>
    BY <1>6 DEF Return, diagnosis
  <2>2. at \in 1..Len(fields) + 1 /\ fields # <<>>
    BY <1>0, <2>1, Lengths DEF TypeOK, Typed
  <2> QED BY <1>0, <1>3, <2>1, <2>2 DEF TypeOK
<1>7. ASSUME NEW fn \in ParseFns, Analyze(fn) PROVE Typed' /\ Reported'
  <2>1. ended # "no" /\ UNCHANGED <<target, verdict, fields, at, results, failures, ended>>
    BY <1>7 DEF Analyze, parsing
  <2>2. Message' = Message
    BY <2>1 DEF Message
  <2>3. /\ messages' \in Seq(Message)
        /\ report' \in {"returned", "raised"}
        /\ report' = "returned" =>
               Unconsumed(messages') = Declared(Read(target).groups) \ ToSet(fields)
    BY <1>0, <1>7, AnalyzeIs
  <2>4. TypeOK'
    BY <1>0, <2>1, <2>2, <2>3 DEF TypeOK
  <2>5. Reported'
    BY <2>1, <2>3 DEF Reported
  <2>6. at # 0
    BY <2>1 DEF Typed
  <2> QED BY <1>0, <2>1, <2>4, <2>5, <2>6 DEF Typed
<1>8. CASE UNCHANGED vars
  <2>1. UNCHANGED <<target, verdict, fields, at, results, failures, ended, messages, report>>
    BY <1>8 DEF vars, parsing, diagnosis
  <2>2. Message' = Message
    BY <2>1 DEF Message
  <2>3. TypeOK'
    BY <1>0, <2>1, <2>2 DEF TypeOK
  <2> QED BY <1>0, <2>1, <2>3 DEF Typed, Reported
<1> QED BY <1>1, <1>2, <1>4, <1>5, <1>6, <1>7, <1>8 DEF Next

\* The types of the variables, for all targets and groups; the messages that
\* are put together with FlattenSeq are messages about the fields of the
\* extractor or about groups within the target.
THEOREM Types == Spec => []TypeOK
<1>1. Typed => TypeOK
  BY DEF Typed
<1>2. Typed /\ Reported /\ [Next]_vars => Typed' /\ Reported'
  BY NextTyped
<1> QED BY <1>1, <1>2, InitTyped, PTL DEF Spec

-----------------------------------------------------------------------------
(***************************************************************************)
(* What the reader makes of a pattern without classes, by the counts of    *)
(* its tokens.                                                             *)
(***************************************************************************)
Count(s, T) == Cardinality({j \in 1..Len(s) : s[j] \in T})

\* A count is a number, of a finite set.
LEMMA CountType ==
  ASSUME NEW S, NEW s \in Seq(S), NEW T
  PROVE  Count(s, T) \in Nat /\ IsFiniteSet({j \in 1..Len(s) : s[j] \in T})
<1> DEFINE A == {j \in 1..Len(s) : s[j] \in T}
<1>1. IsFiniteSet(1..Len(s))
  BY FS_Interval
<1>2. A \subseteq 1..Len(s)
  OBVIOUS
<1> HIDE DEF A
<1>3. IsFiniteSet(A)
  BY <1>1, <1>2, FS_Subset
<1>4. Cardinality(A) \in Nat
  BY <1>3, FS_CardinalityType
<1> QED BY <1>3, <1>4 DEF Count, A

\* A token more counts one more, or not.
LEMMA CountMore ==
  ASSUME NEW S, NEW s \in Seq(S), NEW t \in S, NEW T
  PROVE  Count(Append(s, t), T) = Count(s, T) + IF t \in T THEN 1 ELSE 0
<1> DEFINE n == Len(s)
           r == Append(s, t)
           A == {j \in 1..n : s[j] \in T}
           B == {j \in 1..(n + 1) : r[j] \in T}
<1>1. n \in Nat /\ Len(r) = n + 1 /\ r[n + 1] = t /\ \A j \in 1..n : r[j] = s[j]
  OBVIOUS
<1>2. IsFiniteSet(A) /\ Cardinality(A) \in Nat
  BY CountType DEF Count
<1> HIDE DEF r, n
<1>3. B = A \cup (IF t \in T THEN {n + 1} ELSE {}) /\ n + 1 \notin A
  BY <1>1
<1>4. Cardinality(A) = Count(s, T) /\ Cardinality(B) = Count(r, T)
  BY <1>1 DEF Count, n
<1> HIDE DEF A, B
<1>5. CASE t \in T
  <2>1. B = A \cup {n + 1}
    BY <1>3, <1>5
  <2>2. Cardinality(B) = Cardinality(A) + 1
    BY <1>2, <1>3, <2>1, FS_AddElement
  <2> QED BY <1>4, <1>5, <2>2 DEF r
<1>6. CASE t \notin T
  <2>1. B = A
    BY <1>3, <1>6
  <2>2. Count(s, T) \in Nat
    BY CountType
  <2> QED BY <1>4, <1>6, <2>1, <2>2 DEF r
<1> QED BY <1>5, <1>6

\* A count is 0 when there is no such token.
LEMMA CountNone ==
  ASSUME NEW S, NEW s \in Seq(S), NEW T
  PROVE  Count(s, T) = 0 <=> \A j \in 1..Len(s) : s[j] \notin T
<1> DEFINE A == {j \in 1..Len(s) : s[j] \in T}
<1>1. IsFiniteSet(A)
  BY CountType
<1>2. A = {} <=> \A j \in 1..Len(s) : s[j] \notin T
  OBVIOUS
<1> HIDE DEF A
<1>3. Cardinality(A) = 0 <=> A = {}
  BY <1>1, FS_EmptySet
<1> QED BY <1>2, <1>3 DEF Count, A

\* Depth at a position depends on the tokens up to it; a token more changes it by one at most.
LEMMA DepthMore ==
  ASSUME NEW S, NEW s \in Seq(S), NEW t \in S
  PROVE  /\ \A i \in 0..Len(s) : Depth(Append(s, t), i) = Depth(s, i)
         /\ Depth(s, Len(s)) = Count(s, Opening) - Count(s, {")"})
         /\ Depth(s, Len(s)) \in Int
         /\ Depth(Append(s, t), Len(s) + 1) =
               Depth(s, Len(s)) + IF t \in Opening THEN 1 ELSE IF t = ")" THEN -1 ELSE 0
<1> DEFINE n == Len(s)
           r == Append(s, t)
<1>1. n \in Nat /\ Len(r) = n + 1 /\ r[n + 1] = t /\ \A j \in 1..n : r[j] = s[j]
  OBVIOUS
<1>2. \A q \in Seq(S) : Depth(q, Len(q)) = Count(q, Opening) - Count(q, {")"})
  <2> SUFFICES ASSUME NEW q \in Seq(S) PROVE Depth(q, Len(q)) = Count(q, Opening) - Count(q, {")"})
    OBVIOUS
  <2>1. {j \in 1..Len(q) : q[j] = ")"} = {j \in 1..Len(q) : q[j] \in {")"}}
    OBVIOUS
  <2> QED BY <2>1 DEF Depth, Count
<1>3. r \in Seq(S)
  OBVIOUS
<1>4. Depth(r, n + 1) = Count(r, Opening) - Count(r, {")"})
  BY <1>1, <1>2, <1>3
<1>5. /\ Count(r, Opening) = Count(s, Opening) + IF t \in Opening THEN 1 ELSE 0
      /\ Count(r, {")"}) = Count(s, {")"}) + IF t \in {")"} THEN 1 ELSE 0
  BY CountMore
<1>6. Count(s, Opening) \in Nat /\ Count(s, {")"}) \in Nat
  BY CountType
<1>7. t \in Opening => t # ")"
  BY DEF Opening
<1>8. Depth(s, n) = Count(s, Opening) - Count(s, {")"})
  BY <1>2
<1> HIDE DEF r, n
<1>9. ASSUME NEW i \in 0..n PROVE Depth(r, i) = Depth(s, i)
  <2>1. \A j \in 1..i : r[j] = s[j]
    BY <1>1
  <2>2. {j \in 1..i : r[j] \in Opening} = {j \in 1..i : s[j] \in Opening}
    BY <2>1
  <2>3. {j \in 1..i : r[j] = ")"} = {j \in 1..i : s[j] = ")"}
    BY <2>1
  <2> QED BY <2>2, <2>3 DEF Depth
<1>10. Depth(s, n) \in Int
  BY <1>6, <1>8
<1>11. Depth(r, n + 1) = Depth(s, n) + IF t \in Opening THEN 1 ELSE IF t = ")" THEN -1 ELSE 0
  BY <1>4, <1>5, <1>6, <1>7, <1>8
<1> QED BY <1>8, <1>9, <1>10, <1>11 DEF r, n

\* The errors of a pattern without classes, and its groups and names.
Sound(s) == (\A i \in 1..Len(s) : Depth(s, i) >= 0) /\ Count(s, {"(?P<n>"}) <= 1

Counted(s) ==
    LET r == Reading(s)
    IN  /\ r.class = "none"
        /\ r.error = "none" <=> Sound(s)
        /\ r.error = "none" => /\ Len(r.open) = Depth(s, Len(s)) + 1
                               /\ r.groups = Count(s, Opening)
                               /\ r.named <=> Count(s, {"(?P<n>"}) # 0

\* A token more keeps the reader in step with the parentheses.
LEMMA CountedMore ==
  ASSUME NEW S, "[" \notin S, NEW s \in Seq(S), NEW t \in S, Counted(s)
  PROVE  Counted(Append(s, t))
<1> DEFINE n == Len(s)
           q == Append(s, t)
           r == Reading(s)
           u == ReadToken(r, t)
           names == {"(?P<n>"}
           depth == Depth(s, n)
           more == Depth(q, n + 1)
<1>1. n \in Nat /\ q \in Seq(S) /\ Len(q) = n + 1
  OBVIOUS
<1>2. r \in ReaderOf(S) /\ Stacked(r)
  BY ReadingType
<1>3. Reading(q) = u
  BY ReadingMore
<1>4. Count(s, names) \in Nat /\ Count(s, Opening) \in Nat
  BY CountType
<1>5. /\ Count(q, names) = Count(s, names) + IF t = "(?P<n>" THEN 1 ELSE 0
      /\ Count(q, Opening) = Count(s, Opening) + IF t \in Opening THEN 1 ELSE 0
  <2>1. t \in names <=> t = "(?P<n>"
    OBVIOUS
  <2> HIDE DEF names
  <2> QED BY <2>1, CountMore
<1>6. /\ depth \in Int /\ \A i \in 1..n : Depth(q, i) = Depth(s, i)
      /\ more = depth + IF t \in Opening THEN 1 ELSE IF t = ")" THEN -1 ELSE 0
  BY DepthMore
<1>7. /\ r.class = "none"
      /\ r.error = "none" <=> Sound(s)
      /\ r.error = "none" => /\ Len(r.open) = depth + 1
                             /\ r.groups = Count(s, Opening)
                             /\ r.named <=> Count(s, names) # 0
  BY DEF Counted
<1>8. Len(r.open) \in Nat \ {0}
  BY <1>2, ReaderFields
<1> DEFINE height == Len(r.open)
<1>9. Sound(q) <=> Sound(s) /\ more >= 0 /\ Count(q, names) <= 1
  <2>1. \A i \in 1..(n + 1) : i \in 1..n \/ i = n + 1
    BY <1>1
  <2>2. Count(q, names) <= 1 => Count(s, names) <= 1
    BY <1>4, <1>5
  <2>3. n + 1 \in 1..(n + 1) /\ \A i \in 1..n : i \in 1..(n + 1)
    BY <1>1
  <2> HIDE DEF q, n
  <2> QED BY <1>1, <1>6, <2>1, <2>2, <2>3 DEF Sound, n
<1> SUFFICES /\ u.class = "none"
             /\ u.error = "none" <=> Sound(q)
             /\ u.error = "none" => /\ Len(u.open) = more + 1
                                    /\ u.groups = Count(q, Opening)
                                    /\ u.named <=> Count(q, names) # 0
  <2>1. Reading(q) = u /\ Len(q) = n + 1
    BY <1>1, <1>3
  <2> HIDE DEF u, q
  <2>2. Counted(q)
    BY <2>1 DEF Counted
  <2> QED BY <2>2 DEF q
<1> HIDE DEF q, r, depth, more, n, u, height, names
<1>10. CASE r.error # "none"
  <2>1. u = r
    BY <1>10 DEF ReadToken, u
  <2> QED BY <1>7, <1>9, <1>10, <2>1
<1> SUFFICES ASSUME r.error = "none" PROVE
             /\ u.class = "none"
             /\ u.error = "none" <=> more >= 0 /\ Count(q, names) <= 1
             /\ u.error = "none" => /\ Len(u.open) = more + 1
                                    /\ u.groups = Count(q, Opening)
                                    /\ u.named <=> Count(q, names) # 0
  BY <1>7, <1>9, <1>10
<1>11. /\ r.error = "none" /\ r.class = "none" /\ Len(r.open) = depth + 1
       /\ r.groups = Count(s, Opening) /\ (r.named <=> Count(s, names) # 0)
       /\ depth >= 0 /\ Count(s, names) <= 1
  <2>1. r.error = "none" /\ r.class = "none" /\ Len(r.open) = depth + 1
       /\ r.groups = Count(s, Opening) /\ (r.named <=> Count(s, names) # 0)
       /\ Sound(s)
    BY <1>7
  <2>2. depth >= 0
    BY <1>6, <1>8, <2>1
  <2> QED BY <2>1, <2>2 DEF Sound, names
<1>12. CASE t \in Opening
  <2>1. u = OpenGroup(r, t) /\ more = depth + 1 /\ Count(q, Opening) = Count(s, Opening) + 1
    BY <1>5, <1>6, <1>11, <1>12 DEF ReadToken, u
  <2>2. CASE t = "(?P<n>" /\ r.named
    <3>1. u = [r EXCEPT !.error = "redefinition"]
      BY <2>1, <2>2 DEF OpenGroup
    <3>2. u.class = r.class /\ u.error = "redefinition"
      BY <1>2, <3>1 DEF ReaderOf
    <3>3. ~(Count(q, names) <= 1)
      BY <1>4, <1>5, <1>11, <2>2
    <3> QED BY <1>11, <3>2, <3>3
  <2>3. CASE ~(t = "(?P<n>" /\ r.named)
    <3>1. /\ u.class = r.class /\ u.error = r.error /\ u.groups = r.groups + 1
          /\ u.named = (r.named \/ t = "(?P<n>") /\ Len(u.open) = Len(r.open) + 1
      <4>1. u.class = r.class /\ u.error = r.error
        BY <1>2, <1>12, <2>1, <2>3, OpenGroupIs
      <4>2. u.groups = r.groups + 1 /\ Len(u.open) = Len(r.open) + 1
        BY <1>2, <1>12, <2>1, <2>3, OpenGroupIs
      <4>3. u.named = (r.named \/ t = "(?P<n>")
        BY <1>2, <1>12, <2>1, <2>3, OpenGroupIs
      <4> QED BY <4>1, <4>2, <4>3
    <3>2. Count(q, names) <= 1 /\ (u.named <=> Count(q, names) # 0)
      <4>1. CASE t = "(?P<n>"
        <5>1. ~r.named /\ u.named = TRUE
          BY <2>3, <3>1, <4>1
        <5>2. Count(s, names) = 0 /\ Count(q, names) = Count(s, names) + 1
          BY <1>5, <1>11, <4>1, <5>1
        <5>3. Count(q, names) = 1
          BY <5>2
        <5> QED BY <5>1, <5>3
      <4>2. CASE t # "(?P<n>"
        <5>1. u.named = (r.named \/ FALSE)
          BY <3>1, <4>2
        <5>2. r.named \in BOOLEAN
          BY <1>2, ReaderFields
        <5>3. u.named = r.named
          BY <5>1, <5>2
        <5>4. Count(q, names) = Count(s, names)
          BY <1>4, <1>5, <4>2
        <5> QED BY <1>11, <5>3, <5>4
      <4> QED BY <4>1, <4>2
    <3> QED BY <1>4, <1>6, <1>11, <2>1, <3>1, <3>2
  <2> QED BY <2>2, <2>3
<1>13. CASE t = ")"
  <2>0. t \notin Opening /\ t # "(?P<n>"
    BY <1>13 DEF Opening
  <2>1. /\ u = CloseGroup(r) /\ more = depth - 1 /\ Count(q, Opening) = Count(s, Opening)
        /\ Count(q, names) = Count(s, names)
    BY <1>4, <1>5, <1>6, <1>11, <1>13, <2>0 DEF ReadToken, u
  <2>2. CASE Len(r.open) = 1
    <3>1. u = [r EXCEPT !.error = "unbalanced parenthesis"]
      BY <2>1, <2>2 DEF CloseGroup
    <3>2. u.class = r.class /\ u.error = "unbalanced parenthesis"
      BY <1>2, <3>1 DEF ReaderOf
    <3>3. ~(more >= 0)
      <4>1. depth + 1 = 1 /\ depth \in Int /\ more = depth - 1
        BY <1>6, <1>11, <2>1, <2>2
      <4> QED BY <4>1
    <3> QED BY <1>11, <3>2, <3>3
  <2>3. CASE Len(r.open) # 1
    <3>1. /\ u.class = r.class /\ u.error = r.error /\ u.groups = r.groups
          /\ u.named = r.named /\ Len(u.open) = Len(r.open) - 1
      BY <1>2, <2>1, <2>3, CloseGroupIs
    <3>2. more >= 0
      BY <1>6, <1>11, <2>1, <2>3
    <3> QED BY <1>6, <1>11, <2>1, <3>1, <3>2
  <2> QED BY <2>2, <2>3
<1>14. CASE t \notin Opening \cup {")"}
  <2>1. /\ more = depth /\ Count(q, Opening) = Count(s, Opening)
        /\ Count(q, names) = Count(s, names) /\ t # "[" /\ t # ")"
    BY <1>4, <1>5, <1>6, <1>14 DEF Opening
  <2>2. /\ u.class = r.class /\ u.error = r.error /\ u.groups = r.groups
        /\ u.named = r.named /\ Len(u.open) = Len(r.open)
    <3>1. CASE t = "|"
      <4>1. u = BarRead(r)
        BY <1>11, <1>14, <2>1, <3>1 DEF ReadToken, u, BarRead
      <4> QED BY <1>2, <4>1, BarReadIs
    <3>2. CASE t # "|"
      <4>1. u = AddItem(r, Literal(t))
        BY <1>11, <1>14, <2>1, <3>2 DEF ReadToken, u
      <4>2. Literal(t) \in Item(S)
        BY DEF Literal, Item
      <4> QED BY <1>2, <4>1, <4>2, AddItemIs, ZenonT(60)
    <3> QED BY <3>1, <3>2
  <2> QED BY <1>11, <2>1, <2>2
<1> QED BY <1>12, <1>13, <1>14

\* The reader counts the parentheses of every pattern without classes.
LEMMA CountedAll ==
  ASSUME NEW S, "[" \notin S, NEW s \in Seq(S)
  PROVE  Counted(s)
<1> DEFINE X == {q \in Seq(S) : Counted(q)}
<1>1. <<>> \in X
  <2>1. <<>> \in Seq(S) /\ Len(<<>>) = 0
    OBVIOUS
  <2>2. \A T : Count(<<>>, T) = 0
    <3> SUFFICES ASSUME NEW T PROVE Count(<<>>, T) = 0
      OBVIOUS
    <3>1. {j \in 1..0 : <<>>[j] \in T} = {}
      OBVIOUS
    <3> QED BY <2>1, <3>1, FS_EmptySet DEF Count
  <2>3. Depth(<<>>, 0) = 0
    <3>1. {j \in 1..0 : <<>>[j] \in Opening} = {} /\ {j \in 1..0 : <<>>[j] = ")"} = {}
      OBVIOUS
    <3> QED BY <3>1, FS_EmptySet DEF Depth
  <2>4. /\ Beginning.class = "none" /\ Beginning.error = "none" /\ Len(Beginning.open) = 1
        /\ Beginning.groups = 0 /\ Beginning.named = FALSE
    BY DEF Beginning
  <2>5. Sound(<<>>)
    BY <2>1, <2>2 DEF Sound
  <2>6. Counted(<<>>)
    <3>1. Count(<<>>, Opening) = 0 /\ Count(<<>>, {"(?P<n>"}) = 0
      BY <2>2
    <3>2. Reading(<<>>) = Beginning /\ Depth(<<>>, Len(<<>>)) = 0
      BY <2>3, ReadingNothing
    <3>3. /\ Reading(<<>>).class = "none" /\ Reading(<<>>).error = "none"
          /\ Len(Reading(<<>>).open) = Depth(<<>>, Len(<<>>)) + 1
          /\ Reading(<<>>).groups = Count(<<>>, Opening)
      <4> DEFINE depth == Depth(<<>>, Len(<<>>))
                 none == Count(<<>>, Opening)
      <4>1. depth = 0 /\ none = 0
        BY <3>1, <3>2
      <4> HIDE DEF depth, none
      <4>2. depth + 1 = 1
        BY <4>1
      <4>3. Len(Reading(<<>>).open) = depth + 1
        BY <2>4, <3>2, <4>2
      <4>4. /\ Reading(<<>>).class = "none" /\ Reading(<<>>).error = "none"
            /\ Reading(<<>>).groups = none
        BY <2>4, <3>2, <4>1
      <4> QED BY <4>3, <4>4 DEF depth, none
    <3>4. Reading(<<>>).named <=> Count(<<>>, {"(?P<n>"}) # 0
      <4>1. ~Reading(<<>>).named
        BY <2>4, <3>2
      <4> QED BY <3>1, <4>1
    <3> QED BY <2>5, <3>3, <3>4 DEF Counted
  <2> QED BY <2>1, <2>6
<1>2. \A q \in Seq(S), t \in S : q \in X => Append(q, t) \in X
  <2> SUFFICES ASSUME NEW q \in Seq(S), NEW t \in S, Counted(q) PROVE Append(q, t) \in X
    OBVIOUS
  <2>1. Append(q, t) \in Seq(S)
    OBVIOUS
  <2> QED BY <2>1, CountedMore
<1>3. \A q \in Seq(S) : q \in X
  <2> HIDE DEF X
  <2> QED BY <1>1, <1>2, SeqSets
<1> QED BY <1>3

PlainTokens == {"a", "b", ")", "|"} \cup Opening

\* A plain target has no backslashes and no classes.
LEMMA PlainTarget ==
  ASSUME NEW s \in Seq(Tokens), Plain(s)
  PROVE  s \in Seq(PlainTokens)
<1>1. Len(s) \in Nat /\ DOMAIN s = 1..Len(s) /\ s = [i \in 1..Len(s) |-> s[i]]
  OBVIOUS
<1>2. ASSUME NEW i \in 1..Len(s) PROVE s[i] \in PlainTokens
  <2>1. s[i] \in Tokens /\ s[i] \notin Escaped \cup {"[", "]"}
    BY <1>1 DEF Plain
  <2> QED BY <2>1, DialectAssumption DEF PlainTokens
<1> QED BY <1>1, <1>2, IsASeq

\* re takes a pattern without classes exactly when it is well formed.
LEMMA WellFormedIs ==
  ASSUME NEW S, "[" \notin S, NEW s \in Seq(S)
  PROVE  /\ Read(s).error = "none" <=> WellFormed(s)
         /\ WellFormed(s) => /\ Read(s).groups = Count(s, Opening)
                             /\ Read(s).named <=> Count(s, {"(?P<n>"}) # 0
                             /\ Reading(s).error = "none" /\ Len(Reading(s).open) = 1
<1> DEFINE r == Reading(s)
           q == Read(s)
           depth == Depth(s, Len(s))
           n == Count(s, {"(?P<n>"})
<1>1. /\ r.class = "none" /\ (r.error = "none" <=> Sound(s))
      /\ r.error = "none" => /\ Len(r.open) = depth + 1
                             /\ r.groups = Count(s, Opening)
                             /\ r.named <=> n # 0
  BY CountedAll DEF Counted
<1>2. /\ q.groups = r.groups /\ q.named = r.named
      /\ q.error = "none" => r.error = "none" /\ Len(r.open) = 1 /\ r.class = "none"
      /\ r.error = "none" /\ Len(r.open) = 1 /\ r.class = "none" => q.error = "none"
  BY AtEndIs
<1>3. depth \in Int
  <2>1. depth = Count(s, Opening) - Count(s, {")"})
    <3>1. {j \in 1..Len(s) : s[j] = ")"} = {j \in 1..Len(s) : s[j] \in {")"}}
      OBVIOUS
    <3> QED BY <3>1 DEF Depth, Count
  <2>2. Count(s, Opening) \in Nat /\ Count(s, {")"}) \in Nat
    BY CountType
  <2> HIDE DEF depth
  <2> QED BY <2>1, <2>2
<1>4. WellFormed(s) <=> Sound(s) /\ depth = 0
  <2>1. {j \in 1..Len(s) : s[j] = "(?P<n>"} = {j \in 1..Len(s) : s[j] \in {"(?P<n>"}}
    OBVIOUS
  <2>2. DOMAIN s = 1..Len(s)
    OBVIOUS
  <2> QED BY <2>1, <2>2 DEF WellFormed, Sound, Count
<1> HIDE DEF r, q, depth, n
<1>5. r.error = "none" => (Len(r.open) = 1 <=> depth = 0)
  <2>1. depth + 1 = 1 <=> depth = 0
    BY <1>3
  <2>2. r.error = "none" => Len(r.open) = depth + 1
    BY <1>1
  <2> QED BY <2>1, <2>2
<1>6. q.error = "none" <=> WellFormed(s)
  BY <1>1, <1>2, <1>4, <1>5
<1>7. WellFormed(s) => r.error = "none" /\ Len(r.open) = 1
  BY <1>1, <1>4, <1>5
<1>8. WellFormed(s) => q.groups = Count(s, Opening)
  BY <1>1, <1>2, <1>7
<1>9. WellFormed(s) => (q.named <=> n # 0)
  BY <1>1, <1>2, <1>7
<1> QED BY <1>6, <1>7, <1>8, <1>9 DEF r, q, n

\* What the validation of a plain target comes to.
LEMMA Judged ==
  ASSUME NEW s \in Seq(Tokens), Plain(s), NEW g
  PROVE  Validate(s, g) = "accepted" <=>
            /\ WellFormed(s) /\ Count(s, Opening) # 0 /\ Count(s, {"(?P<n>"}) = 0
            /\ ~(g > Count(s, Opening)) /\ UnionKind(s) = "accepted"
<1> DEFINE r == Read(s)
           bad == Malformed(r.error)
           kind == UnionKind(s)
           over == OutOfBound(g, r.groups)
<1>1. s \in Seq(PlainTokens) /\ "[" \notin PlainTokens
  BY PlainTarget DEF PlainTokens, Opening
<1>2. /\ r.error = "none" <=> WellFormed(s)
      /\ WellFormed(s) => r.groups = Count(s, Opening)
      /\ WellFormed(s) => (r.named <=> Count(s, {"(?P<n>"}) # 0)
  BY <1>1, WellFormedIs
<1>3. bad # "accepted"
  BY DEF Malformed
<1>4. Validate(s, g) = IF r.error # "none" THEN bad
                       ELSE IF r.groups = 0 THEN "MISSING_GROUP"
                       ELSE IF over THEN "OUT_OF_BOUND_GROUP"
                       ELSE IF r.named THEN "NAMED_GROUP_FORBIDDEN"
                       ELSE kind
  BY DEF Validate
<1>5. over = (g > r.groups)
  BY DEF OutOfBound
<1> HIDE DEF r, bad, kind, over
<1>6. Validate(s, g) = "accepted" <=>
         r.error = "none" /\ r.groups # 0 /\ ~over /\ ~r.named /\ kind = "accepted"
  BY <1>3, <1>4
<1> QED BY <1>2, <1>5, <1>6 DEF kind

\* The groups of a plain target that was accepted are its parentheses.
LEMMA AcceptedGroups ==
  ASSUME NEW s \in Seq(Tokens), Plain(s), NEW g, Validate(s, g) = "accepted"
  PROVE  /\ Read(s).groups = Cardinality({i \in DOMAIN s : s[i] = "("})
<1>1. WellFormed(s) /\ Count(s, {"(?P<n>"}) = 0
  BY Judged
<1>2. s \in Seq(PlainTokens) /\ "[" \notin PlainTokens
  BY PlainTarget DEF PlainTokens, Opening
<1>3. Read(s).groups = Count(s, Opening)
  BY <1>1, <1>2, WellFormedIs
<1>4. \A j \in 1..Len(s) : s[j] # "(?P<n>"
  BY <1>1, CountNone
<1>5. {j \in 1..Len(s) : s[j] \in Opening} = {i \in DOMAIN s : s[i] = "("}
  BY <1>4 DEF Opening
<1> QED BY <1>3, <1>5 DEF Count

\* For all targets and extractors: analyze reports as not consumed exactly the
\* parentheses of a plain target that no field takes.
THEOREM GroupsAreReported == Spec => []GroupsReported
<1>1. Typed /\ Reported => GroupsReported
  <2> SUFFICES ASSUME Typed, Reported, report = "returned", Plain(target)
               PROVE  UNION {m[2] : m \in {x \in ToSet(messages) : x[1] = "unconsumed"}}
                         = (1..Cardinality({i \in DOMAIN target : target[i] = "("})) \ ToSet(fields)
    BY DEF GroupsReported
  <2>1. fields # <<>> /\ TypeOK
    BY DEF Typed
  <2>2. PICK g \in Groups : Validate(target, g) = "accepted"
    BY <2>1 DEF Typed
  <2>3. Read(target).groups = Cardinality({i \in DOMAIN target : target[i] = "("})
    BY <2>1, <2>2, Lengths, AcceptedGroups
  <2> QED BY <2>3 DEF Reported, Unconsumed, Declared
<1>2. Typed /\ Reported /\ [Next]_vars => Typed' /\ Reported'
  BY NextTyped
<1> QED BY <1>1, <1>2, InitTyped, PTL DEF Spec

-----------------------------------------------------------------------------
(***************************************************************************)
(* When alternatives are read as a class.                                  *)
(***************************************************************************)
\* The alternatives agree on their first k items.
Agree(alts, k) ==
    \A i \in 1..Len(alts) : Len(alts[i]) >= k /\ \A j \in 1..k : alts[i][j] = alts[1][j]

\* What alternatives consist of.
LEMMA AltsFields ==
  ASSUME NEW S, NEW alts \in AltsOf(S)
  PROVE  /\ Len(alts) \in Nat /\ DOMAIN alts = 1..Len(alts)
         /\ \A i \in 1..Len(alts) : alts[i] \in Seq(Item(S)) /\ Len(alts[i]) \in Nat
                                    /\ \A j \in 1..Len(alts[i]) : alts[i][j] \in Item(S)
<1>1. alts \in Seq(Seq(Item(S)))
  BY DEF AltsOf
<1>2. Len(alts) \in Nat /\ DOMAIN alts = 1..Len(alts)
      /\ \A i \in 1..Len(alts) : alts[i] \in Seq(Item(S))
  BY <1>1
<1>3. ASSUME NEW i \in 1..Len(alts)
      PROVE  alts[i] \in Seq(Item(S)) /\ Len(alts[i]) \in Nat
             /\ \A j \in 1..Len(alts[i]) : alts[i][j] \in Item(S)
  BY <1>2
<1> QED BY <1>2, <1>3

\* Two sequences begin with the same k items when these are equal one by one.
LEMMA SameBeginning ==
  ASSUME NEW S, NEW a \in Seq(S), NEW b \in Seq(S), NEW k \in Nat, k <= Len(a), k <= Len(b)
  PROVE  SubSeq(a, 1, k) = SubSeq(b, 1, k) <=> \A j \in 1..k : a[j] = b[j]
<1> DEFINE x == SubSeq(a, 1, k)
           y == SubSeq(b, 1, k)
<1>1. /\ x = [j \in 1..k |-> a[j]] /\ y = [j \in 1..k |-> b[j]]
  OBVIOUS
<1> QED BY <1>1

\* Common is the one length up to which all alternatives agree, and not further.
LEMMA CommonIs ==
  ASSUME NEW S, NEW alts \in AltsOf(S), Len(alts) > 0
  PROVE  /\ Common(alts) \in Nat
         /\ \A n \in Nat : n = Common(alts) <=> Agree(alts, n) /\ ~Agree(alts, n + 1)
<1> DEFINE shared(k) == \A i \in DOMAIN alts :
                           Len(alts[i]) >= k /\ SubSeq(alts[i], 1, k) = SubSeq(alts[1], 1, k)
           l == Len(alts[1])
           K == {k \in 0..l : shared(k) /\ ~shared(k + 1)}
<1>1. 1 \in 1..Len(alts) /\ l \in Nat
  BY AltsFields
<1>2. \A k \in Nat : shared(k) <=> Agree(alts, k)
  <2> SUFFICES ASSUME NEW k \in Nat PROVE shared(k) <=> Agree(alts, k)
    OBVIOUS
  <2>1. ASSUME NEW i \in 1..Len(alts), Len(alts[i]) >= k, l >= k
        PROVE  SubSeq(alts[i], 1, k) = SubSeq(alts[1], 1, k) <=> \A j \in 1..k : alts[i][j] = alts[1][j]
    <3>1. alts[i] \in Seq(Item(S)) /\ alts[1] \in Seq(Item(S)) /\ Len(alts[i]) \in Nat
      BY <1>1, AltsFields
    <3>2. k <= Len(alts[i]) /\ k <= Len(alts[1])
      BY <1>1, <2>1, <3>1
    <3> QED BY <3>1, <3>2, SameBeginning
  <2>2. DOMAIN alts = 1..Len(alts)
    BY AltsFields
  <2>3. CASE ~(l >= k)
    BY <1>1, <2>2, <2>3 DEF Agree
  <2>4. CASE l >= k
    <3>1. \A i \in 1..Len(alts) :
             (Len(alts[i]) >= k /\ SubSeq(alts[i], 1, k) = SubSeq(alts[1], 1, k))
                <=> (Len(alts[i]) >= k /\ \A j \in 1..k : alts[i][j] = alts[1][j])
      BY <2>1, <2>4
    <3> QED BY <2>2, <3>1 DEF Agree
  <2> QED BY <2>3, <2>4
<1> HIDE DEF shared
<1>3. Agree(alts, 0)
  <2>1. \A i \in 1..Len(alts) : Len(alts[i]) >= 0
    BY AltsFields
  <2> QED BY <2>1 DEF Agree
<1>4. ~Agree(alts, l + 1)
  BY <1>1 DEF Agree
\* What they agree on they agree on before.
<1>5. \A k, j \in Nat : Agree(alts, k) /\ j <= k => Agree(alts, j)
  <2> SUFFICES ASSUME NEW k \in Nat, NEW j \in Nat, Agree(alts, k), j <= k PROVE Agree(alts, j)
    OBVIOUS
  <2>1. ASSUME NEW i \in 1..Len(alts)
        PROVE  Len(alts[i]) >= j /\ \A x \in 1..j : alts[i][x] = alts[1][x]
    <3>1. Len(alts[i]) >= k /\ Len(alts[i]) \in Nat /\ \A x \in 1..k : alts[i][x] = alts[1][x]
      BY AltsFields DEF Agree
    <3>2. \A x \in 1..j : x \in 1..k
      OBVIOUS
    <3> QED BY <3>1, <3>2
  <2> QED BY <2>1 DEF Agree
<1>6. \E k \in K : TRUE
  <2> DEFINE T == {k \in Nat : ~Agree(alts, k)}
  <2>1. l + 1 \in T
    BY <1>1, <1>4
  <2>2. PICK m \in T : \A n \in T : m <= n
    BY <2>1, Least
  <2>3. m \in Nat /\ m # 0 /\ m - 1 \in Nat /\ m <= l + 1
    BY <1>3, <2>1, <2>2
  <2>4. Agree(alts, m - 1) /\ ~Agree(alts, (m - 1) + 1) /\ m - 1 \in 0..l /\ (m - 1) + 1 \in Nat
    <3>1. m - 1 \notin T
      BY <2>2, <2>3
    <3>2. (m - 1) + 1 = m
      BY <2>3
    <3> QED BY <1>1, <2>2, <2>3, <3>1, <3>2
  <2>5. shared(m - 1) /\ ~shared((m - 1) + 1)
    BY <1>2, <2>3, <2>4
  <2> QED BY <2>4, <2>5
<1>7. Common(alts) = CHOOSE k \in 0..l : shared(k) /\ ~shared(k + 1)
  BY DEF Common, shared
<1> DEFINE c == Common(alts)
<1>8. c \in 0..l /\ shared(c) /\ ~shared(c + 1)
  BY <1>6, <1>7
<1> HIDE DEF c
<1>9. c \in Nat /\ Agree(alts, c) /\ ~Agree(alts, c + 1)
  BY <1>1, <1>2, <1>8
<1>10. ASSUME NEW n \in Nat, Agree(alts, n), ~Agree(alts, n + 1) PROVE n = c
  <2>1. ~(n < c)
    <3>1. n < c => n + 1 <= c
      BY <1>9
    <3> QED BY <1>5, <1>9, <1>10, <3>1
  <2>2. ~(c < n)
    <3>1. c < n => c + 1 <= n
      BY <1>9
    <3> QED BY <1>5, <1>9, <1>10, <3>1
  <2> QED BY <1>9, <2>1, <2>2
<1> QED BY <1>9, <1>10 DEF c

\* Alternatives are a class when they agree on all items but the last.
LEMMA IsClassIs ==
  ASSUME NEW S, NEW alts \in AltsOf(S), Len(alts) > 0
  PROVE  IsClass(alts) <=>
            \E n \in Nat : /\ Agree(alts, n) /\ ~Agree(alts, n + 1)
                           /\ \A i \in 1..Len(alts) : Len(alts[i]) = n + 1 /\ alts[i][n + 1].is # "group"
<1> DEFINE c == Common(alts)
<1>1. c \in Nat /\ \A n \in Nat : n = c <=> Agree(alts, n) /\ ~Agree(alts, n + 1)
  BY CommonIs
<1>2. DOMAIN alts = 1..Len(alts)
  BY AltsFields
<1>3. IsClass(alts) <=> \A i \in 1..Len(alts) : Len(alts[i]) = c + 1 /\ alts[i][c + 1].is # "group"
  BY <1>2 DEF IsClass, Last
<1> HIDE DEF c
<1> QED BY <1>1, <1>3

\* No two alternatives have a group in common.
Apart(alts) ==
    \A a, b \in 1..Len(alts) : \A i \in 1..Len(alts[a]), j \in 1..Len(alts[b]) :
        alts[a][i].is = "group" /\ alts[b][j] = alts[a][i] => a = b

HasGroup(alts) == \E a \in 1..Len(alts) : \E i \in 1..Len(alts[a]) : alts[a][i].is = "group"

\* Alternatives with a group in them are never a class: two of them are a branch.
LEMMA GroupsBranch ==
  ASSUME NEW S, NEW alts \in AltsOf(S), Apart(alts), HasGroup(alts)
  PROVE  Branches(alts) <=> Len(alts) > 1
<1> SUFFICES ASSUME Len(alts) > 1, IsClass(alts) PROVE FALSE
  BY DEF Branches
<1>1. Len(alts) > 0 /\ Len(alts) \in Nat
  BY AltsFields
<1>2. PICK n \in Nat : /\ Agree(alts, n)
                       /\ \A i \in 1..Len(alts) : Len(alts[i]) = n + 1 /\ alts[i][n + 1].is # "group"
  BY <1>1, IsClassIs
<1>3. PICK a \in 1..Len(alts) : \E i \in 1..Len(alts[a]) : alts[a][i].is = "group"
  BY DEF HasGroup
<1>4. PICK i \in 1..Len(alts[a]) : alts[a][i].is = "group"
  BY <1>3
<1>5. Len(alts[a]) = n + 1 /\ alts[a][n + 1].is # "group"
  BY <1>2
<1>6. i \in 1..n
  BY <1>4, <1>5
<1>7. PICK b \in 1..Len(alts) : b # a
  <2>1. 1 \in 1..Len(alts) /\ 2 \in 1..Len(alts)
    BY <1>1
  <2> QED BY <2>1
<1>8. 1 \in 1..Len(alts)
  BY <1>1
<1>9. alts[b][i] = alts[1][i] /\ alts[a][i] = alts[1][i]
  BY <1>2, <1>6 DEF Agree
<1>10. i \in 1..Len(alts[b])
  BY <1>2, <1>6
<1> QED BY <1>4, <1>7, <1>9, <1>10 DEF Apart

-----------------------------------------------------------------------------
(***************************************************************************)
(* A group that has no group in it: its alternatives for the reader, and   *)
(* those that lie between its edges.                                       *)
(***************************************************************************)
\* The alternatives alts are what s has behind position p, which is an edge as
\* the bars are; the edges are e[1], e[2] and so on, and the end of s the last.
Split(s, p, alts, e) ==
    LET m == Len(alts)
    IN  /\ e \in [1..(m + 1) -> Nat] /\ e[1] = p /\ e[m + 1] = Len(s) + 1
        /\ \A a \in 1..m :
              /\ e[a] < e[a + 1] /\ Len(alts[a]) = e[a + 1] - e[a] - 1
              /\ \A x \in 1..Len(alts[a]) : /\ alts[a][x] = Literal(s[e[a] + x])
                                            /\ s[e[a] + x] \in {"a", "b"}
        /\ \A a \in 2..m : s[e[a]] = "|"

\* What a split gives for each alternative.
LEMMA SplitFields ==
  ASSUME NEW S, NEW s, NEW p, NEW alts, NEW e, alts \in AltsOf(S) /\ Split(s, p, alts, e)
  PROVE  /\ Len(alts) \in Nat /\ e[1] = p /\ e[Len(alts) + 1] = Len(s) + 1
         /\ \A a \in 1..(Len(alts) + 1) : e[a] \in Nat
         /\ \A a \in 1..Len(alts) : e[a] < e[a + 1] /\ e[a + 1] \in Nat
                                    /\ Len(alts[a]) = e[a + 1] - e[a] - 1
                                    /\ \A x \in 1..Len(alts[a]) : /\ alts[a][x] = Literal(s[e[a] + x])
                                                                  /\ s[e[a] + x] \in {"a", "b"}
         /\ \A a \in 2..Len(alts) : s[e[a]] = "|"
<1>1. Len(alts) \in Nat
  BY AltsFields
<1>2. e \in [1..(Len(alts) + 1) -> Nat]
  BY DEF Split
<1>3. \A a \in 1..Len(alts) : a \in 1..(Len(alts) + 1) /\ a + 1 \in 1..(Len(alts) + 1)
  BY <1>1
<1>4. \A a \in 1..(Len(alts) + 1) : e[a] \in Nat
  BY <1>2
<1> QED BY <1>1, <1>3, <1>4 DEF Split

\* Each edge lies before the ones behind it.
LEMMA EdgesGrow ==
  ASSUME NEW m \in Nat, NEW e, \A a \in 1..(m + 1) : e[a] \in Nat,
         \A a \in 1..m : e[a] < e[a + 1]
  PROVE  \A a, b \in 1..(m + 1) : a < b <=> e[a] < e[b]
<1>1. ASSUME NEW a \in 1..(m + 1), NEW b \in 1..(m + 1), a < b PROVE e[a] < e[b]
  <2> DEFINE X == {k \in Nat : (a + k) + 1 <= m + 1 => e[a] < e[(a + k) + 1]}
  <2>1. 0 \in X
    BY <1>1
  <2>2. ASSUME NEW k \in Nat, k \in X PROVE k + 1 \in X
    <3> SUFFICES ASSUME (a + (k + 1)) + 1 <= m + 1 PROVE e[a] < e[(a + (k + 1)) + 1]
      OBVIOUS
    <3> DEFINE c == (a + k) + 1
    <3>1. c \in 1..m /\ c \in 1..(m + 1) /\ c + 1 \in 1..(m + 1) /\ (a + (k + 1)) + 1 = c + 1
      OBVIOUS
    <3>2. e[a] < e[c]
      BY <2>2, <3>1
    <3> HIDE DEF c
    <3>3. e[c] < e[c + 1] /\ e[a] \in Nat /\ e[c] \in Nat /\ e[c + 1] \in Nat
      BY <3>1
    <3>4. e[a] < e[c + 1]
      BY <3>2, <3>3
    <3> QED BY <3>1, <3>4
  <2>3. \A k \in Nat : k \in X
    <3> HIDE DEF X
    <3> QED BY <2>1, <2>2, NatSets
  <2>4. b - a - 1 \in Nat /\ (a + (b - a - 1)) + 1 = b
    BY <1>1
  <2>5. b - a - 1 \in X
    <3> HIDE DEF X
    <3> QED BY <2>3, <2>4
  <2> QED BY <2>4, <2>5
<1> SUFFICES ASSUME NEW a \in 1..(m + 1), NEW b \in 1..(m + 1), e[a] < e[b] PROVE a < b
  BY <1>1
<1>2. e[a] \in Nat /\ e[b] \in Nat
  OBVIOUS
<1>3. ~(b < a) /\ a # b
  BY <1>1, <1>2
<1> QED BY <1>3

\* What lies behind p is an edge or between one and the next.
LEMMA EdgesCover ==
  ASSUME NEW m \in Nat, m > 0, NEW e, \A a \in 1..(m + 1) : e[a] \in Nat,
         NEW j \in Nat, e[1] <= j, j <= e[m + 1]
  PROVE  (\E a \in 1..(m + 1) : j = e[a]) \/ (\E a \in 1..m : e[a] < j /\ j < e[a + 1])
<1> DEFINE T == {a \in Nat : a \in 1..(m + 1) /\ j <= e[a]}
<1>1. m + 1 \in T
  OBVIOUS
<1>2. PICK a \in T : \A b \in T : a <= b
  BY <1>1, Least
<1>3. a \in 1..(m + 1) /\ j <= e[a] /\ e[a] \in Nat
  BY <1>2
<1>4. CASE j = e[a]
  BY <1>3, <1>4
<1>5. CASE j # e[a]
  <2>1. a # 1
    BY <1>3, <1>5
  <2> DEFINE b == a - 1
  <2>2. b \in 1..m /\ b \in 1..(m + 1) /\ b + 1 = a /\ ~(a <= b)
    BY <1>3, <2>1
  <2> HIDE DEF b
  <2>3. b \notin T
    BY <1>2, <2>2
  <2>4. ~(j <= e[b]) /\ e[b] \in Nat
    BY <2>2, <2>3
  <2> QED BY <1>3, <1>5, <2>2, <2>4
<1> QED BY <1>4, <1>5

\* With the parenthesis that closes the group, these are the edges and the
\* alternatives that OfCharacters speaks of.
LEMMA SplitEdges ==
  ASSUME NEW S, NEW s \in Seq(S), NEW p \in Nat, NEW q,
         NEW alts \in AltsOf(S), NEW e, Split(s, p, alts, e), Len(alts) > 0,
         \A j \in 1..Len(s) : q[j] = s[j], q[Len(s) + 1] = ")", p > 0, s[p] \in Opening
  PROVE  LET m == Len(alts)
             c == Len(s) + 1
         IN  /\ Edges(q, p, c) = {e[a] : a \in 1..(m + 1)}
             /\ Alternatives(q, p, c) = {<<e[a], e[a + 1]>> : a \in 1..m}
             /\ \A j \in (p + 1)..(c - 1) : q[j] \in {"a", "b", "|"}
             /\ \A a \in 1..m : /\ e[a] \in p..Len(s) /\ e[a + 1] \in p..c
                                /\ \A x \in 1..Len(alts[a]) : q[e[a] + x] = s[e[a] + x]
             /\ m > 1 <=> \E j \in (p + 1)..(c - 1) : s[j] = "|"
<1> DEFINE m == Len(alts)
           n == Len(s)
           c == n + 1
           E == {e[a] : a \in 1..(m + 1)}
<1>1. /\ m \in Nat /\ e[1] = p /\ e[m + 1] = c
      /\ \A a \in 1..(m + 1) : e[a] \in Nat
      /\ \A a \in 1..m : e[a] < e[a + 1] /\ e[a + 1] \in Nat
                         /\ Len(alts[a]) = e[a + 1] - e[a] - 1
                         /\ \A x \in 1..Len(alts[a]) : s[e[a] + x] \in {"a", "b"}
      /\ \A a \in 2..m : s[e[a]] = "|"
  <2>1. /\ Len(alts) \in Nat /\ e[1] = p /\ e[Len(alts) + 1] = Len(s) + 1
        /\ \A a \in 1..(Len(alts) + 1) : e[a] \in Nat
        /\ \A a \in 1..Len(alts) : e[a] < e[a + 1] /\ e[a + 1] \in Nat
                                    /\ Len(alts[a]) = e[a + 1] - e[a] - 1
                                    /\ \A x \in 1..Len(alts[a]) : /\ alts[a][x] = Literal(s[e[a] + x])
                                                                  /\ s[e[a] + x] \in {"a", "b"}
        /\ \A a \in 2..Len(alts) : s[e[a]] = "|"
    BY SplitFields, SMTT(30)
  <2> HIDE DEF m, c
  <2>2. m = Len(alts) /\ c = Len(s) + 1
    BY DEF m, c
  <2> QED BY <2>1, <2>2
<1>2. m > 0 /\ n \in Nat /\ c \in Nat /\ c = n + 1
  OBVIOUS
<1>3. q[c] = ")" /\ \A j \in 1..n : q[j] = s[j]
  OBVIOUS
<1> HIDE DEF m, n, c
<1>4. \A a, b \in 1..(m + 1) : a < b <=> e[a] < e[b]
  BY <1>1, EdgesGrow
<1>5. 1 \in 1..(m + 1) /\ m + 1 \in 1..(m + 1) /\ \A a \in 1..m : a \in 1..(m + 1) /\ a + 1 \in 1..(m + 1)
  BY <1>1, <1>2
\* between p and the end
<1>6. ASSUME NEW a \in 1..(m + 1) PROVE e[a] \in p..c /\ (a # 1 => p < e[a]) /\ (a # m + 1 => e[a] < c)
  <2>1. a # 1 => 1 < a
    BY <1>1
  <2>2. a # m + 1 => a < m + 1
    BY <1>1
  <2>3. e[a] \in Nat
    BY <1>1
  <2>4. a # 1 => e[1] < e[a]
    BY <1>4, <1>5, <2>1
  <2>5. a # m + 1 => e[a] < e[m + 1]
    BY <1>4, <1>5, <2>2
  <2> QED BY <1>1, <1>2, <2>3, <2>4, <2>5
<1>7. p < c /\ p \in 1..n
  <2>1. 1 # m + 1
    BY <1>1, <1>2
  <2>2. e[1] < c
    BY <1>5, <1>6, <2>1
  <2>3. p < c /\ p \in Nat /\ p > 0
    BY <1>1, <2>2
  <2> QED BY <1>2, <2>3
\* an edge is a bar, a character is not
<1>8. ASSUME NEW a \in 1..m, NEW j \in Nat, e[a] < j, j < e[a + 1] PROVE s[j] \in {"a", "b"} /\ j \in 1..n
  <2>0. e[a] \in p..c /\ e[a + 1] \in p..c
    BY <1>5, <1>6
  <2>1. Len(alts[a]) = e[a + 1] - e[a] - 1 /\ e[a] \in Nat /\ e[a + 1] \in Nat
    BY <1>1, <1>5
  <2> DEFINE x == j - e[a]
             l == Len(alts[a])
  <2>2. x \in 1..l /\ e[a] + x = j
    <3> HIDE DEF l
    <3>1. l = e[a + 1] - e[a] - 1 /\ e[a] \in Nat /\ e[a + 1] \in Nat
      BY <2>1 DEF l
    <3> QED BY <1>8, <3>1, SMTT(30)
  <2> HIDE DEF x
  <2>3. s[j] \in {"a", "b"}
    BY <1>1, <2>2
  <2>4. j \in 1..n
    BY <1>2, <1>7, <1>8, <2>0, <2>1
  <2> QED BY <2>3, <2>4
<1>9. ASSUME NEW j \in p..c PROVE j \in E \/ (\E a \in 1..m : e[a] < j /\ j < e[a + 1])
  <2>1. j \in Nat /\ e[1] <= j /\ j <= e[m + 1]
    BY <1>1, <1>2
  <2>2. (\E a \in 1..(m + 1) : j = e[a]) \/ (\E a \in 1..m : e[a] < j /\ j < e[a + 1])
    BY <1>1, <1>2, <2>1, EdgesCover
  <2> QED BY <2>2
<1>10. Edges(q, p, c) = E
  <2>1. ASSUME NEW j \in p..c, q[j] = "|" PROVE j \in E
    <3>1. ASSUME NEW a \in 1..m, e[a] < j, j < e[a + 1] PROVE FALSE
      <4>1. s[j] \in {"a", "b"} /\ j \in 1..n
        BY <1>2, <1>8, <3>1
      <4> QED BY <1>3, <2>1, <4>1
    <3> QED BY <1>9, <3>1
  <2>2. p \in E /\ c \in E
    BY <1>1, <1>5
  <2>3. ASSUME NEW a \in 1..(m + 1) PROVE e[a] \in {p, c} \cup {j \in p..c : q[j] = "|"}
    <3>1. CASE a = 1 \/ a = m + 1
      BY <1>1, <3>1
    <3>2. CASE a # 1 /\ a # m + 1
      <4>1. a \in 2..m
        BY <1>1, <3>2
      <4>2. s[e[a]] = "|"
        BY <1>1, <4>1
      <4>3. e[a] \in p..c /\ e[a] \in 1..n
        BY <1>1, <1>2, <1>6, <1>7, <3>2
      <4> QED BY <1>3, <4>2, <4>3
    <3> QED BY <3>1, <3>2
  <2>4. E \subseteq {p, c} \cup {j \in p..c : q[j] = "|"}
    BY <2>3
  <2>5. Edges(q, p, c) = {p, c} \cup {j \in p..c : q[j] = "|"}
    BY DEF Edges
  <2> HIDE DEF E
  <2> QED BY <2>1, <2>2, <2>4, <2>5
<1>11. Alternatives(q, p, c) = {<<e[a], e[a + 1]>> : a \in 1..m}
  <2> DEFINE A == {<<e[a], e[a + 1]>> : a \in 1..m}
  <2>1. ASSUME NEW a \in 1..m PROVE <<e[a], e[a + 1]>> \in Alternatives(q, p, c)
    <3>1. e[a] \in E /\ e[a + 1] \in E /\ e[a] < e[a + 1]
      BY <1>1, <1>5
    <3>2. ASSUME NEW b \in 1..(m + 1), e[a] < e[b], e[b] < e[a + 1] PROVE FALSE
      <4>1. a < b /\ b < a + 1
        BY <1>4, <1>5, <3>2
      <4> QED BY <4>1
    <3>3. \A j \in E : ~(e[a] < j /\ j < e[a + 1])
      BY <3>2
    <3> HIDE DEF E
    <3> QED BY <1>10, <3>1, <3>3 DEF Alternatives
  <2>2. ASSUME NEW x \in E, NEW y \in E, x < y, \A j \in E : ~(x < j /\ j < y)
        PROVE  <<x, y>> \in A
    <3>1. PICK a \in 1..(m + 1) : x = e[a]
      OBVIOUS
    <3>2. PICK b \in 1..(m + 1) : y = e[b]
      OBVIOUS
    <3>3. a < b
      BY <1>4, <2>2, <3>1, <3>2
    <3>4. a \in 1..m /\ a + 1 \in 1..(m + 1) /\ a < a + 1
      BY <1>1, <3>3
    <3>5. e[a] < e[a + 1]
      BY <1>4, <3>4
    <3>6. ~(e[a + 1] < e[b])
      <4>1. e[a + 1] \in E
        BY <3>4
      <4> QED BY <2>2, <3>1, <3>2, <3>5, <4>1
    <3>7. ~(a + 1 < b)
      BY <1>4, <3>4, <3>6
    <3>8. b = a + 1
      BY <3>3, <3>7
    <3> QED BY <3>1, <3>2, <3>4, <3>8
  <2>3. Alternatives(q, p, c) = {z \in E \X E : z[1] < z[2] /\ \A j \in E : ~(z[1] < j /\ j < z[2])}
    BY <1>10 DEF Alternatives
  <2>4. ASSUME NEW z \in Alternatives(q, p, c) PROVE z \in A
    <3> HIDE DEF E, A
    <3>1. z \in E \X E /\ z[1] < z[2] /\ \A j \in E : ~(z[1] < j /\ j < z[2])
      BY <2>3
    <3>2. z[1] \in E /\ z[2] \in E /\ z = <<z[1], z[2]>>
      BY <3>1
    <3> QED BY <2>2, <3>1, <3>2
  <2>5. A \subseteq Alternatives(q, p, c)
    BY <2>1
  <2> HIDE DEF A
  <2> QED BY <2>4, <2>5 DEF A
<1>12. ASSUME NEW j \in (p + 1)..(c - 1) PROVE q[j] \in {"a", "b", "|"} /\ j \in 1..n
  <2>1. j \in p..c /\ j \in 1..n /\ j # p /\ j # c /\ j \in Nat
    BY <1>2, <1>7
  <2>2. CASE j \in E
    <3>1. PICK a \in 1..(m + 1) : j = e[a]
      BY <2>2
    <3>2. a \in 2..m
      <4>1. a # 1 /\ a # m + 1
        BY <1>1, <2>1, <3>1
      <4> QED BY <1>1, <4>1
    <3> QED BY <1>1, <1>3, <2>1, <3>1, <3>2
  <2>3. CASE \E a \in 1..m : e[a] < j /\ j < e[a + 1]
    BY <1>3, <1>8, <2>1, <2>3
  <2> QED BY <1>9, <2>1, <2>2, <2>3
<1>13. ASSUME NEW a \in 1..m
       PROVE  /\ e[a] \in p..n /\ e[a + 1] \in p..c
              /\ \A x \in 1..Len(alts[a]) : q[e[a] + x] = s[e[a] + x]
  <2>1. e[a] \in p..c /\ e[a + 1] \in p..c /\ e[a] < c
    <3>1. a # m + 1
      BY <1>1
    <3> QED BY <1>5, <1>6, <3>1
  <2>2. Len(alts[a]) = e[a + 1] - e[a] - 1
    BY <1>1
  <2>3. \A x \in 1..Len(alts[a]) : e[a] + x \in 1..n
    BY <1>2, <1>7, <2>1, <2>2, SMTT(30)
  <2> QED BY <1>2, <1>3, <1>7, <2>1, <2>3
<1>14. m > 1 <=> \E j \in (p + 1)..(c - 1) : s[j] = "|"
  <2>1. ASSUME m > 1 PROVE \E j \in (p + 1)..(c - 1) : s[j] = "|"
    <3>1. 2 \in 2..m /\ 2 \in 1..(m + 1) /\ 2 # 1 /\ 2 # m + 1
      BY <1>1, <2>1
    <3>2. s[e[2]] = "|" /\ e[2] \in p..c /\ p < e[2] /\ e[2] < c
      BY <1>1, <1>6, <3>1
    <3>3. e[2] \in (p + 1)..(c - 1)
      BY <1>2, <1>7, <3>2
    <3> QED BY <3>2, <3>3
  <2>2. ASSUME m = 1, NEW j \in (p + 1)..(c - 1) PROVE s[j] # "|"
    <3>1. j \in Nat /\ e[1] < j /\ j < e[1 + 1] /\ 1 \in 1..m
      BY <1>1, <1>2, <1>7, <2>2
    <3> QED BY <1>8, <3>1
  <2>3. m > 1 \/ m = 1
    BY <1>1, <1>2
  <2> QED BY <2>1, <2>2, <2>3
<1> QED BY <1>10, <1>11, <1>12, <1>13, <1>14 DEF m, n, c

\* The reader takes a group of characters and bars for a class exactly when
\* OfCharacters says so of its edges.
LEMMA SplitClass ==
  ASSUME NEW S, NEW s \in Seq(S), NEW p \in Nat, NEW q,
         NEW alts \in AltsOf(S), NEW e, Split(s, p, alts, e), Len(alts) > 0,
         \A j \in 1..Len(s) : q[j] = s[j], q[Len(s) + 1] = ")", p > 0, s[p] \in Opening
  PROVE  IsClass(alts) <=> OfCharacters(q, p, Len(s) + 1)
<1> DEFINE m == Len(alts)
           c == Len(s) + 1
           ch(a, k) == s[e[a] + k]
           SameLength(n) == \A a \in 1..m : Len(alts[a]) = n + 1
           SameStart(n) == \A a, b \in 1..m : \A k \in 1..n : ch(a, k) = ch(b, k)
           Differ(n) == \E a, b \in 1..m : ch(a, n + 1) # ch(b, n + 1)
           A == Alternatives(q, p, c)
<1>1. /\ m \in Nat
      /\ \A a \in 1..m : /\ e[a] \in Nat /\ e[a + 1] \in Nat /\ Len(alts[a]) = e[a + 1] - e[a] - 1
                         /\ \A x \in 1..Len(alts[a]) : alts[a][x] = Literal(ch(a, x))
  <2>1. /\ Len(alts) \in Nat
        /\ \A a \in 1..(Len(alts) + 1) : e[a] \in Nat
        /\ \A a \in 1..Len(alts) : e[a] < e[a + 1] /\ e[a + 1] \in Nat
                                    /\ Len(alts[a]) = e[a + 1] - e[a] - 1
                                    /\ \A x \in 1..Len(alts[a]) : /\ alts[a][x] = Literal(s[e[a] + x])
                                                                  /\ s[e[a] + x] \in {"a", "b"}
    BY SplitFields
  <2>2. \A a \in 1..Len(alts) : a \in 1..(Len(alts) + 1)
    BY <2>1
  <2> QED BY <2>1, <2>2
<1>2. /\ A = {<<e[a], e[a + 1]>> : a \in 1..m}
      /\ \A j \in (p + 1)..(c - 1) : q[j] \in {"a", "b", "|"}
      /\ \A a \in 1..m : /\ e[a] \in p..Len(s) /\ e[a + 1] \in p..c
                         /\ \A x \in 1..Len(alts[a]) : q[e[a] + x] = ch(a, x)
  <2>1. /\ Alternatives(q, p, Len(s) + 1) = {<<e[a], e[a + 1]>> : a \in 1..Len(alts)}
        /\ \A j \in (p + 1)..(Len(s) + 1 - 1) : q[j] \in {"a", "b", "|"}
        /\ \A a \in 1..Len(alts) : /\ e[a] \in p..Len(s) /\ e[a + 1] \in p..(Len(s) + 1)
                                    /\ \A x \in 1..Len(alts[a]) : q[e[a] + x] = s[e[a] + x]
    <3>1. /\ s \in Seq(S) /\ p \in Nat /\ p > 0 /\ s[p] \in Opening
          /\ alts \in AltsOf(S) /\ Len(alts) > 0 /\ Split(s, p, alts, e)
          /\ q[Len(s) + 1] = ")" /\ \A j \in 1..Len(s) : q[j] = s[j]
      OBVIOUS
    <3> DEFINE M == Len(alts)
               C == Len(s) + 1
    <3>2. /\ Edges(q, p, C) = {e[a] : a \in 1..(M + 1)}
          /\ Alternatives(q, p, C) = {<<e[a], e[a + 1]>> : a \in 1..M}
          /\ \A j \in (p + 1)..(C - 1) : q[j] \in {"a", "b", "|"}
          /\ \A a \in 1..M : /\ e[a] \in p..Len(s) /\ e[a + 1] \in p..C
                             /\ \A x \in 1..Len(alts[a]) : q[e[a] + x] = s[e[a] + x]
          /\ M > 1 <=> \E j \in (p + 1)..(C - 1) : s[j] = "|"
      BY SplitEdges, ZenonT(60)
    <3> QED BY <3>2
  <2> QED BY <2>1, SMTT(60)
<1>3. \A x, y : Literal(x) = Literal(y) <=> x = y
  <2> SUFFICES ASSUME NEW x, NEW y, Literal(x) = Literal(y) PROVE x = y
    OBVIOUS
  <2>1. Literal(x).of = {x} /\ Literal(y).of = {y}
    BY DEF Literal
  <2> QED BY <2>1
<1>4. \A x : Literal(x).is # "group"
  BY DEF Literal
<1>5. m > 0 /\ 1 \in 1..m /\ c \in Nat
  BY <1>1
<1> HIDE DEF ch, m, c
<1>6. ASSUME NEW n \in Nat, SameLength(n)
      PROVE  /\ Agree(alts, n) <=> SameStart(n)
             /\ SameStart(n) => (Agree(alts, n + 1) <=> ~Differ(n))
             /\ \A a \in 1..m : alts[a][n + 1].is # "group"
  <2>1. \A a \in 1..m : Len(alts[a]) = n + 1 /\ \A k \in 1..(n + 1) : alts[a][k] = Literal(ch(a, k))
    BY <1>1, <1>6
  <2>2. n + 1 \in 1..(n + 1) /\ \A k \in 1..n : k \in 1..(n + 1)
    OBVIOUS
  <2>3. Agree(alts, n) <=> \A a \in 1..m : \A k \in 1..n : ch(a, k) = ch(1, k)
    <3>1. \A a \in 1..m : Len(alts[a]) >= n
      BY <2>1
    <3>2. \A a \in 1..m : \A k \in 1..n : alts[a][k] = alts[1][k] <=> ch(a, k) = ch(1, k)
      BY <1>3, <1>5, <2>1, <2>2
    <3> QED BY <3>1, <3>2 DEF Agree, m
  <2>4. Agree(alts, n + 1) <=> \A a \in 1..m : \A k \in 1..(n + 1) : ch(a, k) = ch(1, k)
    <3>1. \A a \in 1..m : Len(alts[a]) >= n + 1
      BY <2>1
    <3>2. \A a \in 1..m : \A k \in 1..(n + 1) : alts[a][k] = alts[1][k] <=> ch(a, k) = ch(1, k)
      BY <1>3, <1>5, <2>1
    <3> QED BY <3>1, <3>2 DEF Agree, m
  <2>5. SameStart(n) <=> \A a \in 1..m : \A k \in 1..n : ch(a, k) = ch(1, k)
    BY <1>5
  <2>6. ASSUME SameStart(n)
        PROVE  (\A a \in 1..m : \A k \in 1..(n + 1) : ch(a, k) = ch(1, k)) <=> ~Differ(n)
    <3>1. \A k \in 1..(n + 1) : k \in 1..n \/ k = n + 1
      OBVIOUS
    <3>2. (\A a \in 1..m : \A k \in 1..(n + 1) : ch(a, k) = ch(1, k))
             <=> \A a \in 1..m : ch(a, n + 1) = ch(1, n + 1)
      BY <1>5, <2>2, <2>6, <3>1
    <3>3. ~Differ(n) <=> \A a \in 1..m : ch(a, n + 1) = ch(1, n + 1)
      BY <1>5
    <3> QED BY <3>2, <3>3
  <2>7. \A a \in 1..m : alts[a][n + 1].is # "group"
    BY <1>4, <2>1, <2>2
  <2> HIDE DEF SameStart, Differ
  <2> QED BY <2>3, <2>4, <2>5, <2>6, <2>7
<1>7. IsClass(alts) <=> \E n \in Nat : SameLength(n) /\ SameStart(n) /\ Differ(n)
  <2>1. IsClass(alts) <=>
            \E n \in Nat : /\ Agree(alts, n) /\ ~Agree(alts, n + 1)
                           /\ \A i \in 1..m : Len(alts[i]) = n + 1 /\ alts[i][n + 1].is # "group"
    BY IsClassIs DEF m
  <2>2. ASSUME NEW n \in Nat
        PROVE  (/\ Agree(alts, n) /\ ~Agree(alts, n + 1)
                /\ \A i \in 1..m : Len(alts[i]) = n + 1 /\ alts[i][n + 1].is # "group")
               <=> SameLength(n) /\ SameStart(n) /\ Differ(n)
    <3>1. CASE SameLength(n)
      <4>1. /\ Agree(alts, n) <=> SameStart(n)
            /\ SameStart(n) => (Agree(alts, n + 1) <=> ~Differ(n))
            /\ \A a \in 1..m : alts[a][n + 1].is # "group"
        BY <1>6, <3>1
      <4>2. \A i \in 1..m : Len(alts[i]) = n + 1
        BY <3>1
      <4> HIDE DEF SameStart, Differ
      <4> QED BY <3>1, <4>1, <4>2
    <3>2. CASE ~SameLength(n)
      BY <3>2
    <3> QED BY <3>1, <3>2
  <2> HIDE DEF SameLength, SameStart, Differ
  <2> QED BY <2>1, <2>2
<1> DEFINE Lengths2(n) == \A x \in A : x[2] - x[1] = n + 2
           Starts2(n) == \A x, y \in A, k \in 1..n : q[x[1] + k] = q[y[1] + k]
           Ends2 == \E x, y \in A : q[x[2] - 1] # q[y[2] - 1]
<1>12. /\ \A x \in A : \E a \in 1..m : x[1] = e[a] /\ x[2] = e[a + 1]
       /\ \A a \in 1..m : \E x \in A : x[1] = e[a] /\ x[2] = e[a + 1]
  <2>1. A = {<<e[a], e[a + 1]>> : a \in 1..m}
    BY <1>2
  <2> HIDE DEF A
  <2>2. ASSUME NEW x \in A PROVE \E a \in 1..m : x[1] = e[a] /\ x[2] = e[a + 1]
    BY <2>1
  <2>3. ASSUME NEW a \in 1..m PROVE \E x \in A : x[1] = e[a] /\ x[2] = e[a + 1]
    <3>1. <<e[a], e[a + 1]>> \in A
      BY <2>1
    <3> QED BY <3>1
  <2> QED BY <2>2, <2>3
<1> HIDE DEF A
<1> DEFINE l(a) == Len(alts[a])
<1>13. \A a \in 1..m : e[a] \in Nat /\ e[a + 1] \in Nat /\ l(a) = e[a + 1] - e[a] - 1
  BY <1>1
<1> HIDE DEF l
<1>8. ASSUME NEW n \in Nat PROVE Lengths2(n) <=> SameLength(n)
  <2>1. \A a \in 1..m : e[a + 1] - e[a] = n + 2 <=> Len(alts[a]) = n + 1
    <3>1. \A u, v \in Nat : v - u = n + 2 <=> v - u - 1 = n + 1
      OBVIOUS
    <3>2. \A a \in 1..m : e[a + 1] - e[a] = n + 2 <=> l(a) = n + 1
      BY <1>13, <3>1
    <3> QED BY <3>2 DEF l
  <2>2. Lengths2(n) <=> \A a \in 1..m : e[a + 1] - e[a] = n + 2
    <3>1. ASSUME Lengths2(n), NEW a \in 1..m PROVE e[a + 1] - e[a] = n + 2
      <4>1. PICK x \in A : x[1] = e[a] /\ x[2] = e[a + 1]
        BY <1>12
      <4>2. x[2] - x[1] = n + 2
        BY <3>1
      <4> QED BY <4>1, <4>2
    <3>2. ASSUME \A a \in 1..m : e[a + 1] - e[a] = n + 2, NEW x \in A PROVE x[2] - x[1] = n + 2
      <4>1. PICK a \in 1..m : x[1] = e[a] /\ x[2] = e[a + 1]
        BY <1>12
      <4> QED BY <3>2, <4>1
    <3> QED BY <3>1, <3>2
  <2> QED BY <2>1, <2>2
<1>9. ASSUME NEW n \in Nat, SameLength(n)
      PROVE  /\ Starts2(n) <=> SameStart(n)
             /\ Ends2 <=> Differ(n)
             /\ n \in 0..(c - p)
  <2>1. \A a \in 1..m : /\ \A k \in 1..(n + 1) : q[e[a] + k] = ch(a, k)
                        /\ e[a + 1] - 1 = e[a] + (n + 1) /\ e[a] \in Nat /\ e[a + 1] \in Nat
    <3> SUFFICES ASSUME NEW a \in 1..m
                 PROVE  /\ \A k \in 1..(n + 1) : q[e[a] + k] = ch(a, k)
                        /\ e[a + 1] - 1 = e[a] + (n + 1) /\ e[a] \in Nat /\ e[a + 1] \in Nat
      OBVIOUS
    <3>1. l(a) = n + 1
      BY <1>9 DEF l
    <3>2. \A k \in 1..l(a) : q[e[a] + k] = ch(a, k)
      BY <1>2 DEF l
    <3>3. e[a] \in Nat /\ e[a + 1] \in Nat /\ l(a) = e[a + 1] - e[a] - 1
      BY <1>13
    <3>4. e[a + 1] - 1 = e[a] + (n + 1)
      BY <3>1, <3>3
    <3> QED BY <3>1, <3>2, <3>3, <3>4
  <2>2. n + 1 \in 1..(n + 1) /\ \A k \in 1..n : k \in 1..(n + 1)
    OBVIOUS
  <2>3. Starts2(n) <=> \A a, b \in 1..m : \A k \in 1..n : q[e[a] + k] = q[e[b] + k]
    <3>1. ASSUME Starts2(n), NEW a \in 1..m, NEW b \in 1..m, NEW k \in 1..n
          PROVE  q[e[a] + k] = q[e[b] + k]
      <4>1. PICK x \in A : x[1] = e[a]
        BY <1>12
      <4>2. PICK y \in A : y[1] = e[b]
        BY <1>12
      <4>3. q[x[1] + k] = q[y[1] + k]
        BY <3>1
      <4> QED BY <4>1, <4>2, <4>3
    <3>2. ASSUME \A a, b \in 1..m : \A k \in 1..n : q[e[a] + k] = q[e[b] + k],
                 NEW x \in A, NEW y \in A, NEW k \in 1..n
          PROVE  q[x[1] + k] = q[y[1] + k]
      <4>1. PICK a \in 1..m : x[1] = e[a]
        BY <1>12
      <4>2. PICK b \in 1..m : y[1] = e[b]
        BY <1>12
      <4> QED BY <3>2, <4>1, <4>2
    <3> QED BY <3>1, <3>2
  <2>4. Ends2 <=> \E a, b \in 1..m : q[e[a + 1] - 1] # q[e[b + 1] - 1]
    <3>1. ASSUME NEW x \in A, NEW y \in A, q[x[2] - 1] # q[y[2] - 1]
          PROVE  \E a, b \in 1..m : q[e[a + 1] - 1] # q[e[b + 1] - 1]
      <4>1. PICK a \in 1..m : x[2] = e[a + 1]
        BY <1>12
      <4>2. PICK b \in 1..m : y[2] = e[b + 1]
        BY <1>12
      <4>3. q[e[a + 1] - 1] # q[e[b + 1] - 1]
        BY <3>1, <4>1, <4>2
      <4> QED BY <4>3
    <3>2. ASSUME NEW a \in 1..m, NEW b \in 1..m, q[e[a + 1] - 1] # q[e[b + 1] - 1] PROVE Ends2
      <4>1. PICK x \in A : x[2] = e[a + 1]
        BY <1>12
      <4>2. PICK y \in A : y[2] = e[b + 1]
        BY <1>12
      <4>3. q[x[2] - 1] # q[y[2] - 1]
        BY <3>2, <4>1, <4>2
      <4> QED BY <4>3
    <3> QED BY <3>1, <3>2
  <2>5. Starts2(n) <=> SameStart(n)
    <3>1. \A a, b \in 1..m : \A k \in 1..n : q[e[a] + k] = q[e[b] + k] <=> ch(a, k) = ch(b, k)
      BY <2>1, <2>2, SMTT(30)
    <3> HIDE DEF Starts2
    <3> QED BY <2>3, <3>1
  <2>6. Ends2 <=> Differ(n)
    <3>1. \A a \in 1..m : q[e[a + 1] - 1] = ch(a, n + 1)
      BY <2>1, <2>2
    <3> HIDE DEF Ends2
    <3> QED BY <2>4, <3>1
  <2>7. n \in 0..(c - p)
    <3>1. /\ e[1] \in p..Len(s) /\ e[1 + 1] \in p..c /\ Len(alts[1]) = e[1 + 1] - e[1] - 1
          /\ Len(alts[1]) = n + 1
      BY <1>1, <1>2, <1>5, <1>9
    <3> QED BY <1>5, <3>1
  <2> HIDE DEF SameStart, Differ, Starts2, Ends2
  <2> QED BY <2>5, <2>6, <2>7
<1>10. OfCharacters(q, p, c) <=> (\E n \in 0..(c - p) : Lengths2(n) /\ Starts2(n)) /\ Ends2
  BY <1>2 DEF OfCharacters, A
<1> HIDE DEF SameLength, SameStart, Differ, Lengths2, Starts2, Ends2
<1>11. \A n \in 0..(c - p) : n \in Nat
  BY <1>5
<1> QED BY <1>7, <1>8, <1>9, <1>10, <1>11 DEF c

-----------------------------------------------------------------------------
(***************************************************************************)
(* Which bars are in a class, token by token.                              *)
(***************************************************************************)
\* The bar at i is in a group that is a class, as Acceptable has it.
InGroupOfCharacters(s, i) ==
    \E o \in 1..i - 1, c \in i + 1..Len(s) :
        s[o] \in Opening /\ s[c] = ")" /\ OfCharacters(s, o, c)

\* There is a bar among the first k tokens that is in no such group.
Loose(s, k) == \E i \in 1..k : s[i] = "|" /\ ~InGroupOfCharacters(s, i)

\* p is the last parenthesis of s, or 0.
LastParenthesis(s, p) ==
    /\ p \in 0..Len(s) /\ (p # 0 => s[p] \in {"(", ")"})
    /\ \A j \in (p + 1)..Len(s) : s[j] \notin {"(", ")"}

\* Whether a group is of characters depends on what lies in it alone.
LEMMA OfCharactersSame ==
  ASSUME NEW s, NEW q, NEW o \in Nat, NEW c \in Nat, o <= c,
         \A j \in o..c : s[j] = q[j]
  PROVE  OfCharacters(s, o, c) => OfCharacters(q, o, c)
<1>1. Edges(s, o, c) = Edges(q, o, c)
  BY DEF Edges
<1>2. Alternatives(s, o, c) = Alternatives(q, o, c)
  BY <1>1 DEF Alternatives
<1> DEFINE A == Alternatives(q, o, c)
<1>3. \A x \in A : x[1] \in o..c /\ x[2] \in o..c /\ x[1] < x[2]
  <2>1. \A x \in A : x[1] \in Edges(q, o, c) /\ x[2] \in Edges(q, o, c) /\ x[1] < x[2]
    BY DEF Alternatives
  <2>2. Edges(q, o, c) \subseteq o..c
    BY DEF Edges
  <2> QED BY <2>1, <2>2
<1> HIDE DEF A
<1> SUFFICES ASSUME OfCharacters(s, o, c) PROVE OfCharacters(q, o, c)
  OBVIOUS
<1>4. /\ \A j \in o + 1..c - 1 : s[j] \in {"a", "b", "|"}
      /\ \E n \in 0..c - o : /\ \A x \in A : x[2] - x[1] = n + 2
                             /\ \A x, y \in A, k \in 1..n : s[x[1] + k] = s[y[1] + k]
      /\ \E x, y \in A : s[x[2] - 1] # s[y[2] - 1]
  BY <1>2 DEF OfCharacters, A
<1>5. PICK n \in 0..c - o : /\ \A x \in A : x[2] - x[1] = n + 2
                            /\ \A x, y \in A, k \in 1..n : s[x[1] + k] = s[y[1] + k]
  BY <1>4
<1>6. \A x \in A, k \in 1..n : x[1] + k \in o..c
  <2> SUFFICES ASSUME NEW x \in A, NEW k \in 1..n PROVE x[1] + k \in o..c
    OBVIOUS
  <2> DEFINE u == x[1]
             v == x[2]
  <2>1. u \in o..c /\ v \in o..c /\ v - u = n + 2
    BY <1>3, <1>5
  <2> HIDE DEF u, v
  <2>2. u + k \in o..c
    BY <2>1
  <2> QED BY <2>2 DEF u
<1>7. \A x, y \in A, k \in 1..n : q[x[1] + k] = q[y[1] + k]
  BY <1>5, <1>6
<1>8. \A x \in A : x[2] - 1 \in o..c
  <2> SUFFICES ASSUME NEW x \in A PROVE x[2] - 1 \in o..c
    OBVIOUS
  <2> DEFINE u == x[1]
             v == x[2]
  <2>1. u \in o..c /\ v \in o..c /\ u < v
    BY <1>3
  <2> HIDE DEF u, v
  <2>2. v - 1 \in o..c
    BY <2>1
  <2> QED BY <2>2 DEF v
<1>9. \E x, y \in A : q[x[2] - 1] # q[y[2] - 1]
  BY <1>4, <1>8
<1>10. \A j \in o + 1..c - 1 : q[j] \in {"a", "b", "|"}
  <2>1. \A j \in o + 1..c - 1 : j \in o..c
    OBVIOUS
  <2> QED BY <1>4, <2>1
<1>11. \E k \in 0..c - o : /\ \A x \in A : x[2] - x[1] = k + 2
                           /\ \A x, y \in A, j \in 1..k : q[x[1] + j] = q[y[1] + j]
  BY <1>5, <1>7
<1> QED BY <1>9, <1>10, <1>11 DEF OfCharacters, A

\* A group of characters has no parenthesis between its own.
LEMMA NothingBetween ==
  ASSUME NEW s, NEW o, NEW c, OfCharacters(s, o, c)
  PROVE  \A j \in (o + 1)..(c - 1) : s[j] \notin {"(", ")"}
BY DEF OfCharacters

\* A token more closes the group of the last parenthesis, if any.
LEMMA InGroupMore ==
  ASSUME NEW S, NEW s \in Seq(S), NEW t \in S, NEW p, LastParenthesis(s, p),
         "(?P<n>" \notin S, NEW i \in 1..Len(s)
  PROVE  InGroupOfCharacters(Append(s, t), i) <=>
            \/ InGroupOfCharacters(s, i)
            \/ /\ t = ")" /\ p # 0 /\ s[p] = "(" /\ i > p
               /\ OfCharacters(Append(s, t), p, Len(s) + 1)
<1> DEFINE n == Len(s)
           q == Append(s, t)
<1>1. /\ n \in Nat /\ Len(q) = n + 1 /\ q[n + 1] = t
      /\ \A j \in 1..n : q[j] = s[j] /\ s[j] \in S
  OBVIOUS
<1>2. /\ p \in 0..n /\ (p # 0 => s[p] \in {"(", ")"})
      /\ \A j \in (p + 1)..n : s[j] \notin {"(", ")"}
  BY DEF LastParenthesis
<1>3. i \in 1..n
  OBVIOUS
<1> HIDE DEF n, q
<1>4. ASSUME InGroupOfCharacters(s, i) PROVE InGroupOfCharacters(q, i)
  <2>1. PICK o \in 1..i - 1, c \in i + 1..n : s[o] \in Opening /\ s[c] = ")" /\ OfCharacters(s, o, c)
    BY <1>4 DEF InGroupOfCharacters, n
  <2>2. o \in Nat /\ c \in Nat /\ o <= c /\ o \in 1..n /\ c \in 1..n /\ c \in i + 1..n + 1
        /\ \A j \in o..c : j \in 1..n
    BY <1>1, <1>3
  <2>3. OfCharacters(q, o, c)
    <3>1. \A j \in o..c : s[j] = q[j]
      BY <1>1, <2>2
    <3> QED BY <2>1, <2>2, <3>1, OfCharactersSame
  <2>4. q[o] \in Opening /\ q[c] = ")"
    BY <1>1, <2>1, <2>2
  <2> QED BY <1>1, <2>2, <2>3, <2>4 DEF InGroupOfCharacters
<1>5. ASSUME t = ")", p # 0, s[p] = "(", i > p, OfCharacters(q, p, n + 1)
      PROVE  InGroupOfCharacters(q, i)
  <2>1. p \in 1..i - 1 /\ p \in 1..n /\ n + 1 \in i + 1..n + 1
    BY <1>1, <1>2, <1>3, <1>5
  <2>2. q[p] \in Opening /\ q[n + 1] = ")"
    BY <1>1, <1>5, <2>1 DEF Opening
  <2> QED BY <1>1, <1>5, <2>1, <2>2 DEF InGroupOfCharacters
<1>6. ASSUME InGroupOfCharacters(q, i)
      PROVE  \/ InGroupOfCharacters(s, i)
             \/ t = ")" /\ p # 0 /\ s[p] = "(" /\ i > p /\ OfCharacters(q, p, n + 1)
  <2>1. PICK o \in 1..i - 1, c \in i + 1..n + 1 : q[o] \in Opening /\ q[c] = ")" /\ OfCharacters(q, o, c)
    BY <1>1, <1>6 DEF InGroupOfCharacters
  <2>2. o \in Nat /\ c \in Nat /\ o <= c /\ o \in 1..n
    BY <1>1, <1>3
  <2>3. s[o] = "("
    BY <1>1, <2>1, <2>2 DEF Opening
  <2>4. CASE c # n + 1
    <3>1. c \in 1..n /\ c \in i + 1..n /\ \A j \in o..c : j \in 1..n
      BY <1>1, <1>3, <2>2, <2>4
    <3>2. OfCharacters(s, o, c)
      <4>1. \A j \in o..c : q[j] = s[j]
        BY <1>1, <3>1
      <4> QED BY <2>1, <2>2, <4>1, OfCharactersSame
    <3>3. s[o] \in Opening /\ s[c] = ")"
      BY <1>1, <2>1, <2>2, <3>1
    <3> QED BY <3>1, <3>2, <3>3 DEF InGroupOfCharacters, n
  <2>5. CASE c = n + 1
    <3>1. \A j \in (o + 1)..n : s[j] \notin {"(", ")"}
      <4>1. \A j \in (o + 1)..(c - 1) : q[j] \notin {"(", ")"}
        BY <2>1, NothingBetween
      <4>2. \A j \in (o + 1)..n : j \in (o + 1)..(c - 1) /\ j \in 1..n
        BY <1>1, <2>2, <2>5
      <4> QED BY <1>1, <4>1, <4>2
    <3>2. ~(p < o)
      <4>1. p < o => o \in (p + 1)..n
        BY <1>2, <2>2
      <4> QED BY <1>2, <2>3, <4>1
    <3>3. ~(o < p)
      <4>1. o < p => p \in (o + 1)..n /\ p # 0
        BY <1>2, <2>2
      <4> QED BY <1>2, <3>1, <4>1
    <3>4. o = p /\ p # 0 /\ i > p
      BY <1>2, <1>3, <2>2, <3>2, <3>3
    <3> QED BY <1>1, <2>1, <2>3, <2>5, <3>4
  <2> QED BY <2>4, <2>5
<1> QED BY <1>4, <1>5, <1>6 DEF n, q

\* Behind the last parenthesis no bar is in a group yet.
LEMMA NotYetInGroup ==
  ASSUME NEW S, NEW s \in Seq(S), NEW p, LastParenthesis(s, p), NEW i \in (p + 1)..Len(s)
  PROVE  ~InGroupOfCharacters(s, i)
<1>1. p \in Nat /\ Len(s) \in Nat /\ \A j \in (p + 1)..Len(s) : s[j] \notin {"(", ")"}
  BY DEF LastParenthesis
<1>2. \A c \in i + 1..Len(s) : c \in (p + 1)..Len(s)
  BY <1>1
<1> QED BY <1>1, <1>2 DEF InGroupOfCharacters

-----------------------------------------------------------------------------
(***************************************************************************)
(* What a token more does to the alternatives of a group.                  *)
(***************************************************************************)
\* The groups in alts have numbers up to n.
AtMost(alts, n) ==
    \A a \in 1..Len(alts) : \A i \in 1..Len(alts[a]) :
        alts[a][i].is = "group" => alts[a][i].at <= n

\* new has an item more than alts, at its end.
ItemAdded(alts, new, item) ==
    LET m == Len(alts)
    IN  /\ Len(new) = m
        /\ \A a \in 1..m : a # m => new[a] = alts[a]
        /\ new[m] = Append(alts[m], item)

\* Behind an item more, the items are the old ones and the new one.
LEMMA ItemMore ==
  ASSUME NEW S, NEW alts, NEW new, NEW item,
         alts \in AltsOf(S) /\ Len(alts) > 0 /\ item \in Item(S) /\ ItemAdded(alts, new, item)
  PROVE  LET m == Len(alts)
             l == Len(alts[m])
         IN  /\ m \in Nat /\ l \in Nat /\ m \in 1..m /\ Len(new) = m
             /\ \A a \in 1..m : \A i \in 1..Len(new[a]) :
                   \/ i \in 1..Len(alts[a]) /\ new[a][i] = alts[a][i]
                   \/ a = m /\ i = l + 1 /\ new[a][i] = item
             /\ \A a \in 1..m : \A i \in 1..Len(alts[a]) :
                   i \in 1..Len(new[a]) /\ new[a][i] = alts[a][i]
             /\ \A a \in 1..m : a # m => new[a] = alts[a]
             /\ Len(new[m]) = l + 1 /\ new[m][l + 1] = item
<1> DEFINE m == Len(alts)
           l == Len(alts[m])
           last == new[m]
<1>1. m \in Nat /\ m \in 1..m
  BY AltsFields
<1>2. alts[m] \in Seq(Item(S)) /\ l \in Nat
  BY <1>1, AltsFields
<1>3. Len(new) = m /\ (\A a \in 1..m : a # m => new[a] = alts[a]) /\ last = Append(alts[m], item)
  BY DEF ItemAdded
<1>4. Len(last) = l + 1 /\ last[l + 1] = item /\ \A i \in 1..l : last[i] = alts[m][i]
  BY <1>2, <1>3
<1> HIDE DEF last
<1>5. last = new[m]
  BY DEF last
<1> HIDE DEF m
<1>6. ASSUME NEW a \in 1..m, NEW i \in 1..Len(new[a])
      PROVE  \/ i \in 1..Len(alts[a]) /\ new[a][i] = alts[a][i]
             \/ a = m /\ i = l + 1 /\ new[a][i] = item
  <2>1. CASE a # m
    BY <1>3, <2>1
  <2>2. CASE a = m
    <3>1. i \in 1..(l + 1)
      BY <1>4, <1>5, <2>2
    <3>2. i \in 1..l \/ i = l + 1
      BY <1>2, <3>1
    <3> QED BY <1>4, <1>5, <2>2, <3>2
  <2> QED BY <2>1, <2>2
<1>7. ASSUME NEW a \in 1..m, NEW i \in 1..Len(alts[a])
      PROVE  i \in 1..Len(new[a]) /\ new[a][i] = alts[a][i]
  <2>1. CASE a # m
    BY <1>3, <2>1
  <2>2. CASE a = m
    <3>1. i \in 1..l
      BY <2>2
    <3>2. i \in 1..(l + 1)
      BY <1>2, <3>1
    <3> QED BY <1>4, <1>5, <2>2, <3>1, <3>2
  <2> QED BY <2>1, <2>2
<1> HIDE DEF l
<1> QED BY <1>1, <1>2, <1>3, <1>4, <1>5, <1>6, <1>7 DEF m, l

\* A literal more keeps groups apart, their numbers, and a group that is there.
LEMMA LiteralMore ==
  ASSUME NEW S, NEW alts, NEW new, NEW item,
         alts \in AltsOf(S) /\ Len(alts) > 0 /\ item \in Item(S) /\ ItemAdded(alts, new, item)
            /\ item.is # "group"
  PROVE  /\ Apart(alts) => Apart(new)
         /\ \A n : AtMost(alts, n) => AtMost(new, n)
         /\ HasGroup(alts) => HasGroup(new)
<1> DEFINE m == Len(alts)
<1>0. Len(new) = m
  BY ItemMore
<1>1. ASSUME NEW a \in 1..m, NEW i \in 1..Len(new[a]), new[a][i].is = "group"
      PROVE  i \in 1..Len(alts[a]) /\ new[a][i] = alts[a][i]
  <2>1. \/ i \in 1..Len(alts[a]) /\ new[a][i] = alts[a][i]
        \/ new[a][i] = item
    BY ItemMore
  <2> QED BY <1>1, <2>1
<1>2. \A a \in 1..m : \A i \in 1..Len(alts[a]) : i \in 1..Len(new[a]) /\ new[a][i] = alts[a][i]
  BY ItemMore
<1> HIDE DEF m
<1>3. Apart(alts) => Apart(new)
  <2> SUFFICES ASSUME Apart(alts), NEW a \in 1..m, NEW b \in 1..m,
                      NEW i \in 1..Len(new[a]), NEW j \in 1..Len(new[b]),
                      new[a][i].is = "group", new[b][j] = new[a][i]
               PROVE  a = b
    BY <1>0 DEF Apart
  <2>1. i \in 1..Len(alts[a]) /\ new[a][i] = alts[a][i]
    BY <1>1
  <2>2. j \in 1..Len(alts[b]) /\ new[b][j] = alts[b][j]
    BY <1>1
  <2> QED BY <2>1, <2>2 DEF Apart, m
<1>4. ASSUME NEW n, AtMost(alts, n) PROVE AtMost(new, n)
  <2>1. \A a \in 1..m : \A i \in 1..Len(alts[a]) : alts[a][i].is = "group" => alts[a][i].at <= n
    BY <1>4 DEF AtMost, m
  <2>2. \A a \in 1..m : \A i \in 1..Len(new[a]) : new[a][i].is = "group" => new[a][i].at <= n
    BY <1>1, <2>1
  <2> QED BY <1>0, <2>2 DEF AtMost
<1>5. HasGroup(alts) => HasGroup(new)
  <2> SUFFICES ASSUME NEW a \in 1..m, NEW i \in 1..Len(alts[a]), alts[a][i].is = "group"
               PROVE  HasGroup(new)
    BY DEF HasGroup, m
  <2>1. i \in 1..Len(new[a]) /\ new[a][i].is = "group"
    BY <1>2
  <2> QED BY <1>0, <2>1 DEF HasGroup
<1> QED BY <1>3, <1>4, <1>5

\* A group with a number above the others keeps them apart.
LEMMA GroupMore ==
  ASSUME NEW S, NEW alts, NEW new, NEW n,
         alts \in AltsOf(S) /\ Len(alts) > 0 /\ n \in Nat /\ ItemAdded(alts, new, Group(n))
            /\ Apart(alts) /\ AtMost(alts, n - 1)
  PROVE  Apart(new) /\ AtMost(new, n) /\ HasGroup(new)
<1> DEFINE m == Len(alts)
           item == Group(n)
           l == Len(alts[m])
<1>0. item \in Item(S) /\ item.is = "group" /\ item.at = n
  BY DEF Group, Item
<1>00. ItemAdded(alts, new, item)
  OBVIOUS
<1> HIDE DEF item
<1>1. ASSUME NEW a \in 1..m, NEW i \in 1..Len(new[a])
      PROVE  \/ i \in 1..Len(alts[a]) /\ new[a][i] = alts[a][i]
             \/ a = m /\ i = l + 1 /\ new[a][i] = item
  BY <1>0, <1>00, ItemMore
<1>2. Len(new) = m /\ m \in 1..m /\ l + 1 \in 1..Len(new[m]) /\ new[m][l + 1] = item
  <2>1. m \in Nat /\ l \in Nat /\ m \in 1..m /\ Len(new) = m /\ Len(new[m]) = l + 1
        /\ new[m][l + 1] = item
    BY <1>0, <1>00, ItemMore
  <2>2. l + 1 \in 1..(l + 1)
    BY <2>1
  <2> QED BY <2>1, <2>2
<1>3. \A a \in 1..m : \A i \in 1..Len(alts[a]) : alts[a][i] \in Item(S)
  BY AltsFields
<1> HIDE DEF m, l
<1>4. \A a \in 1..m : \A i \in 1..Len(alts[a]) :
         alts[a][i].is = "group" => alts[a][i].at <= n - 1 /\ alts[a][i].at \in Nat
  BY <1>3 DEF AtMost, m, Item
<1>5. \A a \in 1..m : \A i \in 1..Len(alts[a]) :
         alts[a][i].is = "group" => alts[a][i].at <= n /\ alts[a][i] # item
  <2> SUFFICES ASSUME NEW a \in 1..m, NEW i \in 1..Len(alts[a]), alts[a][i].is = "group"
               PROVE  alts[a][i].at <= n /\ alts[a][i] # item
    OBVIOUS
  <2> DEFINE x == alts[a][i].at
  <2>1. x \in Nat /\ x <= n - 1
    BY <1>4
  <2> HIDE DEF x
  <2>2. x <= n /\ x # n
    BY <2>1
  <2> QED BY <1>0, <2>2 DEF x
<1>6. Apart(new)
  <2> SUFFICES ASSUME NEW a \in 1..m, NEW b \in 1..m,
                      NEW i \in 1..Len(new[a]), NEW j \in 1..Len(new[b]),
                      new[a][i].is = "group", new[b][j] = new[a][i]
               PROVE  a = b
    BY <1>2 DEF Apart
  <2>1. (i \in 1..Len(alts[a]) /\ new[a][i] = alts[a][i]) \/ (a = m /\ new[a][i] = item)
    BY <1>1
  <2>2. (j \in 1..Len(alts[b]) /\ new[b][j] = alts[b][j]) \/ (b = m /\ new[b][j] = item)
    BY <1>1
  <2>3. CASE i \in 1..Len(alts[a]) /\ new[a][i] = alts[a][i] /\ j \in 1..Len(alts[b]) /\ new[b][j] = alts[b][j]
    BY <2>3 DEF Apart, m
  <2>4. CASE a = m /\ b = m
    BY <2>4
  <2>5. CASE i \in 1..Len(alts[a]) /\ new[a][i] = alts[a][i] /\ new[b][j] = item
    BY <1>5, <2>5
  <2>6. CASE j \in 1..Len(alts[b]) /\ new[b][j] = alts[b][j] /\ new[a][i] = item
    BY <1>5, <2>6
  <2> QED BY <2>1, <2>2, <2>3, <2>4, <2>5, <2>6
<1>7. AtMost(new, n)
  <2>1. ASSUME NEW a \in 1..m, NEW i \in 1..Len(new[a]), new[a][i].is = "group" PROVE new[a][i].at <= n
    BY <1>0, <1>1, <1>5, <2>1, SMTT(30)
  <2> QED BY <1>2, <2>1 DEF AtMost
<1>8. HasGroup(new)
  BY <1>0, <1>2 DEF HasGroup
<1> QED BY <1>6, <1>7, <1>8

\* new has an empty alternative more than alts.
BarAdded(alts, new) ==
    LET m == Len(alts)
    IN  Len(new) = m + 1 /\ (\A a \in 1..m : new[a] = alts[a]) /\ new[m + 1] = <<>>

\* An empty alternative more keeps groups apart, their numbers, and a group that is there.
LEMMA BarMore ==
  ASSUME NEW S, NEW alts, NEW new,
         alts \in AltsOf(S) /\ Len(alts) > 0 /\ BarAdded(alts, new)
  PROVE  /\ Apart(alts) => Apart(new)
         /\ \A n : AtMost(alts, n) => AtMost(new, n)
         /\ HasGroup(alts) => HasGroup(new)
<1> DEFINE m == Len(alts)
<1>1. m \in Nat /\ Len(new) = m + 1 /\ (\A a \in 1..m : new[a] = alts[a]) /\ new[m + 1] = <<>>
  BY AltsFields DEF BarAdded
<1> HIDE DEF m
<1>2. ASSUME NEW a \in 1..(m + 1), NEW i \in 1..Len(new[a]) PROVE a \in 1..m /\ new[a] = alts[a]
  <2>1. a \in 1..m \/ a = m + 1
    BY <1>1
  <2>2. a # m + 1
    <3>1. 1..Len(<<>>) = {}
      OBVIOUS
    <3> QED BY <1>1, <3>1
  <2> QED BY <1>1, <2>1, <2>2
<1>3. Apart(alts) => Apart(new)
  <2> SUFFICES ASSUME Apart(alts), NEW a \in 1..(m + 1), NEW b \in 1..(m + 1),
                      NEW i \in 1..Len(new[a]), NEW j \in 1..Len(new[b]),
                      new[a][i].is = "group", new[b][j] = new[a][i]
               PROVE  a = b
    BY <1>1 DEF Apart
  <2>1. a \in 1..m /\ new[a] = alts[a] /\ b \in 1..m /\ new[b] = alts[b]
    BY <1>2
  <2>2. i \in 1..Len(alts[a]) /\ j \in 1..Len(alts[b])
    BY <2>1
  <2> QED BY <2>1, <2>2 DEF Apart, m
<1>4. ASSUME NEW n, AtMost(alts, n) PROVE AtMost(new, n)
  <2>1. ASSUME NEW a \in 1..(m + 1), NEW i \in 1..Len(new[a]), new[a][i].is = "group"
        PROVE  new[a][i].at <= n
    <3>1. a \in 1..m /\ new[a] = alts[a]
      BY <1>2
    <3>2. i \in 1..Len(alts[a])
      BY <3>1
    <3> QED BY <1>4, <2>1, <3>1, <3>2 DEF AtMost, m
  <2> QED BY <1>1, <2>1 DEF AtMost
<1>5. HasGroup(alts) => HasGroup(new)
  <2> SUFFICES ASSUME NEW a \in 1..m, NEW i \in 1..Len(alts[a]), alts[a][i].is = "group"
               PROVE  HasGroup(new)
    BY DEF HasGroup, m
  <2>1. a \in 1..(m + 1) /\ new[a] = alts[a]
    BY <1>1
  <2>2. i \in 1..Len(new[a]) /\ new[a][i].is = "group"
    BY <2>1
  <2> QED BY <1>1, <2>1, <2>2 DEF HasGroup
<1> QED BY <1>3, <1>4, <1>5

-----------------------------------------------------------------------------
(***************************************************************************)
(* What a token more does to a group of characters and bars.               *)
(***************************************************************************)
LEMMA SplitNew ==
  ASSUME NEW S, NEW s \in Seq(S), NEW t \in S, NEW alts, Len(alts) = 1, alts[1] = <<>>
  PROVE  \E e : Split(Append(s, t), Len(s) + 1, alts, e)
<1> DEFINE n == Len(s)
           e == [a \in 1..(1 + 1) |-> IF a = 1 THEN n + 1 ELSE n + 2]
<1>1. n \in Nat /\ Len(Append(s, t)) = n + 1
  OBVIOUS
<1>2. e \in [1..(1 + 1) -> Nat] /\ e[1] = n + 1 /\ e[1 + 1] = n + 2
  BY <1>1
<1>3. Len(alts[1]) = 0
  OBVIOUS
<1>4. \A a \in 1..1 : a = 1
  OBVIOUS
<1>5. 2..1 = {} /\ 1..0 = {}
  OBVIOUS
<1> HIDE DEF e, n
<1>6. /\ e[1 + 1] = (n + 1) + 1 /\ e[1] < e[1 + 1] /\ 0 = e[1 + 1] - e[1] - 1
  BY <1>1, <1>2
<1>7. Split(Append(s, t), n + 1, alts, e)
  BY <1>1, <1>2, <1>3, <1>4, <1>5, <1>6 DEF Split
<1> QED BY <1>7 DEF n

\* A character behind a split makes its last alternative longer.
LEMMA SplitCharacter ==
  ASSUME NEW S, NEW s \in Seq(S), NEW t \in S, NEW p \in Nat, NEW alts \in AltsOf(S), NEW e,
         NEW new, Split(s, p, alts, e), Len(alts) > 0, t \in {"a", "b"}, ItemAdded(alts, new, Literal(t))
  PROVE  \E f : Split(Append(s, t), p, new, f)
<1> DEFINE n == Len(s)
           q == Append(s, t)
           m == Len(alts)
           item == Literal(t)
           l == Len(alts[m])
           f == [a \in 1..(m + 1) |-> IF a = m + 1 THEN n + 2 ELSE e[a]]
<1>1. n \in Nat /\ Len(q) = n + 1 /\ q[n + 1] = t /\ \A j \in 1..n : q[j] = s[j]
  OBVIOUS
<1>2. /\ m \in Nat /\ e[1] = p /\ e[m + 1] = n + 1
      /\ \A a \in 1..(m + 1) : e[a] \in Nat
      /\ \A a \in 1..m : e[a] < e[a + 1] /\ e[a + 1] \in Nat
                         /\ Len(alts[a]) = e[a + 1] - e[a] - 1
                         /\ \A x \in 1..Len(alts[a]) : /\ alts[a][x] = Literal(s[e[a] + x])
                                                       /\ s[e[a] + x] \in {"a", "b"}
      /\ \A a \in 2..m : s[e[a]] = "|"
  <2>1. /\ Len(alts) \in Nat /\ e[1] = p /\ e[Len(alts) + 1] = Len(s) + 1
        /\ \A a \in 1..(Len(alts) + 1) : e[a] \in Nat
        /\ \A a \in 1..Len(alts) : e[a] < e[a + 1] /\ e[a + 1] \in Nat
                                    /\ Len(alts[a]) = e[a + 1] - e[a] - 1
                                    /\ \A x \in 1..Len(alts[a]) : /\ alts[a][x] = Literal(s[e[a] + x])
                                                                  /\ s[e[a] + x] \in {"a", "b"}
        /\ \A a \in 2..Len(alts) : s[e[a]] = "|"
    BY SplitFields
  <2> QED BY <2>1
<1>3. item \in Item(S) /\ item = Literal(t) /\ m > 0
  BY DEF Literal, Item
<1>4. /\ m \in 1..m /\ l \in Nat /\ Len(new) = m
      /\ \A a \in 1..m : \A i \in 1..Len(new[a]) :
            \/ i \in 1..Len(alts[a]) /\ new[a][i] = alts[a][i]
            \/ a = m /\ i = l + 1 /\ new[a][i] = item
      /\ \A a \in 1..m : a # m => new[a] = alts[a]
      /\ Len(new[m]) = l + 1
  <2> HIDE DEF item
  <2> QED BY <1>3, ItemMore
<1> HIDE DEF m, n, q, item, l
<1>5. \A a \in 1..m : a \in 1..(m + 1) /\ a + 1 \in 1..(m + 1)
  BY <1>2
<1>6. /\ \A a \in 1..m : f[a] = e[a]
      /\ f[m + 1] = n + 2 /\ f \in [1..(m + 1) -> Nat]
  <2>1. \A a \in 1..m : a # m + 1
    BY <1>2
  <2> QED BY <1>1, <1>2, <1>5, <2>1
<1> HIDE DEF f
\* the edges are those of s, but for the end
<1>7. \A a \in 1..m : e[a] < n + 1 /\ (a # m => f[a + 1] = e[a + 1])
  <2> SUFFICES ASSUME NEW a \in 1..m PROVE e[a] < n + 1 /\ (a # m => f[a + 1] = e[a + 1])
    OBVIOUS
  <2>1. a \in 1..(m + 1) /\ m + 1 \in 1..(m + 1) /\ a < m + 1
    BY <1>2, <1>3
  <2>2. e[a] < e[m + 1]
    BY <1>2, <2>1, EdgesGrow
  <2>3. a # m => a + 1 \in 1..m
    BY <1>2
  <2> QED BY <1>2, <1>6, <2>2, <2>3
<1>8. ASSUME NEW a \in 1..m, NEW x \in 1..Len(alts[a])
      PROVE  e[a] + x \in 1..n
  <2>1. e[a] \in Nat /\ e[a + 1] \in Nat /\ x < e[a + 1] - e[a] /\ x \in Nat /\ x > 0
    <3> DEFINE k == Len(alts[a])
    <3>1. k = e[a + 1] - e[a] - 1 /\ e[a] \in Nat /\ e[a + 1] \in Nat
      BY <1>2, <1>5
    <3>2. x \in 1..k
      OBVIOUS
    <3> HIDE DEF k
    <3> QED BY <3>1, <3>2
  <2>2. e[a + 1] <= n + 1
    <3>1. CASE a = m
      BY <1>2, <3>1
    <3>2. CASE a # m
      <4>1. a + 1 \in 1..m
        BY <1>2, <3>2
      <4> QED BY <1>1, <1>2, <1>7, <4>1, <2>1
    <3> QED BY <3>1, <3>2
  <2> QED BY <1>1, <2>1, <2>2, SMTT(30)
<1>9. ASSUME NEW a \in 1..m
      PROVE  /\ f[a] < f[a + 1] /\ Len(new[a]) = f[a + 1] - f[a] - 1
             /\ \A x \in 1..Len(new[a]) : /\ new[a][x] = Literal(q[f[a] + x])
                                          /\ q[f[a] + x] \in {"a", "b"}
  <2>1. CASE a # m
    <3>1. f[a] = e[a] /\ f[a + 1] = e[a + 1] /\ new[a] = alts[a]
      BY <1>4, <1>6, <1>7, <2>1
    <3>2. \A x \in 1..Len(alts[a]) : q[e[a] + x] = s[e[a] + x]
      BY <1>1, <1>8
    <3>3. /\ e[a] < e[a + 1] /\ Len(alts[a]) = e[a + 1] - e[a] - 1
          /\ \A x \in 1..Len(alts[a]) : /\ alts[a][x] = Literal(s[e[a] + x])
                                        /\ s[e[a] + x] \in {"a", "b"}
      BY <1>2
    <3> QED BY <3>1, <3>2, <3>3
  <2>2. CASE a = m
    <3>1. f[a] = e[a] /\ f[a + 1] = n + 2 /\ e[a + 1] = n + 1 /\ Len(new[a]) = l + 1
      BY <1>2, <1>4, <1>6, <2>2
    <3>2. e[a] < n + 1 /\ l = (n + 1) - e[a] - 1 /\ e[a] \in Nat
      BY <1>2, <1>5, <1>7, <2>2 DEF l
    <3>3. f[a] < f[a + 1] /\ Len(new[a]) = f[a + 1] - f[a] - 1
      BY <1>1, <3>1, <3>2, SMTT(30)
    <3>4. ASSUME NEW x \in 1..Len(new[a])
          PROVE  new[a][x] = Literal(q[f[a] + x]) /\ q[f[a] + x] \in {"a", "b"}
      <4>1. CASE x \in 1..Len(alts[a]) /\ new[a][x] = alts[a][x]
        <5>1. alts[a][x] = Literal(s[e[a] + x]) /\ s[e[a] + x] \in {"a", "b"}
          BY <1>2, <4>1
        <5>2. q[e[a] + x] = s[e[a] + x]
          BY <1>1, <1>8, <4>1
        <5> QED BY <3>1, <4>1, <5>1, <5>2
      <4>2. CASE x = l + 1 /\ new[a][x] = item
        <5>1. e[a] + x = n + 1
          BY <1>1, <3>2, <4>2
        <5> QED BY <1>1, <1>3, <3>1, <4>2, <5>1
      <4> QED BY <1>4, <4>1, <4>2
    <3> QED BY <3>3, <3>4
  <2> QED BY <2>1, <2>2
<1>10. \A a \in 2..m : q[f[a]] = "|"
  <2> SUFFICES ASSUME NEW a \in 2..m PROVE q[f[a]] = "|"
    OBVIOUS
  <2>1. a \in 1..m /\ a \in 1..(m + 1) /\ a # 1 /\ 1 \in 1..(m + 1) /\ 1 < a
    BY <1>2
  <2>2. e[1] < e[a] /\ e[1] \in Nat /\ e[a] \in Nat
    BY <1>2, <2>1, EdgesGrow
  <2>3. e[a] \in 1..n
    BY <1>1, <1>7, <2>1, <2>2
  <2>4. q[e[a]] = s[e[a]]
    BY <1>1, <2>3
  <2>5. s[e[a]] = "|"
    BY <1>2, <2>1
  <2> QED BY <1>6, <2>1, <2>4, <2>5
<1>11. f[1] = p
  BY <1>2, <1>3, <1>4, <1>6
<1>12. Split(q, p, new, f)
  BY <1>1, <1>4, <1>6, <1>9, <1>10, <1>11 DEF Split
<1> QED BY <1>12 DEF q

\* A bar behind a split begins its next alternative.
LEMMA SplitBar ==
  ASSUME NEW S, NEW s \in Seq(S), NEW t \in S, NEW p \in Nat, NEW alts \in AltsOf(S), NEW e,
         NEW new, Split(s, p, alts, e), Len(alts) > 0, t = "|", BarAdded(alts, new)
  PROVE  \E f : Split(Append(s, t), p, new, f)
<1> DEFINE n == Len(s)
           q == Append(s, t)
           m == Len(alts)
           f == [a \in 1..((m + 1) + 1) |-> IF a = m + 2 THEN n + 2 ELSE e[a]]
<1>1. n \in Nat /\ Len(q) = n + 1 /\ q[n + 1] = t /\ \A j \in 1..n : q[j] = s[j]
  OBVIOUS
<1>2. /\ m \in Nat /\ e[1] = p /\ e[m + 1] = n + 1
      /\ \A a \in 1..(m + 1) : e[a] \in Nat
      /\ \A a \in 1..m : e[a] < e[a + 1] /\ e[a + 1] \in Nat
                         /\ Len(alts[a]) = e[a + 1] - e[a] - 1
                         /\ \A x \in 1..Len(alts[a]) : /\ alts[a][x] = Literal(s[e[a] + x])
                                                       /\ s[e[a] + x] \in {"a", "b"}
      /\ \A a \in 2..m : s[e[a]] = "|"
  <2>1. /\ Len(alts) \in Nat /\ e[1] = p /\ e[Len(alts) + 1] = Len(s) + 1
        /\ \A a \in 1..(Len(alts) + 1) : e[a] \in Nat
        /\ \A a \in 1..Len(alts) : e[a] < e[a + 1] /\ e[a + 1] \in Nat
                                    /\ Len(alts[a]) = e[a + 1] - e[a] - 1
                                    /\ \A x \in 1..Len(alts[a]) : /\ alts[a][x] = Literal(s[e[a] + x])
                                                                  /\ s[e[a] + x] \in {"a", "b"}
        /\ \A a \in 2..Len(alts) : s[e[a]] = "|"
    BY SplitFields
  <2> QED BY <2>1
<1>3. m > 0 /\ Len(new) = m + 1 /\ (\A a \in 1..m : new[a] = alts[a]) /\ new[m + 1] = <<>>
  BY DEF BarAdded
<1> HIDE DEF m, n, q
<1>5. \A a \in 1..m : a \in 1..(m + 1) /\ a + 1 \in 1..(m + 1)
  BY <1>2
<1>6. /\ \A a \in 1..(m + 1) : f[a] = e[a]
      /\ f[(m + 1) + 1] = n + 2 /\ f \in [1..((m + 1) + 1) -> Nat]
  <2>1. \A a \in 1..((m + 1) + 1) : a # m + 2 => a \in 1..(m + 1)
    BY <1>2
  <2>2. \A a \in 1..(m + 1) : a # m + 2 /\ a \in 1..((m + 1) + 1)
    BY <1>2
  <2>3. (m + 1) + 1 = m + 2 /\ m + 2 \in 1..((m + 1) + 1)
    BY <1>2
  <2> QED BY <1>1, <1>2, <2>1, <2>2, <2>3
<1> HIDE DEF f
<1>7. \A a \in 1..(m + 1) : e[a] <= n + 1 /\ (a # m + 1 => e[a] < n + 1)
  <2> SUFFICES ASSUME NEW a \in 1..(m + 1) PROVE e[a] <= n + 1 /\ (a # m + 1 => e[a] < n + 1)
    OBVIOUS
  <2>1. m + 1 \in 1..(m + 1) /\ (a # m + 1 => a < m + 1)
    BY <1>2, <1>3
  <2>2. a # m + 1 => e[a] < e[m + 1]
    BY <1>2, <2>1, EdgesGrow
  <2> QED BY <1>1, <1>2, <2>2
<1>8. ASSUME NEW a \in 1..m, NEW x \in 1..Len(alts[a])
      PROVE  e[a] + x \in 1..n
  <2>1. e[a] \in Nat /\ e[a + 1] \in Nat /\ x < e[a + 1] - e[a] /\ x \in Nat /\ x > 0
    <3> DEFINE k == Len(alts[a])
    <3>1. k = e[a + 1] - e[a] - 1 /\ e[a] \in Nat /\ e[a + 1] \in Nat
      BY <1>2, <1>5
    <3>2. x \in 1..k
      OBVIOUS
    <3> HIDE DEF k
    <3> QED BY <3>1, <3>2
  <2>2. e[a + 1] <= n + 1
    BY <1>5, <1>7
  <2> QED BY <1>1, <2>1, <2>2, SMTT(30)
<1>9. ASSUME NEW a \in 1..(m + 1)
      PROVE  /\ f[a] < f[a + 1] /\ Len(new[a]) = f[a + 1] - f[a] - 1
             /\ \A x \in 1..Len(new[a]) : /\ new[a][x] = Literal(q[f[a] + x])
                                          /\ q[f[a] + x] \in {"a", "b"}
  <2>1. CASE a \in 1..m
    <3>1. f[a] = e[a] /\ f[a + 1] = e[a + 1] /\ new[a] = alts[a]
      BY <1>3, <1>5, <1>6, <2>1
    <3>2. \A x \in 1..Len(alts[a]) : q[e[a] + x] = s[e[a] + x]
      BY <1>1, <1>8, <2>1
    <3>3. /\ e[a] < e[a + 1] /\ Len(alts[a]) = e[a + 1] - e[a] - 1
          /\ \A x \in 1..Len(alts[a]) : /\ alts[a][x] = Literal(s[e[a] + x])
                                        /\ s[e[a] + x] \in {"a", "b"}
      BY <1>2, <2>1
    <3> QED BY <3>1, <3>2, <3>3
  <2>2. CASE a = m + 1
    <3>1. f[a] = n + 1 /\ f[a + 1] = n + 2 /\ new[a] = <<>>
      BY <1>2, <1>3, <1>6, <2>2
    <3>2. Len(<<>>) = 0 /\ 1..Len(<<>>) = {}
      OBVIOUS
    <3>3. n + 1 < n + 2 /\ 0 = (n + 2) - (n + 1) - 1
      BY <1>1
    <3>4. f[a] < f[a + 1]
      BY <3>1, <3>3
    <3>5. Len(new[a]) = 0 /\ 0 = f[a + 1] - f[a] - 1
      BY <3>1, <3>2, <3>3
    <3>6. 1..Len(new[a]) = {}
      BY <3>5
    <3> QED BY <3>4, <3>5, <3>6
  <2>3. a \in 1..m \/ a = m + 1
    BY <1>2
  <2> QED BY <2>1, <2>2, <2>3
<1>10. \A a \in 2..(m + 1) : q[f[a]] = "|"
  <2> SUFFICES ASSUME NEW a \in 2..(m + 1) PROVE q[f[a]] = "|"
    OBVIOUS
  <2>1. a \in 1..(m + 1) /\ a # 1 /\ 1 \in 1..(m + 1) /\ 1 < a
    BY <1>2
  <2>2. e[1] < e[a] /\ e[1] \in Nat /\ e[a] \in Nat
    BY <1>2, <2>1, EdgesGrow
  <2>3. CASE a = m + 1
    BY <1>1, <1>2, <1>6, <2>1, <2>3
  <2>4. CASE a # m + 1
    <3>1. a \in 2..m
      BY <1>2, <2>1, <2>4
    <3>2. e[a] \in 1..n
      BY <1>1, <1>7, <2>1, <2>2, <2>4
    <3>3. q[e[a]] = s[e[a]] /\ s[e[a]] = "|"
      BY <1>1, <1>2, <3>1, <3>2
    <3> QED BY <1>6, <2>1, <3>3
  <2> QED BY <2>3, <2>4
<1>11. f[1] = p
  <2>1. 1 \in 1..(m + 1)
    BY <1>2
  <2> QED BY <1>2, <1>6, <2>1
<1>12. Split(q, p, new, f)
  <2>1. Len(new) = m + 1 /\ Len(q) + 1 = n + 2
    BY <1>1, <1>3
  <2> QED BY <1>6, <1>9, <1>10, <1>11, <2>1 DEF Split
<1> QED BY <1>12 DEF q

-----------------------------------------------------------------------------
(***************************************************************************)
(* The numbers of the groups that a reader has.                            *)
(***************************************************************************)
\* No group was read twice, and those of a level were read before the level
\* above it was opened.
Numbered(r) ==
    \A k \in 1..Len(r.open) :
        /\ Apart(r.open[k])
        /\ AtMost(r.open[k], IF k = Len(r.open) THEN r.groups ELSE r.groups - 1)

\* A bound on the numbers of groups may be raised.
LEMMA AtMostMore ==
  ASSUME NEW S, NEW alts \in AltsOf(S), NEW m \in Int, NEW n \in Int, AtMost(alts, m), m <= n
  PROVE  AtMost(alts, n)
<1> SUFFICES ASSUME NEW a \in 1..Len(alts), NEW i \in 1..Len(alts[a]), alts[a][i].is = "group"
             PROVE  alts[a][i].at <= n
  BY DEF AtMost
<1> DEFINE x == alts[a][i].at
<1>1. alts[a][i] \in Item(S)
  BY AltsFields
<1>2. x \in Nat
  BY <1>1 DEF Item
<1>3. x <= m
  BY DEF AtMost
<1> HIDE DEF x
<1>4. x <= n
  BY <1>2, <1>3
<1> QED BY <1>4 DEF x

\* An empty alternative has no groups.
LEMMA NothingNumbered ==
  ASSUME NEW alts, Len(alts) = 1, alts[1] = <<>>
  PROVE  Apart(alts) /\ \A n : AtMost(alts, n)
<1>1. \A a \in 1..Len(alts) : alts[a] = <<>>
  OBVIOUS
<1>2. \A a \in 1..Len(alts) : 1..Len(alts[a]) = {}
  <2>1. 1..Len(<<>>) = {}
    OBVIOUS
  <2> QED BY <1>1, <2>1
<1> QED BY <1>2 DEF Apart, AtMost

\* What each token does to a reader that is in no class and has no error.
LEMMA LiteralRead ==
  ASSUME NEW S, NEW r \in ReaderOf(S), Stacked(r), NEW t \in S,
         r.error = "none", r.class = "none", t \notin Opening \cup {")", "|", "["}
  PROVE  LET d == Len(r.open)
             u == ReadToken(r, t)
         IN  /\ u \in ReaderOf(S) /\ Stacked(u) /\ Len(u.open) = d
             /\ u.error = "none" /\ u.class = "none" /\ u.groups = r.groups
             /\ u.named = r.named /\ u.union = r.union
             /\ \A k \in 1..d : k # d => u.open[k] = r.open[k]
             /\ ItemAdded(r.open[d], u.open[d], Literal(t)) /\ Literal(t) \in Item(S)
<1> DEFINE item == Literal(t)
<1>1. item \in Item(S)
  BY DEF Literal, Item
<1>2. ReadToken(r, t) = AddItem(r, item)
  BY DEF ReadToken
<1> HIDE DEF item
<1> DEFINE u == AddItem(r, item)
<1>3. LET d == Len(r.open)
          n == Len(r.open[d])
      IN  /\ u \in ReaderOf(S) /\ Stacked(u)
          /\ \A x \in {"class", "chars", "groups", "named", "union", "error"} : u[x] = r[x]
          /\ Len(u.open) = d
          /\ \A k \in 1..d : k # d => u.open[k] = r.open[k]
          /\ Len(u.open[d]) = n
          /\ \A a \in 1..n : a # n => u.open[d][a] = r.open[d][a]
          /\ u.open[d][n] = Append(r.open[d][n], item)
  BY <1>1, AddItemIs, ZenonT(60)
<1> HIDE DEF u
<1>4. ItemAdded(r.open[Len(r.open)], u.open[Len(r.open)], item)
  BY <1>3 DEF ItemAdded
<1>5. /\ u.error = "none" /\ u.class = "none" /\ u.groups = r.groups
      /\ u.named = r.named /\ u.union = r.union
  BY <1>3
<1> QED BY <1>1, <1>2, <1>3, <1>4, <1>5 DEF u, item

\* A bar: the innermost group has an alternative more.
LEMMA BarTokenRead ==
  ASSUME NEW S, NEW r \in ReaderOf(S), Stacked(r), r.error = "none", r.class = "none"
  PROVE  LET d == Len(r.open)
             u == ReadToken(r, "|")
         IN  /\ u \in ReaderOf(S) /\ Stacked(u) /\ Len(u.open) = d
             /\ u.error = "none" /\ u.class = "none" /\ u.groups = r.groups
             /\ u.named = r.named /\ u.union = r.union
             /\ \A k \in 1..d : k # d => u.open[k] = r.open[k]
             /\ BarAdded(r.open[d], u.open[d])
<1>1. ReadToken(r, "|") = BarRead(r)
  BY DEF ReadToken, BarRead, Opening
<1> DEFINE u == BarRead(r)
<1>3. LET d == Len(r.open)
          n == Len(r.open[d])
      IN  /\ u \in ReaderOf(S) /\ Stacked(u)
          /\ \A x \in {"class", "chars", "groups", "named", "union", "error"} : u[x] = r[x]
          /\ Len(u.open) = d
          /\ \A k \in 1..d : k # d => u.open[k] = r.open[k]
          /\ Len(u.open[d]) = n + 1
          /\ \A a \in 1..n : u.open[d][a] = r.open[d][a]
          /\ u.open[d][n + 1] = <<>>
  BY BarReadIs
<1> HIDE DEF u
<1>4. BarAdded(r.open[Len(r.open)], u.open[Len(r.open)])
  BY <1>3 DEF BarAdded
<1>5. /\ u.error = "none" /\ u.class = "none" /\ u.groups = r.groups
      /\ u.named = r.named /\ u.union = r.union
  BY <1>3
<1> QED BY <1>1, <1>3, <1>4, <1>5 DEF u

\* An opening parenthesis: there is a level more, and a group.
LEMMA OpeningRead ==
  ASSUME NEW S, NEW r \in ReaderOf(S), Stacked(r), r.error = "none", r.class = "none"
  PROVE  LET d == Len(r.open)
             u == ReadToken(r, "(")
         IN  /\ u \in ReaderOf(S) /\ Stacked(u) /\ Len(u.open) = d + 1
             /\ u.error = "none" /\ u.class = "none" /\ u.groups = r.groups + 1
             /\ u.named = r.named /\ u.union = r.union
             /\ \A k \in 1..d : u.open[k] = r.open[k]
             /\ u.open[d + 1] = << <<>> >>
<1>1. ReadToken(r, "(") = OpenGroup(r, "(")
  BY DEF ReadToken, Opening
<1> DEFINE u == OpenGroup(r, "(")
           t == "("
<1>2. ~(t = "(?P<n>" /\ r.named) /\ ~(t = "(?P<n>")
  OBVIOUS
<1> HIDE DEF t
<1>3. LET d == Len(r.open)
          v == OpenGroup(r, t)
      IN  /\ v \in ReaderOf(S) /\ Stacked(v)
          /\ \A x \in {"class", "chars", "union", "error"} : v[x] = r[x]
          /\ v.groups = r.groups + 1
          /\ v.named = (r.named \/ t = "(?P<n>")
          /\ Len(v.open) = d + 1
          /\ \A k \in 1..d : v.open[k] = r.open[k]
          /\ v.open[d + 1] = << <<>> >>
  BY <1>2, OpenGroupIs
<1>6. OpenGroup(r, t) = u
  BY DEF t
<1> HIDE DEF u
<1>4. u.error = "none" /\ u.class = "none" /\ u.groups = r.groups + 1 /\ u.union = r.union
  BY <1>3, <1>6
<1>5. u.named = r.named
  <2>1. r.named \in BOOLEAN
    BY ReaderFields
  <2>2. u.named = (r.named \/ FALSE)
    BY <1>2, <1>3, <1>6
  <2> QED BY <2>1, <2>2
<1> QED BY <1>1, <1>3, <1>4, <1>5, <1>6 DEF u

\* A closing parenthesis: the innermost group is an item of the one below, and a branch may be found.
LEMMA ClosingRead ==
  ASSUME NEW S, NEW r \in ReaderOf(S), Stacked(r), r.error = "none", r.class = "none",
         Len(r.open) # 1
  PROVE  LET d == Len(r.open) - 1
             u == ReadToken(r, ")")
         IN  /\ u \in ReaderOf(S) /\ Stacked(u) /\ Len(u.open) = d
             /\ u.error = "none" /\ u.class = "none" /\ u.groups = r.groups
             /\ u.named = r.named /\ u.union = (r.union \/ Branches(r.open[d + 1]))
             /\ \A k \in 1..d : k # d => u.open[k] = r.open[k]
             /\ ItemAdded(r.open[d], u.open[d], Group(r.groups))
<1>1. ReadToken(r, ")") = CloseGroup(r)
  BY DEF ReadToken, Opening
<1> DEFINE u == CloseGroup(r)
<1>3. LET d == Len(r.open) - 1
          n == Len(r.open[d])
      IN  /\ u \in ReaderOf(S) /\ Stacked(u)
          /\ \A x \in {"class", "chars", "groups", "named", "error"} : u[x] = r[x]
          /\ u.union = Walk(r, r.open[d + 1])
          /\ Len(u.open) = d
          /\ \A k \in 1..d : k # d => u.open[k] = r.open[k]
          /\ Len(u.open[d]) = n
          /\ \A a \in 1..n : a # n => u.open[d][a] = r.open[d][a]
          /\ u.open[d][n] = Append(r.open[d][n], Group(r.groups))
  BY CloseGroupIs
<1> HIDE DEF u
<1>4. ItemAdded(r.open[Len(r.open) - 1], u.open[Len(r.open) - 1], Group(r.groups))
  BY <1>3 DEF ItemAdded
<1>5. /\ u.error = "none" /\ u.class = "none" /\ u.groups = r.groups /\ u.named = r.named
  BY <1>3
<1>6. u.union = (r.union \/ Branches(r.open[(Len(r.open) - 1) + 1]))
  BY <1>3 DEF Walk
<1> QED BY <1>1, <1>3, <1>4, <1>5, <1>6 DEF u

-----------------------------------------------------------------------------
(***************************************************************************)
(* The bars that are in no group of characters, a token after the other.   *)
(***************************************************************************)
\* The last parenthesis of a target with a token more.
LEMMA LastMore ==
  ASSUME NEW S, NEW s \in Seq(S), NEW t \in S, NEW p, LastParenthesis(s, p)
  PROVE  /\ t \in {"(", ")"} => LastParenthesis(Append(s, t), Len(s) + 1)
         /\ t \notin {"(", ")"} => LastParenthesis(Append(s, t), p)
<1> DEFINE n == Len(s)
           q == Append(s, t)
<1>1. n \in Nat /\ Len(q) = n + 1 /\ q[n + 1] = t /\ \A j \in 1..n : q[j] = s[j]
  OBVIOUS
<1>2. p \in 0..n /\ (p # 0 => s[p] \in {"(", ")"}) /\ \A j \in (p + 1)..n : s[j] \notin {"(", ")"}
  BY DEF LastParenthesis
<1> HIDE DEF n, q
<1>3. ASSUME t \in {"(", ")"} PROVE LastParenthesis(q, n + 1)
  <2>1. ((n + 1) + 1)..(n + 1) = {} /\ n + 1 \in 0..(n + 1)
    BY <1>1
  <2> QED BY <1>1, <1>3, <2>1 DEF LastParenthesis
<1>4. ASSUME t \notin {"(", ")"} PROVE LastParenthesis(q, p)
  <2>1. p \in 0..(n + 1) /\ (p # 0 => q[p] \in {"(", ")"})
    BY <1>1, <1>2
  <2>2. ASSUME NEW j \in (p + 1)..(n + 1) PROVE q[j] \notin {"(", ")"}
    <3>1. CASE j = n + 1
      BY <1>1, <1>4, <3>1
    <3>2. CASE j # n + 1
      <4>1. j \in (p + 1)..n /\ j \in 1..n
        BY <1>1, <1>2, <3>2
      <4> QED BY <1>1, <1>2, <4>1
    <3> QED BY <3>1, <3>2
  <2> QED BY <1>1, <2>1, <2>2 DEF LastParenthesis
<1> QED BY <1>3, <1>4 DEF n, q

\* A loose bar lies before the last parenthesis, or is any bar behind it.
LEMMA LooseSplit ==
  ASSUME NEW S, NEW s \in Seq(S), NEW p, LastParenthesis(s, p)
  PROVE  Loose(s, Len(s)) <=> Loose(s, p) \/ \E j \in (p + 1)..Len(s) : s[j] = "|"
<1> DEFINE n == Len(s)
<1>1. n \in Nat /\ p \in 0..n
  BY DEF LastParenthesis
<1>2. \A i \in (p + 1)..n : ~InGroupOfCharacters(s, i)
  BY NotYetInGroup
<1> HIDE DEF n
<1>3. \A i : i \in 1..n <=> i \in 1..p \/ i \in (p + 1)..n
  BY <1>1
<1>4. Loose(s, n) <=> Loose(s, p) \/ \E j \in (p + 1)..n : s[j] = "|"
  BY <1>2, <1>3 DEF Loose
<1> QED BY <1>4 DEF n

\* How the loose bars change with a token more: only closing a group of characters takes some away.
LEMMA LooseMore ==
  ASSUME NEW S, NEW s \in Seq(S), NEW t \in S, NEW p, LastParenthesis(s, p), "(?P<n>" \notin S
  PROVE  LET n == Len(s)
             q == Append(s, t)
         IN  /\ Loose(q, p) <=> Loose(s, p)
             /\ ~(t = ")" /\ p # 0 /\ s[p] = "(") => (Loose(q, n) <=> Loose(s, n))
             /\ t = ")" /\ p # 0 /\ s[p] = "(" =>
                   (Loose(q, n) <=>
                      \/ Loose(s, p)
                      \/ (\E j \in (p + 1)..n : s[j] = "|") /\ ~OfCharacters(q, p, n + 1))
             /\ t # "|" => (Loose(q, n + 1) <=> Loose(q, n))
             /\ t = "|" => Loose(q, n + 1)
<1> DEFINE n == Len(s)
           q == Append(s, t)
           closing == t = ")" /\ p # 0 /\ s[p] = "("
           chars == OfCharacters(q, p, n + 1)
<1>1. n \in Nat /\ Len(q) = n + 1 /\ q[n + 1] = t /\ (\A j \in 1..n : q[j] = s[j]) /\ p \in 0..n
  BY DEF LastParenthesis
<1>2. \A i \in 1..n : InGroupOfCharacters(q, i) <=>
                         InGroupOfCharacters(s, i) \/ (closing /\ i > p /\ chars)
  BY InGroupMore
<1>3. \A i \in (p + 1)..n : ~InGroupOfCharacters(s, i)
  BY NotYetInGroup
<1>4. ASSUME t = "|" PROVE ~InGroupOfCharacters(q, n + 1)
  <2>1. LastParenthesis(q, p)
    BY <1>4, LastMore
  <2>2. q \in Seq(S) /\ n + 1 \in (p + 1)..Len(q)
    BY <1>1
  <2> HIDE DEF q, n
  <2> QED BY <2>1, <2>2, NotYetInGroup
<1> HIDE DEF n, q, chars, closing
<1>5. \A i : (i \in 1..n <=> i \in 1..p \/ i \in (p + 1)..n) /\ (i \in 1..p => ~(i > p))
             /\ (i \in (p + 1)..n => i > p)
  BY <1>1
<1>6. Loose(q, p) <=> Loose(s, p)
  BY <1>1, <1>2, <1>5 DEF Loose
<1>7. ~closing => (Loose(q, n) <=> Loose(s, n))
  BY <1>1, <1>2 DEF Loose
<1>8. ASSUME closing
      PROVE  Loose(q, n) <=> Loose(s, p) \/ ((\E j \in (p + 1)..n : s[j] = "|") /\ ~chars)
  <2>1. \A i \in 1..p : InGroupOfCharacters(q, i) <=> InGroupOfCharacters(s, i)
    BY <1>2, <1>5
  <2>2. \A i \in (p + 1)..n : InGroupOfCharacters(q, i) <=> chars
    BY <1>2, <1>3, <1>5, <1>8
  <2>3. Loose(q, n) <=> \/ \E i \in 1..p : s[i] = "|" /\ ~InGroupOfCharacters(q, i)
                        \/ \E i \in (p + 1)..n : s[i] = "|" /\ ~InGroupOfCharacters(q, i)
    BY <1>1, <1>5 DEF Loose
  <2> QED BY <2>1, <2>2, <2>3 DEF Loose
<1>9. \A i : i \in 1..(n + 1) <=> i \in 1..n \/ i = n + 1
  BY <1>1
<1>10. t # "|" => (Loose(q, n + 1) <=> Loose(q, n))
  BY <1>1, <1>9 DEF Loose
<1>11. t = "|" => Loose(q, n + 1)
  BY <1>1, <1>4, <1>9 DEF Loose
<1> QED BY <1>6, <1>7, <1>8, <1>10, <1>11 DEF n, q, chars, closing

-----------------------------------------------------------------------------
\* A literal or a bar more leaves the groups numbered.
LEMMA SameNumbers ==
  ASSUME NEW r, NEW u, NEW d \in Nat, d > 0, Len(r.open) = d, Len(u.open) = d, u.groups = r.groups,
         \A k \in 1..d : k # d => u.open[k] = r.open[k],
         Apart(r.open[d]) => Apart(u.open[d]),
         \A n : AtMost(r.open[d], n) => AtMost(u.open[d], n),
         Numbered(r)
  PROVE  Numbered(u)
<1>1. d \in 1..d
  OBVIOUS
<1>2. \A k \in 1..d : Apart(r.open[k]) /\ AtMost(r.open[k], IF k = d THEN r.groups ELSE r.groups - 1)
  BY DEF Numbered
<1>3. ASSUME NEW k \in 1..d
      PROVE  Apart(u.open[k]) /\ AtMost(u.open[k], IF k = d THEN u.groups ELSE u.groups - 1)
  <2>1. CASE k = d
    BY <1>1, <1>2, <2>1
  <2>2. CASE k # d
    <3>1. u.open[k] = r.open[k]
      BY <2>2
    <3> QED BY <1>2, <2>2, <3>1
  <2> QED BY <2>1, <2>2
<1> QED BY <1>3 DEF Numbered

\* So does a group that is opened.
LEMMA OpenedNumbers ==
  ASSUME NEW S, NEW r \in ReaderOf(S), Stacked(r), Numbered(r), NEW u,
         Len(u.open) = Len(r.open) + 1, u.groups = r.groups + 1,
         \A k \in 1..Len(r.open) : u.open[k] = r.open[k],
         u.open[Len(r.open) + 1] = << <<>> >>
  PROVE  Numbered(u)
<1> DEFINE d == Len(r.open)
           g == r.groups
<1>1. d \in Nat /\ g \in Nat /\ \A k \in 1..d : r.open[k] \in AltsOf(S)
  BY ReaderFields
<1>2. Len(u.open) = d + 1 /\ u.groups = g + 1 /\ (\A k \in 1..d : u.open[k] = r.open[k])
      /\ u.open[d + 1] = << <<>> >>
  OBVIOUS
<1>3. \A k \in 1..d : Apart(r.open[k]) /\ AtMost(r.open[k], IF k = d THEN g ELSE g - 1)
  BY DEF Numbered
<1> HIDE DEF d, g
<1>4. Apart(u.open[d + 1]) /\ AtMost(u.open[d + 1], g + 1)
  <2>1. Len(<< <<>> >>) = 1 /\ << <<>> >>[1] = <<>>
    OBVIOUS
  <2> QED BY <1>2, <2>1, NothingNumbered
<1>5. ASSUME NEW k \in 1..d PROVE Apart(u.open[k]) /\ AtMost(u.open[k], g)
  <2>1. r.open[k] \in AltsOf(S) /\ u.open[k] = r.open[k]
    BY <1>1, <1>2
  <2>2. AtMost(r.open[k], g) \/ AtMost(r.open[k], g - 1)
    BY <1>3
  <2>3. g - 1 \in Int /\ g \in Int /\ g - 1 <= g
    BY <1>1
  <2>4. AtMost(r.open[k], g)
    BY <2>1, <2>2, <2>3, AtMostMore
  <2> QED BY <1>3, <2>1, <2>4
<1>6. (g + 1) - 1 = g /\ \A k \in 1..(d + 1) : k = d + 1 \/ (k \in 1..d /\ k # d + 1)
  BY <1>1
<1> QED BY <1>2, <1>4, <1>5, <1>6 DEF Numbered

\* So does a group that is closed, which is then in the group below.
LEMMA ClosedNumbers ==
  ASSUME NEW S, NEW r \in ReaderOf(S), Stacked(r), Numbered(r), NEW u, NEW d \in Nat, d > 0,
         Len(r.open) = d + 1, Len(u.open) = d, u.groups = r.groups,
         \A k \in 1..d : k # d => u.open[k] = r.open[k],
         ItemAdded(r.open[d], u.open[d], Group(r.groups))
  PROVE  Numbered(u) /\ HasGroup(u.open[d])
<1> DEFINE g == r.groups
           alts == r.open[d]
           new == u.open[d]
<1>1. d \in 1..Len(r.open) /\ d \in 1..d /\ d # Len(r.open)
  OBVIOUS
<1>2. alts \in AltsOf(S) /\ Len(alts) > 0 /\ g \in Nat
  BY <1>1, ReaderAlts, ReaderFields
<1>3. Apart(alts) /\ AtMost(alts, g - 1)
  BY <1>1 DEF Numbered
<1>4. ItemAdded(alts, new, Group(g))
  OBVIOUS
<1>5. \A k \in 1..d : k # d => Apart(r.open[k]) /\ AtMost(r.open[k], g - 1)
  <2> SUFFICES ASSUME NEW k \in 1..d PROVE Apart(r.open[k]) /\ AtMost(r.open[k], g - 1)
    OBVIOUS
  <2>1. k \in 1..Len(r.open) /\ k # Len(r.open)
    OBVIOUS
  <2> QED BY <2>1 DEF Numbered
<1>6. u.groups = g /\ Len(u.open) = d
  OBVIOUS
<1> HIDE DEF g, alts, new
<1>7. Apart(new) /\ AtMost(new, g) /\ HasGroup(new)
  BY <1>2, <1>3, <1>4, GroupMore
<1>8. ASSUME NEW k \in 1..d
      PROVE  Apart(u.open[k]) /\ AtMost(u.open[k], IF k = d THEN g ELSE g - 1)
  <2>1. CASE k = d
    BY <1>7, <2>1 DEF new
  <2>2. CASE k # d
    <3>1. u.open[k] = r.open[k]
      BY <2>2
    <3> QED BY <1>5, <2>2, <3>1
  <2> QED BY <2>1, <2>2
<1> QED BY <1>6, <1>7, <1>8 DEF Numbered, new

-----------------------------------------------------------------------------
(***************************************************************************)
(* The reader inside the quotes: what it has of a target so far, and what  *)
(* it will say of the bars that it has read.                               *)
(***************************************************************************)
Simple == {"a", "b", "(", ")", "|"}
Quoting == Simple \cup {"re.compile", "'"}

\* There is a branch behind the reader, or there will be one when the groups 2
\* to d are closed.
Condemned(r, d) == r.union \/ \E k \in 2..d : Len(r.open[k]) > 1

Standing(s, r, p) ==
    /\ LastParenthesis(s, p)
    /\ r \in ReaderOf(Quoting) /\ Stacked(r) /\ r.error = "none" /\ r.class = "none"
    /\ Len(r.open) = Depth(s, Len(s)) + 2 /\ Len(r.open) >= 2
    /\ Len(r.open[1]) = 1
    /\ Numbered(r)

\* The innermost group has characters and bars so far, from p on.
Fresh(s, r, p) ==
    /\ p # 0 /\ s[p] = "(" /\ Len(r.open) > 2
    /\ \E e : Split(s, p, r.open[Len(r.open)], e)
    /\ Condemned(r, Len(r.open) - 1) <=> Loose(s, p)

\* The innermost group has a group in it, or the reader is in the quotes only.
Mixed(s, r, p) ==
    /\ p # 0 => s[p] = ")" /\ HasGroup(r.open[Len(r.open)])
    /\ p = 0 => Len(r.open) = 2
    /\ Condemned(r, Len(r.open)) <=> Loose(s, Len(s))

Judging(s, r, p) == Standing(s, r, p) /\ (Fresh(s, r, p) \/ Mixed(s, r, p))

\* Alternatives that are as many are condemned alike.
LEMMA CondemnedSame ==
  ASSUME NEW r, NEW u, NEW d, u.union = r.union, \A k \in 2..d : Len(u.open[k]) = Len(r.open[k])
  PROVE  Condemned(u, d) <=> Condemned(r, d)
BY DEF Condemned

\* What a reader that stands inside the quotes consists of.
LEMMA StandingIs ==
  ASSUME NEW s \in Seq(Quoting), NEW r, NEW p, Standing(s, r, p)
  PROVE  /\ LastParenthesis(s, p) /\ r \in ReaderOf(Quoting) /\ Stacked(r)
         /\ r.error = "none" /\ r.class = "none" /\ Numbered(r) /\ Len(r.open[1]) = 1
         /\ Len(r.open) \in Nat /\ Len(r.open) >= 2 /\ Len(r.open) = Depth(s, Len(s)) + 2
         /\ Depth(s, Len(s)) \in Int /\ Len(s) \in Nat /\ p \in 0..Len(s) /\ p \in Nat
         /\ r.open[Len(r.open)] \in AltsOf(Quoting) /\ Len(r.open[Len(r.open)]) > 0
         /\ r.union \in BOOLEAN
<1>1. r \in ReaderOf(Quoting) /\ Stacked(r) /\ LastParenthesis(s, p)
  BY DEF Standing
<1>2. Len(r.open) \in Nat \ {0} /\ r.union \in BOOLEAN
  BY <1>1, ReaderFields
<1>3. Len(r.open) \in 1..Len(r.open)
  BY <1>2
<1>4. r.open[Len(r.open)] \in AltsOf(Quoting) /\ Len(r.open[Len(r.open)]) > 0
  BY <1>1, <1>3, ReaderAlts
<1>5. "a" \in Quoting
  BY DEF Quoting, Simple
<1>6. Depth(s, Len(s)) \in Int
  BY <1>5, DepthMore
<1>7. p \in 0..Len(s)
  BY <1>1 DEF LastParenthesis
<1> QED BY <1>1, <1>2, <1>4, <1>6, <1>7 DEF Standing

\* A character more.
LEMMA CharacterJudged ==
  ASSUME NEW s \in Seq(Quoting), NEW r, NEW p, Judging(s, r, p), NEW t \in {"a", "b"}
  PROVE  Judging(Append(s, t), ReadToken(r, t), p)
<1> DEFINE n == Len(s)
           q == Append(s, t)
           d == Len(r.open)
           u == ReadToken(r, t)
           item == Literal(t)
<1>0. /\ LastParenthesis(s, p) /\ r \in ReaderOf(Quoting) /\ Stacked(r)
      /\ r.error = "none" /\ r.class = "none" /\ Numbered(r) /\ Len(r.open[1]) = 1
      /\ d \in Nat /\ d >= 2 /\ d = Depth(s, n) + 2
      /\ Depth(s, n) \in Int /\ n \in Nat /\ p \in 0..n /\ p \in Nat
      /\ r.open[d] \in AltsOf(Quoting) /\ Len(r.open[d]) > 0
      /\ r.union \in BOOLEAN
  BY StandingIs DEF Judging
<1>1. t \in Quoting /\ t \notin Opening \cup {")", "|", "["} /\ t \notin {"(", ")"}
      /\ "(?P<n>" \notin Quoting /\ t # ")" /\ t # "|"
  BY DEF Quoting, Simple, Opening
<1>2. /\ u \in ReaderOf(Quoting) /\ Stacked(u) /\ Len(u.open) = d
      /\ u.error = "none" /\ u.class = "none" /\ u.groups = r.groups
      /\ u.named = r.named /\ u.union = r.union
      /\ \A k \in 1..d : k # d => u.open[k] = r.open[k]
      /\ ItemAdded(r.open[d], u.open[d], item) /\ item \in Item(Quoting)
  BY <1>0, <1>1, LiteralRead
<1>3. LastParenthesis(q, p)
  BY <1>0, <1>1, LastMore
<1>4. Len(q) = n + 1 /\ \A j \in 1..n : q[j] = s[j]
  BY <1>0
<1>5. Depth(q, n + 1) = Depth(s, n)
  <2>1. Depth(q, n + 1) = Depth(s, n) + 0
    BY <1>1, DepthMore
  <2> HIDE DEF q, n
  <2> QED BY <1>0, <2>1
<1>6. /\ Loose(q, p) <=> Loose(s, p)
      /\ Loose(q, n) <=> Loose(s, n)
      /\ Loose(q, n + 1) <=> Loose(q, n)
  BY <1>0, <1>1, LooseMore
<1>7. item.is # "group"
  BY DEF Literal
<1>8. ItemAdded(r.open[d], u.open[d], Literal(t))
  BY <1>2
<1> HIDE DEF n, q, d, u, item
<1>9. /\ Apart(r.open[d]) => Apart(u.open[d])
      /\ \A m : AtMost(r.open[d], m) => AtMost(u.open[d], m)
      /\ HasGroup(r.open[d]) => HasGroup(u.open[d])
  BY <1>0, <1>2, <1>7, LiteralMore
<1>10. Numbered(u)
  <2>1. d > 0 /\ Len(r.open) = d
    BY <1>0 DEF d
  <2> QED BY <1>0, <1>2, <1>9, <2>1, SameNumbers
<1>11. \A k \in 1..d : Len(u.open[k]) = Len(r.open[k])
  <2>1. Len(u.open[d]) = Len(r.open[d])
    BY <1>2 DEF ItemAdded
  <2> QED BY <1>2, <2>1
<1>12. \A x \in {d, d - 1} : Condemned(u, x) <=> Condemned(r, x)
  <2> SUFFICES ASSUME NEW x \in {d, d - 1} PROVE Condemned(u, x) <=> Condemned(r, x)
    OBVIOUS
  <2>1. \A k \in 2..x : k \in 1..d
    BY <1>0
  <2> QED BY <1>2, <1>11, <2>1, CondemnedSame
<1>13. Standing(q, u, p)
  <2>1. Len(u.open[1]) = 1
    BY <1>0, <1>11, SMTT(30)
  <2> QED BY <1>0, <1>2, <1>3, <1>4, <1>5, <1>10, <2>1 DEF Standing
<1>14. CASE Fresh(s, r, p)
  <2>0. /\ p # 0 /\ s[p] = "(" /\ d > 2
        /\ \E e : Split(s, p, r.open[d], e)
        /\ Condemned(r, d - 1) <=> Loose(s, p)
    BY <1>14 DEF Fresh, d
  <2>1. q[p] = "("
    BY <1>0, <1>4, <2>0
  <2>2. \E e : Split(q, p, u.open[d], e)
    <3>1. PICK e : Split(s, p, r.open[d], e)
      BY <2>0
    <3>2. \E f : Split(Append(s, t), p, u.open[d], f)
      BY <1>0, <1>1, <1>8, <3>1, SplitCharacter
    <3> QED BY <3>2 DEF q
  <2>3. Condemned(u, d - 1) <=> Loose(q, p)
    BY <1>6, <1>12, <2>0
  <2>4. Fresh(q, u, p)
    BY <1>2, <2>0, <2>1, <2>2, <2>3 DEF Fresh
  <2> QED BY <1>13, <2>4 DEF Judging, q, u
<1>15. CASE Mixed(s, r, p)
  <2>0. /\ p # 0 => s[p] = ")" /\ HasGroup(r.open[d])
        /\ p = 0 => d = 2
        /\ Condemned(r, d) <=> Loose(s, n)
    BY <1>15 DEF Mixed, d, n
  <2>1. p # 0 => q[p] = ")" /\ HasGroup(u.open[d])
    BY <1>0, <1>4, <1>9, <2>0
  <2>2. Condemned(u, d) <=> Loose(q, n + 1)
    BY <1>6, <1>12, <2>0
  <2>3. Mixed(q, u, p)
    BY <1>2, <1>4, <2>0, <2>1, <2>2 DEF Mixed
  <2> QED BY <1>13, <2>3 DEF Judging, q, u
<1> QED BY <1>14, <1>15 DEF Judging

\* A bar more.
LEMMA BarJudged ==
  ASSUME NEW s \in Seq(Quoting), NEW r, NEW p, Judging(s, r, p)
  PROVE  Judging(Append(s, "|"), ReadToken(r, "|"), p)
<1> DEFINE n == Len(s)
           t == "|"
           q == Append(s, t)
           d == Len(r.open)
           u == ReadToken(r, t)
<1>0. /\ LastParenthesis(s, p) /\ r \in ReaderOf(Quoting) /\ Stacked(r)
      /\ r.error = "none" /\ r.class = "none" /\ Numbered(r) /\ Len(r.open[1]) = 1
      /\ d \in Nat /\ d >= 2 /\ d = Depth(s, n) + 2
      /\ Depth(s, n) \in Int /\ n \in Nat /\ p \in 0..n /\ p \in Nat
      /\ r.open[d] \in AltsOf(Quoting) /\ Len(r.open[d]) > 0
      /\ r.union \in BOOLEAN
  BY StandingIs DEF Judging
<1>1. t \in Quoting /\ t \notin Opening \cup {")"} /\ t \notin {"(", ")"}
      /\ "(?P<n>" \notin Quoting /\ t # ")" /\ t = "|"
  BY DEF Quoting, Simple, Opening
<1>2. /\ u \in ReaderOf(Quoting) /\ Stacked(u) /\ Len(u.open) = d
      /\ u.error = "none" /\ u.class = "none" /\ u.groups = r.groups
      /\ u.named = r.named /\ u.union = r.union
      /\ \A k \in 1..d : k # d => u.open[k] = r.open[k]
      /\ BarAdded(r.open[d], u.open[d])
  BY <1>0, BarTokenRead
<1> HIDE DEF t
<1>3. LastParenthesis(q, p)
  BY <1>0, <1>1, LastMore
<1>4. Len(q) = n + 1 /\ \A j \in 1..n : q[j] = s[j]
  BY <1>0
<1>5. Depth(q, n + 1) = Depth(s, n)
  <2>1. Depth(q, n + 1) = Depth(s, n) + 0
    BY <1>1, DepthMore
  <2> HIDE DEF q, n
  <2> QED BY <1>0, <2>1
<1>6. (Loose(q, p) <=> Loose(s, p)) /\ Loose(q, n + 1)
  BY <1>0, <1>1, LooseMore
<1> HIDE DEF n, q, d, u
<1>9. /\ Apart(r.open[d]) => Apart(u.open[d])
      /\ \A m : AtMost(r.open[d], m) => AtMost(u.open[d], m)
      /\ HasGroup(r.open[d]) => HasGroup(u.open[d])
  BY <1>0, <1>2, BarMore
<1>10. Numbered(u)
  <2>1. d > 0 /\ Len(r.open) = d
    BY <1>0 DEF d
  <2> QED BY <1>0, <1>2, <1>9, <2>1, SameNumbers
<1>11. Len(u.open[d]) > 1
  <2> DEFINE m == Len(r.open[d])
  <2>1. Len(u.open[d]) = m + 1 /\ m > 0
    BY <1>0, <1>2 DEF BarAdded
  <2>2. m \in Nat
    BY <1>0 DEF AltsOf
  <2> HIDE DEF m
  <2> QED BY <2>1, <2>2
<1>12. Condemned(u, d - 1) <=> Condemned(r, d - 1)
  <2>1. \A k \in 2..(d - 1) : k \in 1..d /\ k # d
    BY <1>0
  <2>2. \A k \in 2..(d - 1) : Len(u.open[k]) = Len(r.open[k])
    BY <1>2, <2>1
  <2> QED BY <1>2, <2>2, CondemnedSame
<1>13. Standing(q, u, p)
  <2>0. 1 \in 1..d /\ 1 # d
    BY <1>0
  <2>1. Len(u.open[1]) = 1
    BY <1>0, <1>2, <2>0
  <2> QED BY <1>0, <1>2, <1>3, <1>4, <1>5, <1>10, <2>1 DEF Standing
<1>14. CASE Fresh(s, r, p)
  <2>0. /\ p # 0 /\ s[p] = "(" /\ d > 2
        /\ \E e : Split(s, p, r.open[d], e)
        /\ Condemned(r, d - 1) <=> Loose(s, p)
    BY <1>14 DEF Fresh, d
  <2>1. q[p] = "("
    BY <1>0, <1>4, <2>0
  <2>2. \E e : Split(q, p, u.open[d], e)
    <3>1. PICK e : Split(s, p, r.open[d], e)
      BY <2>0
    <3>2. \E f : Split(Append(s, t), p, u.open[d], f)
      BY <1>0, <1>1, <1>2, <3>1, SplitBar
    <3> QED BY <3>2 DEF q
  <2>3. Condemned(u, d - 1) <=> Loose(q, p)
    BY <1>6, <1>12, <2>0
  <2>4. Fresh(q, u, p)
    BY <1>2, <2>0, <2>1, <2>2, <2>3 DEF Fresh
  <2> QED BY <1>13, <2>4 DEF Judging, q, u, t
<1>15. CASE Mixed(s, r, p)
  <2>0. /\ p # 0 => s[p] = ")" /\ HasGroup(r.open[d])
        /\ p = 0 => d = 2
    BY <1>15 DEF Mixed, d
  <2>1. p # 0 => q[p] = ")" /\ HasGroup(u.open[d])
    BY <1>0, <1>4, <1>9, <2>0
  <2>2. d \in 2..d
    BY <1>0
  <2>3. Condemned(u, d)
    BY <1>11, <2>2 DEF Condemned
  <2>4. Mixed(q, u, p)
    BY <1>2, <1>4, <1>6, <2>0, <2>1, <2>3 DEF Mixed
  <2> QED BY <1>13, <2>4 DEF Judging, q, u, t
<1> QED BY <1>14, <1>15 DEF Judging

\* A group that is opened: it is fresh, and what it lies in is not.
LEMMA OpeningJudged ==
  ASSUME NEW s \in Seq(Quoting), NEW r, NEW p, Judging(s, r, p)
  PROVE  Judging(Append(s, "("), ReadToken(r, "("), Len(s) + 1)
<1> DEFINE n == Len(s)
           t == "("
           q == Append(s, t)
           d == Len(r.open)
           u == ReadToken(r, t)
<1>0. /\ LastParenthesis(s, p) /\ r \in ReaderOf(Quoting) /\ Stacked(r)
      /\ r.error = "none" /\ r.class = "none" /\ Numbered(r) /\ Len(r.open[1]) = 1
      /\ d \in Nat /\ d >= 2 /\ d = Depth(s, n) + 2
      /\ Depth(s, n) \in Int /\ n \in Nat /\ p \in 0..n /\ p \in Nat
      /\ r.open[d] \in AltsOf(Quoting) /\ Len(r.open[d]) > 0
      /\ r.union \in BOOLEAN
  BY StandingIs DEF Judging
<1>1. t \in Quoting /\ t \in Opening /\ t \in {"(", ")"}
      /\ "(?P<n>" \notin Quoting /\ t # ")" /\ t # "|"
  BY DEF Quoting, Simple, Opening
<1>2. /\ u \in ReaderOf(Quoting) /\ Stacked(u) /\ Len(u.open) = d + 1
      /\ u.error = "none" /\ u.class = "none" /\ u.groups = r.groups + 1
      /\ u.named = r.named /\ u.union = r.union
      /\ \A k \in 1..d : u.open[k] = r.open[k]
      /\ u.open[d + 1] = << <<>> >>
  BY <1>0, OpeningRead
<1>3. Numbered(u)
  BY <1>0, <1>2, OpenedNumbers
<1>4. \E e : Split(q, n + 1, << <<>> >>, e)
  <2>1. Len(<< <<>> >>) = 1 /\ << <<>> >>[1] = <<>>
    OBVIOUS
  <2> DEFINE new == << <<>> >>
  <2>2. Len(new) = 1 /\ new[1] = <<>>
    BY <2>1
  <2> HIDE DEF new, t
  <2>3. \E e : Split(Append(s, t), Len(s) + 1, new, e)
    BY <1>1, <2>2, SplitNew
  <2> QED BY <2>3 DEF new, q, n
<1> HIDE DEF t
<1>5. LastParenthesis(q, n + 1)
  BY <1>0, <1>1, LastMore
<1>6. Len(q) = n + 1 /\ (\A j \in 1..n : q[j] = s[j]) /\ q[n + 1] = t
  BY <1>0
<1>7. Depth(q, n + 1) = Depth(s, n) + 1
  BY <1>1, DepthMore
<1>8. /\ Loose(q, n) <=> Loose(s, n)
      /\ Loose(q, n + 1) <=> Loose(q, n)
  BY <1>0, <1>1, LooseMore
<1> HIDE DEF n, q, d, u
<1>9. Standing(q, u, n + 1)
  <2>1. 1 \in 1..d
    BY <1>0
  <2>2. Len(u.open[1]) = 1
    BY <1>0, <1>2, <2>1
  <2>3. d + 1 = Depth(q, n + 1) + 2 /\ d + 1 >= 2
    BY <1>0, <1>7
  <2> QED BY <1>0, <1>2, <1>3, <1>5, <1>6, <2>2, <2>3 DEF Standing
<1>10. Condemned(u, d) <=> Condemned(r, d)
  <2>1. \A k \in 2..d : Len(u.open[k]) = Len(r.open[k])
    <3>1. \A k \in 2..d : k \in 1..d
      BY <1>0
    <3> QED BY <1>2, <3>1
  <2> QED BY <1>2, <2>1, CondemnedSame
<1>11. Condemned(r, d) <=> Loose(s, n)
  <2>1. CASE Fresh(s, r, p)
    <3>0. /\ p # 0 /\ s[p] = "(" /\ d > 2
          /\ \E e : Split(s, p, r.open[d], e)
          /\ Condemned(r, d - 1) <=> Loose(s, p)
      BY <2>1 DEF Fresh, d
    <3>1. PICK e : Split(s, p, r.open[d], e)
      BY <3>0
    <3> DEFINE z == Append(s, ")")
    <3>2. (\A j \in 1..Len(s) : z[j] = s[j]) /\ z[Len(s) + 1] = ")"
      OBVIOUS
    <3> HIDE DEF z
    <3>3. p > 0 /\ s[p] \in Opening
      BY <1>0, <3>0 DEF Opening
    <3>4. Len(r.open[d]) > 1 <=> \E j \in (p + 1)..((Len(s) + 1) - 1) : s[j] = "|"
      BY <1>0, <3>1, <3>2, <3>3, SplitEdges, SMTT(30)
    <3>5. Loose(s, n) <=> Loose(s, p) \/ \E j \in (p + 1)..n : s[j] = "|"
      BY <1>0, LooseSplit DEF n
    <3>6. (Len(s) + 1) - 1 = n
      BY <1>0 DEF n
    <3>7. \A k : k \in 2..d <=> (k \in 2..(d - 1) \/ k = d)
      BY <1>0
    <3>8. Condemned(r, d) <=> Condemned(r, d - 1) \/ Len(r.open[d]) > 1
      BY <3>7 DEF Condemned
    <3> QED BY <3>0, <3>4, <3>5, <3>6, <3>8
  <2>2. CASE Mixed(s, r, p)
    BY <2>2 DEF Mixed, d, n
  <2> QED BY <2>1, <2>2 DEF Judging
<1>12. Fresh(q, u, n + 1)
  <2>1. n + 1 # 0 /\ d + 1 > 2 /\ (d + 1) - 1 = d
    BY <1>0
  <2>2. q[n + 1] = "("
    BY <1>6 DEF t
  <2> QED BY <1>2, <1>4, <1>8, <1>10, <1>11, <2>1, <2>2 DEF Fresh
<1> QED BY <1>9, <1>12 DEF Judging, q, u, t, n

\* A group that is closed: it is an item of the one that it lies in.
LEMMA ClosingJudged ==
  ASSUME NEW s \in Seq(Quoting), NEW r, NEW p, Judging(s, r, p),
         Depth(Append(s, ")"), Len(s) + 1) >= 0
  PROVE  Judging(Append(s, ")"), ReadToken(r, ")"), Len(s) + 1)
<1> DEFINE n == Len(s)
           t == ")"
           q == Append(s, t)
           d == Len(r.open)
           u == ReadToken(r, t)
<1>0. /\ LastParenthesis(s, p) /\ r \in ReaderOf(Quoting) /\ Stacked(r)
      /\ r.error = "none" /\ r.class = "none" /\ Numbered(r) /\ Len(r.open[1]) = 1
      /\ d \in Nat /\ d >= 2 /\ d = Depth(s, n) + 2
      /\ Depth(s, n) \in Int /\ n \in Nat /\ p \in 0..n /\ p \in Nat
      /\ r.open[d] \in AltsOf(Quoting) /\ Len(r.open[d]) > 0
      /\ r.union \in BOOLEAN
  BY StandingIs DEF Judging
<1>1. t \in Quoting /\ t \notin Opening /\ t \in {"(", ")"}
      /\ "(?P<n>" \notin Quoting /\ t = ")" /\ t # "|"
  BY DEF Quoting, Simple, Opening
<1>2. Depth(q, n + 1) = Depth(s, n) - 1 /\ Depth(q, n + 1) >= 0
  <2>1. Depth(q, n + 1) = Depth(s, n) + (-1)
    BY <1>1, DepthMore
  <2>2. Depth(q, n + 1) >= 0
    OBVIOUS
  <2> HIDE DEF q, n
  <2> QED BY <1>0, <2>1, <2>2
<1>3. d >= 3
  <2> DEFINE x == Depth(q, n + 1)
             y == Depth(s, n)
  <2>1. x = y - 1 /\ x >= 0 /\ y \in Int /\ d = y + 2
    BY <1>0, <1>2
  <2> HIDE DEF x, y, d
  <2> QED BY <2>1, <1>0
<1>4. /\ u \in ReaderOf(Quoting) /\ Stacked(u) /\ Len(u.open) = d - 1
      /\ u.error = "none" /\ u.class = "none" /\ u.groups = r.groups
      /\ u.named = r.named /\ u.union = (r.union \/ Branches(r.open[(d - 1) + 1]))
      /\ \A k \in 1..(d - 1) : k # d - 1 => u.open[k] = r.open[k]
      /\ ItemAdded(r.open[d - 1], u.open[d - 1], Group(r.groups))
  <2>1. Len(r.open) # 1
    BY <1>0
  <2> QED BY <1>0, <2>1, ClosingRead
<1> HIDE DEF t
<1>5. LastParenthesis(q, n + 1)
  BY <1>0, <1>1, LastMore
<1>6. Len(q) = n + 1 /\ (\A j \in 1..n : q[j] = s[j]) /\ q[n + 1] = t
  BY <1>0
<1>7. /\ ~(p # 0 /\ s[p] = "(") => (Loose(q, n) <=> Loose(s, n))
      /\ p # 0 /\ s[p] = "(" =>
            (Loose(q, n) <=>
               \/ Loose(s, p)
               \/ (\E j \in (p + 1)..n : s[j] = "|") /\ ~OfCharacters(q, p, n + 1))
      /\ Loose(q, n + 1) <=> Loose(q, n)
  BY <1>0, <1>1, LooseMore
<1> HIDE DEF n, q, d, u
<1>8. d - 1 \in Nat /\ d - 1 > 0 /\ (d - 1) + 1 = d /\ d \in Nat /\ d > 1
  BY <1>0, <1>3
<1>9. Numbered(u) /\ HasGroup(u.open[d - 1])
  <2> DEFINE c == d - 1
  <2>1. c \in Nat /\ c > 0 /\ Len(r.open) = c + 1 /\ Len(u.open) = c /\ u.groups = r.groups
        /\ (\A k \in 1..c : k # c => u.open[k] = r.open[k])
        /\ ItemAdded(r.open[c], u.open[c], Group(r.groups))
    BY <1>4, <1>8 DEF d
  <2> HIDE DEF c
  <2>2. Numbered(u) /\ HasGroup(u.open[c])
    BY <1>0, <2>1, ClosedNumbers
  <2> QED BY <2>2 DEF c
<1>10. \A k \in 1..(d - 1) : Len(u.open[k]) = Len(r.open[k])
  <2>1. Len(u.open[d - 1]) = Len(r.open[d - 1])
    BY <1>4 DEF ItemAdded
  <2> QED BY <1>4, <2>1
<1>11. Standing(q, u, n + 1)
  <2>1. 1 \in 1..(d - 1)
    BY <1>8
  <2>2. Len(u.open[1]) = 1
    BY <1>0, <1>10, <2>1
  <2>3. d - 1 = Depth(q, n + 1) + 2
    <3> DEFINE x == Depth(q, n + 1)
               y == Depth(s, n)
    <3>1. x = y - 1 /\ y \in Int /\ d = y + 2
      BY <1>0, <1>2
    <3> HIDE DEF x, y
    <3>2. d - 1 = x + 2
      BY <3>1, <1>8
    <3> QED BY <3>2 DEF x
  <2>4. d - 1 >= 2
    BY <1>3, <1>8
  <2> QED BY <1>4, <1>5, <1>6, <1>9, <2>2, <2>3, <2>4 DEF Standing
<1>12. u.union <=> r.union \/ Branches(r.open[d])
  <2>1. (d - 1) + 1 = d
    BY <1>8
  <2>2. u.union = (r.union \/ Branches(r.open[d]))
    BY <1>4, <2>1
  <2> QED BY <2>2, <1>0
<1>13. Condemned(u, d - 1) <=> Condemned(r, d - 1) \/ Branches(r.open[d])
  <2>1. \A k \in 2..(d - 1) : Len(u.open[k]) = Len(r.open[k])
    <3>1. \A k \in 2..(d - 1) : k \in 1..(d - 1)
      BY <1>8
    <3> QED BY <1>10, <3>1
  <2> QED BY <1>12, <2>1 DEF Condemned
<1>14. Condemned(u, d - 1) <=> Loose(q, n + 1)
  <2>1. CASE Fresh(s, r, p)
    <3>0. /\ p # 0 /\ s[p] = "("
          /\ \E e : Split(s, p, r.open[d], e)
          /\ Condemned(r, d - 1) <=> Loose(s, p)
      BY <2>1 DEF Fresh, d
    <3>1. PICK e : Split(s, p, r.open[d], e)
      BY <3>0
    <3>2. (\A j \in 1..Len(s) : q[j] = s[j]) /\ q[Len(s) + 1] = ")"
      BY <1>6 DEF n, t
    <3>3. p > 0 /\ s[p] \in Opening
      BY <1>0, <3>0 DEF Opening
    <3>4. Len(r.open[d]) > 1 <=> \E j \in (p + 1)..((Len(s) + 1) - 1) : s[j] = "|"
      BY <1>0, <3>1, <3>2, <3>3, SplitEdges, SMTT(30)
    <3>5. IsClass(r.open[d]) <=> OfCharacters(q, p, Len(s) + 1)
      BY <1>0, <3>1, <3>2, <3>3, SplitClass
    <3>6. (Len(s) + 1) - 1 = n /\ Len(s) + 1 = n + 1
      BY <1>0 DEF n
    <3>7. Branches(r.open[d]) <=>
             (\E j \in (p + 1)..n : s[j] = "|") /\ ~OfCharacters(q, p, n + 1)
      BY <3>4, <3>5, <3>6 DEF Branches
    <3> QED BY <1>7, <1>13, <3>0, <3>7
  <2>2. CASE Mixed(s, r, p)
    <3>0. /\ p # 0 => s[p] = ")" /\ HasGroup(r.open[d])
          /\ p = 0 => d = 2
          /\ Condemned(r, d) <=> Loose(s, n)
      BY <2>2 DEF Mixed, d, n
    <3>1. p # 0 /\ s[p] # "(" /\ HasGroup(r.open[d])
      BY <3>0, <1>3
    <3>2. Apart(r.open[d])
      <4>1. d \in 1..Len(r.open)
        BY <1>8 DEF d
      <4> QED BY <1>0, <4>1 DEF Numbered
    <3>3. Branches(r.open[d]) <=> Len(r.open[d]) > 1
      BY <1>0, <3>1, <3>2, GroupsBranch
    <3>4. \A k : k \in 2..d <=> (k \in 2..(d - 1) \/ k = d)
      BY <1>8
    <3>5. Condemned(r, d) <=> Condemned(r, d - 1) \/ Len(r.open[d]) > 1
      BY <3>4 DEF Condemned
    <3> QED BY <1>7, <1>13, <3>0, <3>1, <3>3, <3>5
  <2> QED BY <2>1, <2>2 DEF Judging
<1>15. Mixed(q, u, n + 1)
  <2>1. n + 1 # 0
    BY <1>0
  <2>2. q[n + 1] = ")"
    BY <1>6 DEF t
  <2> QED BY <1>4, <1>6, <1>9, <1>14, <2>1, <2>2 DEF Mixed
<1> QED BY <1>11, <1>15 DEF Judging, q, u, t, n

-----------------------------------------------------------------------------
(***************************************************************************)
(* A target as the rule on unions reads it.                                *)
(***************************************************************************)
Inside(s) == <<"re.compile", "(", "'">> \o s

\* A token more comes last inside the quotes.
LEMMA InsideMore ==
  /\ Inside(<<>>) = Append(Append(Append(<<>>, "re.compile"), "("), "'")
  /\ \A s \in Seq(Quoting), t \in Quoting :
        Inside(s) \in Seq(Quoting) /\ Inside(Append(s, t)) = Append(Inside(s), t)
<1> DEFINE start == <<"re.compile", "(", "'">>
<1>1. start \in Seq(Quoting)
  BY DEF Quoting, Simple
<1>2. start = Append(Append(Append(<<>>, "re.compile"), "("), "'")
  OBVIOUS
<1>3. Inside(<<>>) = start
  BY <1>1, ConcatEmptySeq DEF Inside
<1> HIDE DEF start
<1>4. ASSUME NEW s \in Seq(Quoting), NEW t \in Quoting
      PROVE  start \o s \in Seq(Quoting) /\ start \o Append(s, t) = Append(start \o s, t)
  <2>1. start \o s \in Seq(Quoting)
    BY <1>1, ConcatProperties
  <2>2. Append(s, t) = s \o <<t>> /\ Append(start \o s, t) = (start \o s) \o <<t>>
    BY <2>1, AppendIsConcat
  <2>3. <<t>> \in Seq(Quoting)
    OBVIOUS
  <2>4. (start \o s) \o <<t>> = start \o (s \o <<t>>)
    BY <1>1, <2>3, ConcatAssociative
  <2> QED BY <2>1, <2>2, <2>4
<1>5. \A s : Inside(s) = start \o s
  BY DEF Inside, start
<1> QED BY <1>2, <1>3, <1>4, <1>5

Inner(s) == Reading(Inside(s))

\* The reader inside the quotes reads a token more.
LEMMA InnerMore ==
  ASSUME NEW s \in Seq(Quoting), NEW t \in Quoting
  PROVE  Inner(Append(s, t)) = ReadToken(Inner(s), t)
<1> DEFINE z == Inside(s)
<1>1. z \in Seq(Quoting) /\ Inside(Append(s, t)) = Append(z, t)
  BY InsideMore
<1> HIDE DEF z
<1>2. Reading(Append(z, t)) = ReadToken(Reading(z), t)
  BY <1>1, ReadingMore
<1> QED BY <1>1, <1>2 DEF Inner, z

\* Before the target, the reader is in the quotes only, and nothing is condemned.
LEMMA NothingJudged == Judging(<<>>, Inner(<<>>), 0)
<1> DEFINE a == Append(<<>>, "re.compile")
           b == Append(a, "(")
           c == Append(b, "'")
           r0 == Beginning
           r1 == ReadToken(r0, "re.compile")
           r2 == ReadToken(r1, "(")
           r3 == ReadToken(r2, "'")
<1>1. "re.compile" \in Quoting /\ "(" \in Quoting /\ "'" \in Quoting
  BY DEF Quoting, Simple
<1>2. Inner(<<>>) = r3
  <2>0. <<>> \in Seq(Quoting) /\ a \in Seq(Quoting) /\ b \in Seq(Quoting)
    BY <1>1
  <2>1. Reading(<<>>) = r0
    BY ReadingNothing
  <2>2. Reading(a) = ReadToken(Reading(<<>>), "re.compile")
    BY <1>1, <2>0, ReadingMore
  <2> HIDE DEF a
  <2>3. Reading(b) = ReadToken(Reading(a), "(")
    BY <1>1, <2>0, ReadingMore
  <2> HIDE DEF b
  <2>4. Reading(c) = ReadToken(Reading(b), "'")
    BY <1>1, <2>0, ReadingMore
  <2>5. Inside(<<>>) = c
    BY InsideMore DEF a, b
  <2> HIDE DEF c
  <2> QED BY <2>1, <2>2, <2>3, <2>4, <2>5 DEF Inner
<1>3. /\ r0 \in ReaderOf(Quoting) /\ Stacked(r0) /\ r0.error = "none" /\ r0.class = "none"
      /\ Len(r0.open) = 1 /\ r0.open[1] = << <<>> >> /\ r0.groups = 0 /\ r0.union = FALSE
  BY BeginningType DEF Beginning
<1>4. \A t \in {"re.compile", "'"} : t \in Quoting /\ t \notin Opening \cup {")", "|", "["}
  BY <1>1 DEF Opening
<1>5. /\ Len(r0.open[1]) = 1 /\ r0.open[1][1] = <<>>
      /\ Apart(r0.open[1]) /\ \A n : AtMost(r0.open[1], n)
  <2> DEFINE alts == r0.open[1]
  <2>1. Len(alts) = 1 /\ alts[1] = <<>>
    BY <1>3
  <2> HIDE DEF alts, r0
  <2>2. Apart(alts) /\ \A n : AtMost(alts, n)
    BY <2>1, NothingNumbered
  <2> QED BY <2>1, <2>2 DEF alts
<1> HIDE DEF r0
<1>6. Numbered(r0)
  BY <1>3, <1>5 DEF Numbered
<1>7. LET d == Len(r0.open)
      IN  /\ r1 \in ReaderOf(Quoting) /\ Stacked(r1) /\ Len(r1.open) = d
          /\ r1.error = "none" /\ r1.class = "none" /\ r1.groups = r0.groups
          /\ r1.named = r0.named /\ r1.union = r0.union
          /\ \A k \in 1..d : k # d => r1.open[k] = r0.open[k]
          /\ ItemAdded(r0.open[d], r1.open[d], Literal("re.compile"))
          /\ Literal("re.compile") \in Item(Quoting)
  BY <1>3, <1>4, LiteralRead
<1> HIDE DEF r1
<1>8. Len(r1.open) = 1 /\ r1.union = FALSE /\ r1.groups = 0
      /\ ItemAdded(r0.open[1], r1.open[1], Literal("re.compile"))
  BY <1>3, <1>7
<1>9. Len(r1.open[1]) = 1
  BY <1>5, <1>8 DEF ItemAdded
<1>10. \A t : Literal(t).is # "group"
  BY DEF Literal
<1>11. Numbered(r1)
  <2>1. r0.open[1] \in AltsOf(Quoting) /\ Len(r0.open[1]) > 0
    <3>1. 1 \in 1..Len(r0.open)
      BY <1>3
    <3> QED BY <1>3, <3>1, ReaderAlts
  <2>2. Literal("re.compile") \in Item(Quoting)
    BY <1>7
  <2>3. /\ Apart(r0.open[1]) => Apart(r1.open[1])
        /\ \A n : AtMost(r0.open[1], n) => AtMost(r1.open[1], n)
    BY <1>8, <1>10, <2>1, <2>2, LiteralMore
  <2>4. \A k \in 1..1 : k = 1
    OBVIOUS
  <2>5. \A k \in 1..1 : k # 1 => r1.open[k] = r0.open[k]
    BY <2>4
  <2>6. r1.groups = r0.groups
    BY <1>3, <1>8
  <2> DEFINE d == 1
  <2>7. d \in Nat /\ d > 0 /\ Len(r0.open) = d /\ Len(r1.open) = d
    BY <1>3, <1>8
  <2>8. /\ \A k \in 1..d : k # d => r1.open[k] = r0.open[k]
        /\ Apart(r0.open[d]) => Apart(r1.open[d])
        /\ \A n : AtMost(r0.open[d], n) => AtMost(r1.open[d], n)
    BY <2>3, <2>5
  <2> HIDE DEF d
  <2> QED BY <1>6, <2>6, <2>7, <2>8, SameNumbers
<1>12. LET d == Len(r1.open)
       IN  /\ r2 \in ReaderOf(Quoting) /\ Stacked(r2) /\ Len(r2.open) = d + 1
           /\ r2.error = "none" /\ r2.class = "none" /\ r2.groups = r1.groups + 1
           /\ r2.named = r1.named /\ r2.union = r1.union
           /\ \A k \in 1..d : r2.open[k] = r1.open[k]
           /\ r2.open[d + 1] = << <<>> >>
  BY <1>7, OpeningRead
<1> HIDE DEF r2
<1>13. Numbered(r2)
  BY <1>7, <1>11, <1>12, OpenedNumbers
<1>14. /\ Len(r2.open) = 2 /\ r2.union = FALSE /\ Len(r2.open[1]) = 1
       /\ r2.open[2] = << <<>> >> /\ Len(r2.open[2]) = 1
  <2>1. r2.open[2] = << <<>> >> /\ Len(<< <<>> >>) = 1
    BY <1>8, <1>12
  <2> QED BY <1>8, <1>9, <1>12, <2>1
<1>15. LET d == Len(r2.open)
       IN  /\ r3 \in ReaderOf(Quoting) /\ Stacked(r3) /\ Len(r3.open) = d
           /\ r3.error = "none" /\ r3.class = "none" /\ r3.groups = r2.groups
           /\ r3.named = r2.named /\ r3.union = r2.union
           /\ \A k \in 1..d : k # d => r3.open[k] = r2.open[k]
           /\ ItemAdded(r2.open[d], r3.open[d], Literal("'"))
           /\ Literal("'") \in Item(Quoting)
  BY <1>4, <1>12, LiteralRead
<1> HIDE DEF r3
<1>16. /\ Len(r3.open) = 2 /\ r3.union = FALSE /\ r3.open[1] = r2.open[1] /\ Len(r3.open[1]) = 1
       /\ ItemAdded(r2.open[2], r3.open[2], Literal("'")) /\ r3.groups = r2.groups
       /\ Literal("'") \in Item(Quoting)
  BY <1>14, <1>15
<1>17. Len(r3.open[2]) = 1
  BY <1>14, <1>16 DEF ItemAdded
<1>18. Numbered(r3)
  <2>1. r2.open[2] \in AltsOf(Quoting) /\ Len(r2.open[2]) > 0
    <3>1. 2 \in 1..Len(r2.open)
      BY <1>14
    <3> QED BY <1>12, <3>1, ReaderAlts
  <2>3. /\ Apart(r2.open[2]) => Apart(r3.open[2])
        /\ \A n : AtMost(r2.open[2], n) => AtMost(r3.open[2], n)
    BY <1>10, <1>16, <2>1, LiteralMore
  <2>4. \A k \in 1..2 : k # 2 => k = 1
    OBVIOUS
  <2>5. \A k \in 1..2 : k # 2 => r3.open[k] = r2.open[k]
    BY <1>16, <2>4
  <2> DEFINE d == 2
  <2>7. d \in Nat /\ d > 0 /\ Len(r2.open) = d /\ Len(r3.open) = d
    BY <1>14, <1>16
  <2>8. /\ \A k \in 1..d : k # d => r3.open[k] = r2.open[k]
        /\ Apart(r2.open[d]) => Apart(r3.open[d])
        /\ \A n : AtMost(r2.open[d], n) => AtMost(r3.open[d], n)
    BY <2>3, <2>5
  <2> HIDE DEF d
  <2> QED BY <1>13, <1>16, <2>7, <2>8, SameNumbers
<1>19. Depth(<<>>, 0) = 0
  <2> DEFINE A == {j \in 1..0 : <<>>[j] \in Opening}
             B == {j \in 1..0 : <<>>[j] = ")"}
  <2>1. A = {} /\ B = {}
    OBVIOUS
  <2>2. Cardinality({}) = 0
    BY FS_EmptySet
  <2>3. Depth(<<>>, 0) = Cardinality(A) - Cardinality(B)
    BY DEF Depth
  <2> HIDE DEF A, B
  <2> QED BY <2>1, <2>2, <2>3
<1>20. Len(<<>>) = 0 /\ 1..0 = {}
  OBVIOUS
<1>21. LastParenthesis(<<>>, 0)
  BY <1>20 DEF LastParenthesis
<1>22. Standing(<<>>, r3, 0)
  BY <1>15, <1>16, <1>18, <1>19, <1>20, <1>21 DEF Standing
<1>23. ~Loose(<<>>, 0)
  BY <1>20 DEF Loose
<1>24. ~Condemned(r3, 2)
  <2>1. \A k \in 2..2 : k = 2
    OBVIOUS
  <2> QED BY <1>16, <1>17, <2>1 DEF Condemned
<1>25. Mixed(<<>>, r3, 0)
  BY <1>16, <1>20, <1>23, <1>24 DEF Mixed
<1> QED BY <1>2, <1>22, <1>25 DEF Judging

-----------------------------------------------------------------------------
NotBelow(s) == \A i \in 1..Len(s) : Depth(s, i) >= 0

\* A parenthesis that closes nothing does not go away.
LEMMA NotBelowBefore ==
  ASSUME NEW S, NEW s \in Seq(S), NEW t \in S, NotBelow(Append(s, t))
  PROVE  NotBelow(s) /\ Depth(Append(s, t), Len(s) + 1) >= 0
<1> DEFINE n == Len(s)
           q == Append(s, t)
<1>1. n \in Nat /\ Len(q) = n + 1
  OBVIOUS
<1>2. \A i \in 0..n : Depth(q, i) = Depth(s, i)
  BY DepthMore
<1> HIDE DEF n, q
<1>3. \A i \in 1..(n + 1) : Depth(q, i) >= 0
  BY <1>1 DEF NotBelow, q
<1>4. n + 1 \in 1..(n + 1) /\ \A i \in 1..n : i \in 0..n /\ i \in 1..(n + 1)
  BY <1>1
<1> QED BY <1>2, <1>3, <1>4 DEF NotBelow, n, q

\* Reading a target inside the quotes, whatever its length, condemns what has loose bars.
LEMMA AllJudged ==
  ASSUME NEW s \in Seq(Simple), NotBelow(s)
  PROVE  \E p : Judging(s, Inner(s), p)
<1> DEFINE X == {x \in Seq(Simple) : NotBelow(x) => \E p : Judging(x, Inner(x), p)}
<1>1. <<>> \in X
  <2>1. <<>> \in Seq(Simple)
    OBVIOUS
  <2> QED BY <2>1, NothingJudged
<1>2. ASSUME NEW x \in Seq(Simple), NEW t \in Simple, x \in X PROVE Append(x, t) \in X
  <2> DEFINE q == Append(x, t)
             Goal == \E p : Judging(q, Inner(q), p)
  <2>0. x \in Seq(Quoting) /\ t \in Quoting /\ q \in Seq(Simple)
    BY DEF Quoting
  <2>1. ASSUME NotBelow(q) PROVE Goal
    <3>1. NotBelow(x) /\ Depth(q, Len(x) + 1) >= 0
      BY <2>1, NotBelowBefore
    <3>2. PICK p : Judging(x, Inner(x), p)
      BY <1>2, <3>1
    <3>3. Inner(q) = ReadToken(Inner(x), t)
      BY <2>0, InnerMore
    <3> DEFINE r == Inner(x)
    <3>4. Judging(x, r, p)
      BY <3>2
    <3> HIDE DEF r
    <3>5. CASE t \in {"a", "b"}
      <4>1. Judging(Append(x, t), ReadToken(r, t), p)
        BY <2>0, <3>4, <3>5, CharacterJudged
      <4> QED BY <3>3, <4>1 DEF r
    <3>6. CASE t = "|"
      <4>1. Judging(Append(x, "|"), ReadToken(r, "|"), p)
        BY <2>0, <3>4, BarJudged
      <4> QED BY <3>3, <3>6, <4>1 DEF r
    <3>7. CASE t = "("
      <4>1. Judging(Append(x, "("), ReadToken(r, "("), Len(x) + 1)
        BY <2>0, <3>4, OpeningJudged
      <4> QED BY <3>3, <3>7, <4>1 DEF r
    <3>8. CASE t = ")"
      <4>1. Depth(Append(x, ")"), Len(x) + 1) >= 0
        BY <3>1, <3>8
      <4>2. Judging(Append(x, ")"), ReadToken(r, ")"), Len(x) + 1)
        BY <2>0, <3>4, <4>1, ClosingJudged
      <4> QED BY <3>3, <3>8, <4>2 DEF r
    <3> QED BY <3>5, <3>6, <3>7, <3>8 DEF Simple
  <2> HIDE DEF q
  <2> QED BY <2>0, <2>1 DEF q
<1> HIDE DEF X
<1>3. \A x \in Seq(Simple) : x \in X
  BY <1>1, <1>2, SeqSets
<1> QED BY <1>3 DEF X

-----------------------------------------------------------------------------
\* What re says of a target in quotes and parentheses: it is a group more, and
\* there is a branch when a bar is in no group of characters.
Closed(s) == Append(Append(Inside(s), "'"), ")")

\* re takes it in its quotes, and finds a branch when there is a loose bar.
LEMMA ClosedRead ==
  ASSUME NEW s \in Seq(Simple), WellFormed(s), Count(s, Opening) # 0
  PROVE  Read(Closed(s)).error = "none" /\ (Read(Closed(s)).union <=> Loose(s, Len(s)))
<1> DEFINE n == Len(s)
           r == Inner(s)
           r1 == ReadToken(r, "'")
           r2 == ReadToken(r1, ")")
           z == Closed(s)
<1>1. s \in Seq(Quoting) /\ "'" \in Quoting /\ ")" \in Quoting
  BY DEF Quoting, Simple
<1>2. DOMAIN s = 1..n /\ n \in Nat /\ \A j \in 1..n : s[j] \in Simple
  OBVIOUS
<1>3. NotBelow(s) /\ Depth(s, n) = 0
  BY <1>2 DEF WellFormed, NotBelow
<1>4. PICK p : Judging(s, r, p)
  BY <1>3, AllJudged
<1>5. /\ LastParenthesis(s, p) /\ r \in ReaderOf(Quoting) /\ Stacked(r)
      /\ r.error = "none" /\ r.class = "none" /\ Numbered(r) /\ Len(r.open[1]) = 1
      /\ Len(r.open) \in Nat /\ Len(r.open) = Depth(s, Len(s)) + 2 /\ r.union \in BOOLEAN
  <2>1. Standing(s, r, p)
    BY <1>4 DEF Judging
  <2> HIDE DEF r
  <2> QED BY <1>1, <2>1, StandingIs
<1>6. z \in Seq(Quoting) /\ Reading(z) = r2
  <2> DEFINE i == Inside(s)
             i1 == Append(i, "'")
  <2>1. i \in Seq(Quoting) /\ i1 \in Seq(Quoting)
    BY <1>1, InsideMore
  <2> HIDE DEF i
  <2>2. Reading(i1) = ReadToken(Reading(i), "'")
    BY <1>1, <2>1, ReadingMore
  <2> HIDE DEF i1
  <2>3. Reading(Append(i1, ")")) = ReadToken(Reading(i1), ")") /\ Append(i1, ")") \in Seq(Quoting)
    BY <1>1, <2>1, ReadingMore
  <2> QED BY <2>2, <2>3 DEF Inner, Closed, i, i1
<1>7. Len(r.open) = 2
  BY <1>3, <1>5
<1>8. p # 0
  <2>1. Count(s, Opening) # 0 => \E j \in 1..n : s[j] \in Opening
    BY CountNone
  <2>2. PICK j \in 1..n : s[j] \in Opening
    BY <2>1
  <2>3. s[j] = "("
    BY <1>2, <2>2 DEF Simple, Opening
  <2>4. ASSUME p = 0 PROVE FALSE
    <3>1. j \in (p + 1)..Len(s)
      BY <1>2, <2>4
    <3> QED BY <1>5, <2>3, <3>1 DEF LastParenthesis
  <2> QED BY <2>4
<1> HIDE DEF r
<1>9. HasGroup(r.open[2]) /\ (Condemned(r, 2) <=> Loose(s, n))
  BY <1>4, <1>7, <1>8 DEF Judging, Fresh, Mixed
<1>10. Condemned(r, 2) <=> r.union \/ Len(r.open[2]) > 1
  <2>1. \A k : k \in 2..2 <=> k = 2
    OBVIOUS
  <2> QED BY <2>1 DEF Condemned
<1>11. "'" \notin Opening \cup {")", "|", "["}
  BY DEF Opening
<1>12. LET d == Len(r.open)
       IN  /\ r1 \in ReaderOf(Quoting) /\ Stacked(r1) /\ Len(r1.open) = d
           /\ r1.error = "none" /\ r1.class = "none" /\ r1.groups = r.groups
           /\ r1.named = r.named /\ r1.union = r.union
           /\ \A k \in 1..d : k # d => r1.open[k] = r.open[k]
           /\ ItemAdded(r.open[d], r1.open[d], Literal("'"))
           /\ Literal("'") \in Item(Quoting)
  BY <1>1, <1>5, <1>11, LiteralRead
<1> HIDE DEF r1
<1>13. /\ Len(r1.open) = 2 /\ r1.union = r.union /\ r1.open[1] = r.open[1]
       /\ ItemAdded(r.open[2], r1.open[2], Literal("'")) /\ r1.groups = r.groups
       /\ Literal("'") \in Item(Quoting)
  BY <1>7, <1>12
<1>14. /\ Apart(r1.open[2]) /\ HasGroup(r1.open[2]) /\ Len(r1.open[2]) = Len(r.open[2])
       /\ r1.open[2] \in AltsOf(Quoting)
  <2>1. r.open[2] \in AltsOf(Quoting) /\ Len(r.open[2]) > 0
    <3>1. 2 \in 1..Len(r.open)
      BY <1>7
    <3> QED BY <1>5, <3>1, ReaderAlts
  <2>2. r1.open[2] \in AltsOf(Quoting)
    <3>1. 2 \in 1..Len(r1.open)
      BY <1>13
    <3> QED BY <1>12, <3>1, ReaderAlts
  <2>3. Apart(r.open[2])
    <3>1. 2 \in 1..Len(r.open)
      BY <1>7
    <3> QED BY <1>5, <3>1 DEF Numbered
  <2>4. Literal("'").is # "group"
    BY DEF Literal
  <2>5. Apart(r1.open[2]) /\ HasGroup(r1.open[2])
    BY <1>9, <1>13, <2>1, <2>3, <2>4, LiteralMore
  <2>6. Len(r1.open[2]) = Len(r.open[2])
    BY <1>13 DEF ItemAdded
  <2> QED BY <2>2, <2>5, <2>6
<1>15. Branches(r1.open[2]) <=> Len(r.open[2]) > 1
  BY <1>14, GroupsBranch
<1>16. LET d == Len(r1.open) - 1
       IN  /\ r2 \in ReaderOf(Quoting) /\ Stacked(r2) /\ Len(r2.open) = d
           /\ r2.error = "none" /\ r2.class = "none" /\ r2.groups = r1.groups
           /\ r2.named = r1.named /\ r2.union = (r1.union \/ Branches(r1.open[d + 1]))
           /\ \A k \in 1..d : k # d => r2.open[k] = r1.open[k]
           /\ ItemAdded(r1.open[d], r2.open[d], Group(r1.groups))
  <2>1. Len(r1.open) # 1
    BY <1>13
  <2> QED BY <1>12, <2>1, ClosingRead
<1> HIDE DEF r2, z
<1>17. Len(r1.open) - 1 = 1 /\ (Len(r1.open) - 1) + 1 = 2
  BY <1>13
<1>18. /\ Len(r2.open) = 1 /\ r2.error = "none" /\ r2.class = "none"
       /\ r2.union = (r1.union \/ Branches(r1.open[2]))
       /\ ItemAdded(r1.open[1], r2.open[1], Group(r1.groups))
  BY <1>16, <1>17
<1>19. Len(r2.open[1]) = 1
  BY <1>5, <1>13, <1>18 DEF ItemAdded
<1>20. ~Branches(r2.open[1])
  BY <1>19 DEF Branches
<1>21. Read(z).error = "none" /\ Read(z).union = Walk(r2, r2.open[1])
  <2>1. Reading(z).error = "none" /\ Len(Reading(z).open) = 1 /\ Reading(z).class = "none"
    BY <1>6, <1>18
  <2>2. Read(z).error = "none" /\ Read(z).union = Walk(Reading(z), Reading(z).open[1])
    BY <1>6, <2>1, AtEndIs
  <2> QED BY <1>6, <2>2
<1>22. Read(z).union = (r2.union \/ Branches(r2.open[1]))
  BY <1>21 DEF Walk
<1>23. r2.union \in BOOLEAN
  BY <1>16, ReaderFields
<1>24. Read(z).union <=> r.union \/ Len(r.open[2]) > 1
  <2>1. r2.union <=> r.union \/ Len(r.open[2]) > 1
    BY <1>5, <1>13, <1>15, <1>18
  <2> QED BY <1>20, <1>22, <1>23, <2>1
<1> QED BY <1>9, <1>10, <1>21, <1>24 DEF z, n

-----------------------------------------------------------------------------
\* Concatenation is associative, for what is in the quotes.
LEMMA Associative ==
  ASSUME NEW a \in Seq(Quoting), NEW b \in Seq(Quoting), NEW c \in Seq(Quoting)
  PROVE  (a \o b) \o c = a \o (b \o c)
BY ConcatAssociative

\* The parts of what is shown can be put together in either order.
LEMMA Regrouped ==
  ASSUME NEW a \in Seq(Quoting), NEW b \in Seq(Quoting), NEW c \in Seq(Quoting)
  PROVE  a \o ((b \o c) \o b) = ((a \o b) \o c) \o b
<1> DEFINE m == b \o c
<1>1. m \in Seq(Quoting)
  BY ConcatProperties
<1>2. (a \o b) \o c = a \o m
  BY Associative, Zenon
<1> HIDE DEF m
<1>3. (a \o m) \o b = a \o (m \o b)
  BY <1>1, Associative, ZenonT(40)
<1> QED BY <1>2, <1>3, Zenon DEF m

\* What lies in the quotes and parentheses, taken as it is shown.
LEMMA ClosedIs ==
  ASSUME NEW s \in Seq(Quoting)
  PROVE  Closed(s) = (<<"re.compile", "(">> \o ((<<"'">> \o s) \o <<"'">>)) \o <<")">>
<1> DEFINE quote == <<"'">>
           first == <<"re.compile", "(">>
           last == <<")">>
<1>1. quote \in Seq(Quoting) /\ first \in Seq(Quoting) /\ last \in Seq(Quoting)
  BY DEF Quoting, Simple
<1> HIDE DEF quote
<1>2. Closed(s) = (((first \o quote) \o s) \o quote) \o last
  <2>1. <<"re.compile", "(", "'">> = first \o quote
    BY DEF quote
  <2>2. first \o quote \in Seq(Quoting)
    BY <1>1, ConcatProperties
  <2> DEFINE i == (first \o quote) \o s
  <2>3. i \in Seq(Quoting)
    BY <2>2, ConcatProperties
  <2>4. Inside(s) = i
    BY <2>1 DEF Inside
  <2> HIDE DEF i
  <2>5. "'" \in Quoting /\ ")" \in Quoting
    BY DEF Quoting, Simple
  <2>6. Append(i, "'") = i \o quote /\ i \o quote \in Seq(Quoting)
    <3>1. i \o quote \in Seq(Quoting)
      BY <2>3, <1>1, ConcatProperties
    <3>2. Append(i, "'") = i \o <<"'">>
      BY <2>3, <2>5, AppendIsConcat
    <3> QED BY <3>1, <3>2 DEF quote
  <2> DEFINE x == i \o quote
  <2>7. Append(x, ")") = x \o last
    <3>1. x \in Seq(Quoting)
      BY <2>6
    <3> HIDE DEF x
    <3>2. Append(x, ")") = x \o <<")">>
      BY <2>5, <3>1, AppendIsConcat
    <3> QED BY <3>2
  <2> QED BY <2>4, <2>6, <2>7 DEF Closed, i
<1> HIDE DEF first, last
<1>3. first \o ((quote \o s) \o quote) = ((first \o quote) \o s) \o quote
  BY <1>1, Regrouped, ZenonT(40)
<1>4. Closed(s) = (first \o ((quote \o s) \o quote)) \o last
  BY <1>2, <1>3
<1> QED BY <1>4 DEF first, quote, last

\* What str(rule) shows of a plain target that is not cut off.
LEMMA ShownIs ==
  ASSUME NEW s \in Seq(Simple), Len(s) # 0, Len(s) + 2 <= ReprLimit
  PROVE  Shown(s) = Closed(s)
<1> DEFINE n == Len(s)
           one == [i \in 1..n |-> <<s[i]>>]
           f == [i \in 1..n |-> SubSeq(s, 1, i)]
<1>1. n \in Nat \ {0} /\ DOMAIN s = 1..n /\ s \in Seq(Quoting) /\ \A i \in 1..n : s[i] \in Simple
  BY DEF Quoting
<1>2. \A i \in 1..n : <<s[i]>> \in Seq(Quoting) /\ SubSeq(s, 1, i) \in Seq(Quoting)
  <2> SUFFICES ASSUME NEW i \in 1..n
               PROVE  <<s[i]>> \in Seq(Quoting) /\ SubSeq(s, 1, i) \in Seq(Quoting)
    OBVIOUS
  <2>1. s[i] \in Quoting
    BY <1>1 DEF Quoting
  <2>2. \A j \in 1..i : s[j] \in Quoting
    BY <1>1 DEF Quoting
  <2>3. SubSeq(s, 1, i) \in Seq(Quoting)
    BY <2>2, SubSeqProperties
  <2> QED BY <2>1, <2>3
<1>3. FlattenSeq(one) = f[n]
  <2>1. one \in [1..n -> Seq(Quoting)] /\ f \in [1..n -> Seq(Quoting)]
    BY <1>2
  <2>2. f[1] = one[1]
    <3>1. 1 \in 1..n
      BY <1>1
    <3>2. SubSeq(s, 1, 1) = <<s[1]>>
      <4> DEFINE a == SubSeq(s, 1, 1)
                 b == <<s[1]>>
      <4>1. a \in Seq(Quoting) /\ b \in Seq(Quoting)
        BY <1>2, <3>1
      <4>2. Len(a) = 1 /\ a[1] = s[1]
        <5>1. \A j \in 1..1 : s[j] \in Quoting
          BY <1>1 DEF Quoting
        <5>2. /\ Len(a) = IF 1 <= 1 THEN 1 - 1 + 1 ELSE 0
              /\ \A j \in 1..(1 - 1 + 1) : a[j] = s[1 + j - 1]
          BY <5>1, SubSeqProperties
        <5> HIDE DEF a
        <5> QED BY <5>2
      <4>3. Len(b) = 1 /\ b[1] = s[1]
        OBVIOUS
      <4> HIDE DEF a, b
      <4>4. \A j \in 1..Len(a) : a[j] = b[j]
        BY <4>2, <4>3
      <4>5. a = b
        BY <4>1, <4>2, <4>3, <4>4, SeqEqual
      <4> QED BY <4>5 DEF a, b
    <3> QED BY <3>1, <3>2
  <2>3. ASSUME NEW i \in 2..n PROVE f[i] = f[i - 1] \o one[i]
    <3>1. i \in 1..n /\ i - 1 \in 1..n /\ 1 \in 1..n /\ i \in 1..Len(s)
      BY <1>1
    <3>2. SubSeq(s, 1, i) = SubSeq(s, 1, i - 1) \o <<s[i]>>
      BY <1>1, <3>1, SubSeqRecursiveSecond
    <3> QED BY <3>1, <3>2
  <2> HIDE DEF n, one, f
  <2> QED BY <1>1, <2>1, <2>2, <2>3, Flattened
<1>4. f[n] = s
  <2>1. n \in 1..n
    BY <1>1
  <2>2. SubSeq(s, 1, Len(s)) = s
    BY <1>1, SubSeqFull
  <2> QED BY <2>1, <2>2
<1>5. [i \in DOMAIN s |-> Spelled(s[i])] = one
  <2>1. \A t \in Simple : Spelled(t) = <<t>>
    BY DEF Spelled, Simple
  <2> QED BY <1>1, <2>1
<1> DEFINE quote == <<"'">>
           flat == FlattenSeq([i \in DOMAIN s |-> Spelled(s[i])])
           q == (quote \o s) \o quote
           first == <<"re.compile", "(">>
           last == <<")">>
<1>6. Quoted(s) = q
  <2>1. flat = s
    BY <1>3, <1>4, <1>5
  <2>2. Quoted(s) = (quote \o flat) \o quote
    BY DEF Quoted
  <2> HIDE DEF flat
  <2> QED BY <2>1, <2>2
<1> HIDE DEF flat, one, f
<1>7. quote \in Seq(Quoting) /\ first \in Seq(Quoting) /\ last \in Seq(Quoting) /\ Len(quote) = 1
  BY DEF Quoting, Simple
<1> HIDE DEF quote
<1>8. quote \o s \in Seq(Quoting) /\ q \in Seq(Quoting) /\ Len(q) = n + 2
  <2>1. quote \o s \in Seq(Quoting) /\ Len(quote \o s) = 1 + n
    BY <1>1, <1>7, ConcatProperties
  <2> DEFINE half == quote \o s
  <2> HIDE DEF half
  <2>2. half \o quote \in Seq(Quoting) /\ Len(half \o quote) = (1 + n) + 1
    BY <1>7, <2>1, ConcatProperties DEF half
  <2>3. (1 + n) + 1 = n + 2
    BY <1>1
  <2> QED BY <2>1, <2>2, <2>3 DEF half
<1>9. SubSeq(q, 1, IF Len(q) < ReprLimit THEN Len(q) ELSE ReprLimit) = q
  <2>1. n + 2 <= ReprLimit /\ ReprLimit \in Nat
    BY DialectAssumption
  <2>2. (IF n + 2 < ReprLimit THEN n + 2 ELSE ReprLimit) = n + 2
    BY <1>1, <2>1
  <2>3. (IF Len(q) < ReprLimit THEN Len(q) ELSE ReprLimit) = Len(q)
    BY <1>8, <2>2
  <2> HIDE DEF q
  <2>4. SubSeq(q, 1, Len(q)) = q
    BY <1>8, SubSeqFull
  <2> QED BY <2>3, <2>4
<1>10. Shown(s) = (first \o q) \o last
  <2>1. Shown(s) = (first \o SubSeq(q, 1, IF Len(q) < ReprLimit THEN Len(q) ELSE ReprLimit)) \o last
    BY <1>6 DEF Shown
  <2> HIDE DEF q, first, last
  <2> QED BY <1>9, <2>1
<1>11. Closed(s) = (first \o q) \o last
  BY <1>1, ClosedIs DEF quote
<1> QED BY <1>10, <1>11

\* A plain target is accepted exactly when it is well formed, has the group that
\* is asked for, no names and no union but one that re reads as a class of
\* characters.
THEOREM PlainTargetsAreJudged == Spec => []PlainJudged
<1>1. ASSUME TypeOK PROVE PlainJudged
  <2> DEFINE s == target
             n == Len(s)
             named == Count(s, {"(?P<n>"})
  <2> SUFFICES ASSUME Plain(s), NEW g \in Groups
               PROVE  Validate(s, g) = "accepted" <=> Acceptable(s, g)
    BY DEF PlainJudged
  <2>1. s \in Seq(Tokens) /\ n \in Nat /\ DOMAIN s = 1..n
    BY <1>1 DEF TypeOK
  <2> HIDE DEF s
  <2>2. s \in Seq(PlainTokens) /\ \A i \in 1..n : s[i] \in PlainTokens
    BY <2>1, PlainTarget
  <2>3. Validate(s, g) = "accepted" <=>
            /\ WellFormed(s) /\ Count(s, Opening) # 0 /\ Count(s, {"(?P<n>"}) = 0
            /\ ~(g > Count(s, Opening)) /\ UnionKind(s) = "accepted"
    BY <2>1, Judged
  <2>4. named = 0 <=> \A i \in DOMAIN s : s[i] # "(?P<n>"
    BY <2>1, CountNone
  <2> HIDE DEF named
  <2>5. ASSUME named = 0
        PROVE  /\ s \in Seq(Simple)
               /\ Count(s, Opening) = Cardinality({i \in DOMAIN s : s[i] = "("})
               /\ Count(s, Opening) # 0 <=> \E i \in DOMAIN s : s[i] = "("
    <3>1. \A i \in 1..n : s[i] \in Simple
      BY <2>1, <2>2, <2>4, <2>5 DEF PlainTokens, Simple, Opening
    <3>2. \A i \in 1..n : s[i] \in Opening <=> s[i] = "("
      BY <3>1 DEF Simple, Opening
    <3>3. {j \in 1..n : s[j] \in Opening} = {i \in DOMAIN s : s[i] = "("}
      BY <2>1, <3>2
    <3>4. Count(s, Opening) = 0 <=> \A j \in 1..n : s[j] \notin Opening
      BY <2>1, CountNone
    <3>5. Count(s, Opening) = Cardinality({i \in DOMAIN s : s[i] = "("})
      BY <3>3 DEF Count
    <3>6. Count(s, Opening) # 0 <=> \E i \in DOMAIN s : s[i] = "("
      BY <2>1, <3>2, <3>4
    <3>7. s \in Seq(Simple)
      BY <2>1, <3>1
    <3> QED BY <3>5, <3>6, <3>7
  <2>6. ASSUME named = 0, WellFormed(s), Count(s, Opening) # 0
        PROVE  UnionKind(s) = "accepted" <=> ~Loose(s, n)
    <3>1. s \in Seq(Simple)
      BY <2>5, <2>6
    <3>2. n # 0
      <4>1. PICK i \in DOMAIN s : s[i] = "("
        BY <2>5, <2>6
      <4>2. i \in 1..n /\ n \in Nat
        BY <2>1
      <4> HIDE DEF n
      <4> QED BY <4>2
    <3>3. n + 2 <= ReprLimit
      BY DEF Plain
    <3>4. Shown(s) = Closed(s)
      BY <3>1, <3>2, <3>3, ShownIs
    <3> DEFINE r == Read(Closed(s))
    <3>5. r.error = "none" /\ (r.union <=> Loose(s, n))
      BY <2>6, <3>1, ClosedRead
    <3> HIDE DEF r
    <3>6. Read(Shown(s)) = r
      BY <3>4 DEF r
    <3>7. UnionKind(s) = IF r.error # "none" THEN "re.error"
                         ELSE IF r.union THEN "UNION_FORBIDDEN" ELSE "accepted"
      BY <3>6 DEF UnionKind
    <3> QED BY <3>5, <3>7
  <2>7. ~Loose(s, n) <=> \A i \in DOMAIN s : s[i] = "|" =>
           \E o \in 1..i - 1, c \in i + 1..Len(s) :
               s[o] \in Opening /\ s[c] = ")" /\ OfCharacters(s, o, c)
    BY <2>1 DEF Loose, InGroupOfCharacters
  <2>8. ~(g > Count(s, Opening)) <=> g <= Count(s, Opening)
    <3> DEFINE m == Count(s, Opening)
    <3>1. m \in Nat /\ g \in Int
      BY <2>1, CountType, DialectAssumption
    <3> HIDE DEF m
    <3>2. ~(g > m) <=> g <= m
      BY <3>1
    <3> QED BY <3>2 DEF m
  <2>9. Acceptable(s, g) <=>
           /\ WellFormed(s)
           /\ \E i \in DOMAIN s : s[i] = "("
           /\ named = 0
           /\ ~Loose(s, n)
           /\ g <= Cardinality({i \in DOMAIN s : s[i] = "("})
    BY <2>4, <2>7 DEF Acceptable
  <2>10. CASE named = 0
    BY <2>3, <2>5, <2>6, <2>8, <2>9, <2>10 DEF named
  <2>11. CASE named # 0
    BY <2>3, <2>9, <2>11 DEF named
  <2> QED BY <2>10, <2>11
<1> QED BY <1>1, Types, PTL

=============================================================================
