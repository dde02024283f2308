-------------------------- MODULE TopicNameProofs --------------------------
(***************************************************************************)
(* Proofs about topic_name_from_avro_schema: on every namespace in         *)
(* ScannableNs it returns exactly the topic the specification's rule       *)
(* gives, for every buffer length and every alphabet.                      *)
(***************************************************************************)
EXTENDS TopicName, SequenceTheorems, TLAPS

(* The first n characters of s \o t, when s has at most n: s followed by  *)
(* the first n - Len(s) characters of t.                                    *)
LEMMA TakeConcat ==
  ASSUME NEW S, NEW s \in Seq(S), NEW t \in Seq(S),
         NEW n \in Nat, n >= Len(s)
  PROVE  Take(s \o t, n) = s \o Take(t, n - Len(s))
<1> DEFINE m == Lesser(n, Len(s) + Len(t))
           k == Lesser(n - Len(s), Len(t))
<1>1. m \in 0 .. Len(s) + Len(t) /\ k \in 0 .. Len(t) /\ m = Len(s) + k
  BY DEF Lesser
<1>2. /\ s \o t \in Seq(S)
      /\ Len(s \o t) = Len(s) + Len(t)
      /\ \A i \in 1 .. Len(s) + Len(t) :
            (s \o t)[i] = IF i <= Len(s) THEN s[i] ELSE t[i - Len(s)]
  BY ConcatProperties
<1>3. /\ Take(s \o t, n) \in Seq(S)
      /\ Len(Take(s \o t, n)) = m
      /\ \A i \in 1 .. m : Take(s \o t, n)[i] = (s \o t)[i]
  BY <1>1, <1>2, SubSeqProperties DEF Take
<1>4. /\ Take(t, n - Len(s)) \in Seq(S)
      /\ Len(Take(t, n - Len(s))) = k
      /\ \A i \in 1 .. k : Take(t, n - Len(s))[i] = t[i]
  BY <1>1, SubSeqProperties DEF Take
<1>5. /\ s \o Take(t, n - Len(s)) \in Seq(S)
      /\ Len(s \o Take(t, n - Len(s))) = m
      /\ \A i \in 1 .. m : (s \o Take(t, n - Len(s)))[i] =
            IF i <= Len(s) THEN s[i] ELSE Take(t, n - Len(s))[i - Len(s)]
  <2> DEFINE u == Take(t, n - Len(s))
  <2>1. u \in Seq(S)
    BY <1>4
  <2>2. /\ s \o u \in Seq(S)
        /\ Len(s \o u) = Len(s) + Len(u)
        /\ \A i \in 1 .. Len(s) + Len(u) :
              (s \o u)[i] = IF i <= Len(s) THEN s[i] ELSE u[i - Len(s)]
    BY <2>1, ConcatProperties
  <2>. QED  BY <2>2, <1>1, <1>4
<1>6. \A i \in 1 .. m : Take(s \o t, n)[i] = (s \o Take(t, n - Len(s)))[i]
  <2> SUFFICES ASSUME NEW i \in 1 .. m
               PROVE  Take(s \o t, n)[i] = (s \o Take(t, n - Len(s)))[i]
    OBVIOUS
  <2>1. Take(s \o t, n)[i] = (s \o t)[i]
    BY <1>3
  <2>2. i \in 1 .. Len(s) + Len(t)
    BY <1>1
  <2>3. CASE i <= Len(s)
    BY <2>1, <2>2, <2>3, <1>2, <1>5
  <2>4. CASE i > Len(s)
    <3>1. i - Len(s) \in 1 .. k
      BY <2>4, <1>1
    <3>2. Take(t, n - Len(s))[i - Len(s)] = t[i - Len(s)]
      BY <3>1, <1>4
    <3>. QED  BY <2>1, <2>2, <2>4, <3>2, <1>2, <1>5
  <2>5. Len(s) \in Nat
    BY LenProperties
  <2>6. i <= Len(s) \/ i > Len(s)
    BY <2>2, <2>5
  <2>. QED  BY <2>6, <2>3, <2>4
<1>. QED  BY <1>3, <1>5, <1>6, SeqEqual

(* A prefix at least as long as the sequence is the sequence. *)
LEMMA TakeAll ==
  ASSUME NEW S, NEW s \in Seq(S), NEW n \in Nat, n >= Len(s)
  PROVE  Take(s, n) = s
BY SubSeqFull DEF Take, Lesser

(* The empty prefix. *)
LEMMA TakeNone ==
  ASSUME NEW s
  PROVE  Take(s, 0) = << >>
BY SubSeqEmpty DEF Take, Lesser
(* The format's literal is a string of the alphabet without blanks. *)
LEMMA LiteralType ==
  /\ Literal \in Seq(Chars \ Blank)
  /\ Len(Literal) = Len(GeneratedNs) + 1
BY TopicNameAssumption, ConcatProperties DEF Literal

(* sscanf fails to match when a character of the literal differs. *)
LEMMA ScanMismatch ==
  ASSUME NEW ns, Mismatch(ns)
  PROVE  Scan(ns) = [matched |-> 0, word |-> << >>]
BY DEF Scan

(***************************************************************************)
(* On a namespace without blanks that carries the whole literal and more,  *)
(* sscanf converts once and %s reads everything after the literal.         *)
(***************************************************************************)
LEMMA ScanGenerated ==
  ASSUME NEW ns \in Seq(Chars \ Blank), ~Mismatch(ns),
         Len(ns) > Len(Literal)
  PROVE  Scan(ns) = [matched |-> 1,
                     word |-> SubSeq(ns, Len(Literal) + 1, Len(ns))]
<1> DEFINE n == Len(Literal)
           rest == SubSeq(ns, n + 1, Len(ns))
           starts == {i \in 1 .. Len(rest) : rest[i] \notin Blank}
           start == CHOOSE i \in starts : \A j \in starts : i <= j
           stops == {j \in start .. Len(rest) + 1 :
                        j = Len(rest) + 1 \/ rest[j] \in Blank}
           stop == CHOOSE j \in stops : \A k \in stops : j <= k
<1>1. n \in Nat /\ Len(ns) \in Nat
  BY LiteralType, LenProperties
<1>2. /\ rest \in Seq(Chars \ Blank)
      /\ Len(rest) = Len(ns) - n
      /\ \A i \in 1 .. Len(rest) : rest[i] = ns[n + i]
  <2>1. \A i \in n + 1 .. Len(ns) : ns[i] \in Chars \ Blank
    BY <1>1, ElementOfSeq
  <2>. QED  BY <1>1, <2>1, SubSeqProperties
<1>3. starts = 1 .. Len(rest)
  BY <1>2
<1>4. start = 1
  <2>1. 1 \in starts /\ \A j \in starts : 1 <= j
    BY <1>1, <1>2, <1>3
  <2>2. \A i \in starts : (\A j \in starts : i <= j) => i = 1
    BY <1>1, <1>2, <1>3
  <2>. QED  BY <2>1, <2>2
<1>5. \A j \in 1 .. Len(rest) : rest[j] \notin Blank
  BY <1>2, ElementOfSeq
<1>6. stop = Len(rest) + 1
  <2> HIDE DEF start, stop
  <2>1. Len(rest) \in Nat
    BY <1>1, <1>2
  <2>2. Len(rest) + 1 \in stops
    <3>1. Len(rest) + 1 \in start .. Len(rest) + 1
      BY <2>1, <1>4
    <3>. QED  BY <3>1, Zenon
  <2>3. \A k \in stops : k = Len(rest) + 1
    <3> SUFFICES ASSUME NEW k \in stops PROVE k = Len(rest) + 1
      OBVIOUS
    <3>1. k \in 1 .. Len(rest) + 1
      BY <1>4
    <3>2. k = Len(rest) + 1 \/ rest[k] \in Blank
      OBVIOUS
    <3>3. k \in 1 .. Len(rest) => rest[k] \notin Blank
      BY <1>5
    <3>4. k = Len(rest) + 1 \/ k \in 1 .. Len(rest)
      BY <2>1, <3>1
    <3>. QED  BY <3>2, <3>3, <3>4, Zenon
  <2>4. \A k \in stops : Len(rest) + 1 <= k
    <3> HIDE DEF stops
    <3>. QED  BY <2>1, <2>3
  <2>5. stop \in stops
    BY <2>2, <2>4, Zenon DEF stop
  <2>. QED  BY <2>3, <2>5
<1>7. SubSeq(rest, start, stop - 1) = rest
  <2>1. SubSeq(rest, 1, Len(rest)) = rest
    BY <1>2, SubSeqFull
  <2> HIDE DEF start, stop
  <2>. QED  BY <2>1, <1>1, <1>2, <1>4, <1>6
<1>8. ~(Len(ns) <= n \/ starts = {})
  BY <1>1, <1>2, <1>3
<1>. QED  BY <1>7, <1>8 DEF Scan
(* A namespace that differs from the literal is not a generated one. *)
LEMMA SpecRejected ==
  ASSUME NEW ns \in Seq(Chars), NEW tbl, Mismatch(ns)
  PROVE  SpecTopicName(ns, tbl) = Take(tbl, BufLen - 1)
<1> DEFINE n == Len(Literal)
<1>1. n \in Nat /\ Len(ns) \in Nat
  BY LiteralType, LenProperties
<1>2. PICK i \in 1 .. Lesser(n, Len(ns)) : ns[i] # Literal[i]
  BY DEF Mismatch
<1>3. ~(Len(ns) > n /\ SubSeq(ns, 1, n) = Literal)
  <2> SUFFICES ASSUME Len(ns) > n, SubSeq(ns, 1, n) = Literal PROVE FALSE
    OBVIOUS
  <2>1. i \in 1 .. n
    BY <1>1, <1>2 DEF Lesser
  <2>2. SubSeq(ns, 1, n)[i] = ns[i]
    BY <1>1, <2>1, ElementOfSeq, SubSeqProperties
  <2>. QED  BY <1>2, <2>2
<1>. QED  BY <1>3 DEF SpecTopicName

(* A namespace that carries the whole literal and more is generated, and  *)
(* its schema part is what follows the literal.                            *)
LEMMA SpecGenerated ==
  ASSUME NEW ns \in Seq(Chars), NEW tbl, ~Mismatch(ns),
         Len(ns) > Len(Literal)
  PROVE  LET schema == SubSeq(ns, Len(Literal) + 1, Len(ns))
         IN  SpecTopicName(ns, tbl) =
               IF schema = Public THEN Take(tbl, BufLen - 1)
               ELSE Take(schema \o <<Dot>> \o tbl, BufLen - 1)
<1> DEFINE n == Len(Literal)
<1>1. n \in Nat /\ Len(ns) \in Nat
  BY LiteralType, LenProperties
<1>2. \A i \in 1 .. n : ns[i] = Literal[i]
  BY <1>1 DEF Mismatch, Lesser
<1>3. SubSeq(ns, 1, n) = Literal
  <2>1. \A i \in 1 .. n : ns[i] \in Chars
    BY <1>1, ElementOfSeq
  <2>2. /\ SubSeq(ns, 1, n) \in Seq(Chars)
        /\ Len(SubSeq(ns, 1, n)) = n
        /\ \A i \in 1 .. n : SubSeq(ns, 1, n)[i] = ns[i]
    BY <1>1, <2>1, SubSeqProperties
  <2>3. Literal \in Seq(Chars)
    BY LiteralType, SeqMonotonic
  <2>. QED  BY <1>2, <2>2, <2>3, SeqEqual
<1>. QED  BY <1>3 DEF SpecTopicName
(***************************************************************************)
(* The two clamped strncat calls of the else branch build the first       *)
(* BufLen - 1 characters of schema "." table, whenever the schema itself  *)
(* fits (Len(w) < BufLen): the room left for the dot and for the table is  *)
(* computed right, including when the schema fills the buffer.             *)
(***************************************************************************)
LEMMA AppendTableAgrees ==
  ASSUME NEW w \in Seq(Chars), NEW tbl \in Seq(Chars), Len(w) < BufLen
  PROVE  AppendTable(w, tbl) = Take(w \o <<Dot>> \o tbl, BufLen - 1)
<1> DEFINE k == BufLen - 1 - Len(w)
           d == <<Dot>>
<1>1. /\ Len(w) \in Nat /\ BufLen \in Nat \ {0} /\ k \in Nat
      /\ d \in Seq(Chars) /\ Len(d) = 1
  BY TopicNameAssumption, LenProperties
<1>2. d \o tbl \in Seq(Chars) /\ Len(d \o tbl) = 1 + Len(tbl)
  BY <1>1, ConcatProperties
<1>3. w \o d \o tbl = w \o (d \o tbl)
  BY <1>1, ConcatAssociative
<1>4. Take(w \o (d \o tbl), BufLen - 1) = w \o Take(d \o tbl, k)
  <2>1. BufLen - 1 \in Nat /\ BufLen - 1 >= Len(w)
    BY <1>1
  <2>. QED  BY <2>1, <1>2, TakeConcat
<1>5. CASE k = 0
  <2>1. Take(d, BufLen - Len(w) - 1) = << >>
    <3>1. BufLen - Len(w) - 1 = 0
      BY <1>1, <1>5
    <3>. QED  BY <3>1, TakeNone
  <2>2. Take(tbl, BufLen - Len(w \o << >>) - 1) = << >>
    BY <1>1, <1>5, ConcatEmptySeq, TakeNone
  <2>3. Take(d \o tbl, k) = << >>
    BY <1>5, TakeNone
  <2>. QED  BY <1>1, <1>3, <1>4, <2>1, <2>2, <2>3, ConcatEmptySeq
              DEF AppendTable, StrNCat
<1>6. CASE k > 0
  <2>1. Take(d, BufLen - Len(w) - 1) = d
    <3>1. BufLen - Len(w) - 1 \in Nat /\ BufLen - Len(w) - 1 >= Len(d)
      BY <1>1, <1>6
    <3>. QED  BY <3>1, <1>1, TakeAll
  <2>2. w \o d \in Seq(Chars) /\ Len(w \o d) = Len(w) + 1
    BY <1>1, ConcatProperties
  <2>3. Take(d \o tbl, k) = d \o Take(tbl, k - 1)
    <3>1. k \in Nat /\ k >= Len(d) /\ k - Len(d) = k - 1
      BY <1>1, <1>6
    <3>. QED  BY <3>1, <1>1, TakeConcat
  <2>4. Take(tbl, k - 1) \in Seq(Chars)
    BY <1>1, <1>6, SubSeqProperties, ElementOfSeq DEF Take, Lesser
  <2>5. (w \o d) \o Take(tbl, k - 1) = w \o (d \o Take(tbl, k - 1))
    BY <1>1, <2>4, ConcatAssociative
  <2>6. BufLen - Len(w \o d) - 1 = k - 1
    BY <1>1, <2>2
  <2>. QED  BY <1>3, <1>4, <2>1, <2>3, <2>5, <2>6 DEF AppendTable, StrNCat
<1>. QED  BY <1>1, <1>5, <1>6
(***************************************************************************)
(* topic_name_from_avro_schema is deterministic on every namespace of      *)
(* ScannableNs and returns exactly the topic of the specification's rule:  *)
(* the sscanf literal match, the "public" test and the clamped strncpy and *)
(* strncat calls, for every buffer length and every GENERATED namespace.  *)
(***************************************************************************)
THEOREM TopicNameTotal ==
  ASSUME NEW ns \in ScannableNs, NEW tbl \in Seq(Chars)
  PROVE  TopicNameFromAvroSchema(ns, tbl) = {SpecTopicName(ns, tbl)}
<1>1. ns \in Seq(Chars \ Blank) /\ ns \in Seq(Chars)
  BY SeqMonotonic DEF ScannableNs
<1>2. CASE Mismatch(ns)
  <2>1. Scan(ns) = [matched |-> 0, word |-> << >>]
    BY <1>2, ScanMismatch
  <2>2. SpecTopicName(ns, tbl) = Take(tbl, BufLen - 1)
    BY <1>1, <1>2, SpecRejected
  <2>. QED  BY <2>1, <2>2 DEF TopicNameFromAvroSchema, StrNCpyClamp
<1>3. CASE ~Mismatch(ns)
  <2> DEFINE w == SubSeq(ns, Len(Literal) + 1, Len(ns))
  <2>1. Len(ns) > Len(Literal) /\ Len(ns) - Len(Literal) < BufLen
    BY <1>3 DEF ScannableNs
  <2>2. Scan(ns) = [matched |-> 1, word |-> w]
    BY <1>1, <1>3, <2>1, ScanGenerated
  <2>3. SpecTopicName(ns, tbl) =
          IF w = Public THEN Take(tbl, BufLen - 1)
          ELSE Take(w \o <<Dot>> \o tbl, BufLen - 1)
    BY <1>1, <1>3, <2>1, SpecGenerated
  <2>4. w \in Seq(Chars) /\ Len(w) < BufLen
    <3>1. Len(Literal) \in Nat /\ Len(ns) \in Nat
      BY LiteralType, LenProperties
    <3>2. \A i \in Len(Literal) + 1 .. Len(ns) : ns[i] \in Chars
      BY <1>1, <3>1, ElementOfSeq
    <3>. QED  BY <2>1, <3>1, <3>2, SubSeqProperties
  <2>5. CASE w = Public
    BY <2>2, <2>3, <2>4, <2>5, TopicNameAssumption
       DEF TopicNameFromAvroSchema, StrNCpyClamp
  <2>6. CASE w # Public
    <3>1. AppendTable(w, tbl) = Take(w \o <<Dot>> \o tbl, BufLen - 1)
      BY <2>4, AppendTableAgrees
    <3>. QED  BY <2>2, <2>3, <2>4, <2>6, <3>1, TopicNameAssumption
                DEF TopicNameFromAvroSchema
  <2>. QED  BY <2>5, <2>6
<1>. QED  BY <1>2, <1>3

(***************************************************************************)
(* When every namespace on_table_schema receives is scannable, the topic   *)
(* it computes for the last schema is always the one the specification's  *)
(* rule gives (the property the topic_generated run checks).               *)
(***************************************************************************)
THEOREM TopicNameSpecCorrect ==
  ASSUME Namespaces \subseteq ScannableNs
  PROVE  Spec => []TopicNameMatchesSpec
<1>1. Init => TopicNameMatchesSpec
  <2> SUFFICES ASSUME Init PROVE TopicNameMatchesSpec
    OBVIOUS
  <2>1. schemaNs \in ScannableNs /\ schemaName \in Seq(Chars)
    BY TopicNameAssumption DEF Init
  <2>. QED  BY <2>1, TopicNameTotal DEF Init, TopicNameMatchesSpec
<1>2. [Next]_vars /\ TopicNameMatchesSpec => TopicNameMatchesSpec'
  <2> SUFFICES ASSUME [Next]_vars, TopicNameMatchesSpec
               PROVE  TopicNameMatchesSpec'
    OBVIOUS
  <2>1. CASE Next
    <3>1. PICK n \in Namespaces, t \in Tables : OnTableSchemaTopic(n, t)
      BY <2>1 DEF Next
    <3>2. n \in ScannableNs /\ t \in Seq(Chars)
      BY TopicNameAssumption
    <3>. QED  BY <3>1, <3>2, TopicNameTotal
                DEF OnTableSchemaTopic, TopicNameMatchesSpec
  <2>2. CASE UNCHANGED vars
    BY <2>2 DEF vars, TopicNameMatchesSpec
  <2>. QED  BY <2>1, <2>2
<1>. QED  BY <1>1, <1>2, PTL DEF Spec
=============================================================================
