----------------------------- MODULE TopicName -----------------------------
(***************************************************************************)
(* topic_name_from_avro_schema (src/kafka/bottledwater.c): the Kafka topic *)
(* of a table, computed by on_table_schema from the Avro record's          *)
(* namespace and name.  Strings are sequences of characters; the C buffer  *)
(* topic_name[TABLE_NAME_BUFFER_LENGTH] is BufLen bytes with its NUL.      *)
(* A call whose behaviour is undefined yields Undefined among its outcomes *)
(* (an uninitialized read or an overflow of topic_name).                   *)
(***************************************************************************)
EXTENDS Integers, Sequences

CONSTANTS
  Chars,          \* the characters of the alphabet
  Blank,          \* the characters isspace() accepts
  GeneratedNs,    \* GENERATED_SCHEMA_NAMESPACE, without the '.'
  Dot,            \* the character '.'
  Public,         \* the string "public"
  BufLen,         \* TABLE_NAME_BUFFER_LENGTH
  Undefined,      \* the outcome of undefined behaviour
  Namespaces,     \* namespaces of the row schemas on_table_schema receives
  Tables          \* names of those schemas (the table names)

ASSUME TopicNameAssumption ==
  /\ Blank \subseteq Chars /\ Dot \in Chars \ Blank
  /\ GeneratedNs \in Seq(Chars \ Blank)
  /\ BufLen \in Nat \ {0}
  /\ Namespaces \subseteq Seq(Chars) /\ Tables \subseteq Seq(Chars)

(* The literal part of sscanf's format, GENERATED_SCHEMA_NAMESPACE ".".   *)
Literal == GeneratedNs \o <<Dot>>

Lesser(a, b) == IF a < b THEN a ELSE b

(* The first n characters of s, at most. *)
Take(s, n) == SubSeq(s, 1, Lesser(n, Len(s)))

(***************************************************************************)
(* sscanf(namespace, GENERATED_SCHEMA_NAMESPACE ".%s", topic_name).  The   *)
(* literal is matched character by character: a differing character is a  *)
(* matching failure (0 conversions); running out of input first is an      *)
(* input failure before the first conversion, and sscanf returns EOF (-1). *)
(* %s skips blanks, then reads the longest run of non-blanks; an input     *)
(* that ends before a non-blank is again EOF.                              *)
(***************************************************************************)
Mismatch(ns) ==
  \E i \in 1 .. Lesser(Len(Literal), Len(ns)) : ns[i] # Literal[i]

Scan(ns) ==
  LET n == Len(Literal)
      rest == SubSeq(ns, n + 1, Len(ns))
      starts == {i \in 1 .. Len(rest) : rest[i] \notin Blank}
      start == CHOOSE i \in starts : \A j \in starts : i <= j
      stops == {j \in start .. Len(rest) + 1 :
                   j = Len(rest) + 1 \/ rest[j] \in Blank}
      stop == CHOOSE j \in stops : \A k \in stops : j <= k
  IN  IF Mismatch(ns) THEN [matched |-> 0, word |-> <<>>]
      ELSE IF Len(ns) <= n \/ starts = {} THEN [matched |-> -1, word |-> <<>>]
      ELSE [matched |-> 1, word |-> SubSeq(rest, start, stop - 1)]

(* strncpy(topic_name, table_name, BufLen); topic_name[BufLen - 1] = '\0' *)
StrNCpyClamp(s) == Take(s, BufLen - 1)

(* strncat(d, s, n): append at most n characters of s. *)
StrNCat(d, s, n) == d \o Take(s, n)

(* Variant of AppendTable whose second strncat leaves no room for the    *)
(* terminating NUL.                                                        *)
AppendTableNoNul(schema, tbl) ==
  LET withDot == StrNCat(schema, <<Dot>>, BufLen - Len(schema) - 1)
  IN  StrNCat(withDot, tbl, BufLen - Len(withDot))

(* The else branch: append "." and the table name, each time clamped to   *)
(* the room left in the buffer.                                            *)
AppendTable(schema, tbl) ==
  LET withDot == StrNCat(schema, <<Dot>>, BufLen - Len(schema) - 1)
  IN  StrNCat(withDot, tbl, BufLen - Len(withDot) - 1)

(***************************************************************************)
(* The possible results of topic_name_from_avro_schema(ns, tbl).  When     *)
(* sscanf returns EOF, !matched is false and strcmp reads topic_name,      *)
(* which nothing initialized: either branch may be taken on garbage.  A    *)
(* schema word of BufLen characters or more overflows topic_name.          *)
(***************************************************************************)
TopicNameFromAvroSchema(ns, tbl) ==
  LET r == Scan(ns)
  IN  IF r.matched = 1 /\ Len(r.word) >= BufLen THEN {Undefined}
      ELSE IF r.matched = -1 THEN {StrNCpyClamp(tbl), Undefined}
      ELSE IF r.matched = 0 \/ r.word = Public THEN {StrNCpyClamp(tbl)}
      ELSE {AppendTable(r.word, tbl)}

(***************************************************************************)
(* The rule the specification states: the table name when the namespace   *)
(* is not GENERATED_PREFIX.<pg_schema> or pg_schema is public, else        *)
(* pg_schema.table, clamped to BufLen bytes with the terminator.           *)
(***************************************************************************)
SpecTopicName(ns, tbl) ==
  LET generated == Len(ns) > Len(Literal)
                   /\ SubSeq(ns, 1, Len(Literal)) = Literal
      schema == SubSeq(ns, Len(Literal) + 1, Len(ns))
  IN  IF ~generated \/ schema = Public
        THEN Take(tbl, BufLen - 1)
        ELSE Take(schema \o <<Dot>> \o tbl, BufLen - 1)

(***************************************************************************)
(* The namespaces on which the function is defined: no blanks (an Avro     *)
(* namespace is a dotted name), and either not a prefix of the literal or *)
(* longer than it, with a schema part that fits the buffer.               *)
(***************************************************************************)
ScannableNs ==
  {ns \in Seq(Chars \ Blank) :
      \/ Mismatch(ns)
      \/ Len(ns) > Len(Literal) /\ Len(ns) - Len(Literal) < BufLen}

-----------------------------------------------------------------------------
(***************************************************************************)
(* on_table_schema computes the topic of each schema event it receives:    *)
(* schemaNs and schemaName are the namespace and name of the last row     *)
(* schema, topic the string the call returned.                             *)
(***************************************************************************)
VARIABLES schemaNs, schemaName, topic

vars == <<schemaNs, schemaName, topic>>

OnTableSchemaTopic(n, t) ==
  /\ schemaNs' = n /\ schemaName' = t
  /\ topic' \in TopicNameFromAvroSchema(n, t)

Init ==
  /\ schemaNs \in Namespaces /\ schemaName \in Tables
  /\ topic \in TopicNameFromAvroSchema(schemaNs, schemaName)

Next == \E n \in Namespaces, t \in Tables : OnTableSchemaTopic(n, t)

Spec == Init /\ [][Next]_vars

(***************************************************************************)
(* The topic computed by topic_name_from_avro_schema is the one the        *)
(* specification's rule gives: the sscanf prefix match, the "public" test  *)
(* and the strncpy/strncat clamping together agree with the rule, and no   *)
(* input makes the function read uninitialized memory or overflow.         *)
(***************************************************************************)
TopicNameMatchesSpec == topic = SpecTopicName(schemaNs, schemaName)
=============================================================================
