--------------------------- MODULE MC_TopicName ---------------------------
(* Small alphabets for TopicName: "p" stands for GENERATED_SCHEMA_NAMESPACE, *)
(* "u" for the word public, " " for a blank.  BufLen = 5 against names of   *)
(* at most 3 characters keeps the proportion of NAMEDATALEN (64) to         *)
(* TABLE_NAME_BUFFER_LENGTH (128): a name alone always fits, a             *)
(* schema-qualified name may be clamped.                                    *)
EXTENDS TopicName

MCGeneratedNs == <<"p">>

MCPublic == <<"u">>

MCChars == {"p", "a", "u", ".", " "}

(* Postgres identifiers, as the Avro schema generator emits them.          *)
MCIdents == UNION {[1 .. m -> {"p", "a", "u"}] : m \in 1 .. 3}

(* Namespaces the generator produces, and foreign ones (avro-c before 1.8  *)
(* passes "dummy") that share no prefix with GENERATED_SCHEMA_NAMESPACE.   *)
MCGeneratedNamespaces ==
  {<<"p", ".">> \o i : i \in MCIdents} \cup {<<"a">>, <<"a", "p">>, <<"u", ".", "a">>}

(* Any namespace of at most 3 characters, the empty one included.          *)
MCAnyNamespaces == UNION {[1 .. m -> MCChars] : m \in 0 .. 3}
=============================================================================
