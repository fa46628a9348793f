------------------------------ MODULE SqlParse ------------------------------
(***************************************************************************)
(* The recursive-descent Parser of crates/dbt-xdbc/src/sql/types.rs, over  *)
(* the token sequence the tokenizer yields.  A production returns Ok(v,    *)
(* rest), the value and the tokens it did not consume, or Err(e), the      *)
(* ParseError variant; `?` is the IF ~r.ok THEN r that every step repeats. *)
(***************************************************************************)
EXTENDS SqlTypes

Ok(v, rest) == [ok |-> TRUE, v |-> v, rest |-> rest]
Err(e) == [ok |-> FALSE, err |-> e]

\* The `?` operator: on Ok(v, rest) go on with F(v, rest), pass an Err up.
Bind(r, F(_, _)) == IF r.ok THEN F(r.v, r.rest) ELSE r

\* Parser::next: the next token, or UnexpectedEndOfInput.
NextTok(ts) == IF ts = <<>> THEN Err("UnexpectedEndOfInput") ELSE Ok(Head(ts), Tail(ts))

\* Parser::expect.
Expect(ts, tok) ==
    IF ts = <<>> THEN Err("UnexpectedEndOfInput")
    ELSE IF Head(ts) = tok THEN Ok(tok, Tail(ts)) ELSE Err("Unexpected")

\* Parser::match_ / match_word: whether the next token is `tok`; when it
\* is, it is consumed (Skip).
Matches(ts, tok) == ts # <<>> /\ Head(ts) = tok
Skip(ts, tok) == IF Matches(ts, tok) THEN Tail(ts) ELSE ts

\* Parser::next_int::<T>: `str::parse::<T>` of a word accepts the decimal
\* words of T's range; any other word is a ParseIntError.
NextInt(ts, range) ==
    CASE ts = <<>>                               -> Err("UnexpectedEndOfInput")
      [] Head(ts) \in Punct                      -> Err("Unexpected")
      [] \E n \in range : Num(n) = Head(ts)      ->
            Ok(CHOOSE n \in range : Num(n) = Head(ts), Tail(ts))
      [] OTHER                                   -> Err("ParseIntError")

\* Parser::precision: an optional `( n )`.
Precision(ts, range) ==
    IF ~Matches(ts, "(") THEN Ok(None, ts)
    ELSE LET n == NextInt(Tail(ts), range) IN
         IF ~n.ok THEN n
         ELSE LET c == Expect(n.rest, ")") IN
              IF ~c.ok THEN c ELSE Ok(n.v, c.rest)

\* A precision_and_scale that reads the scale and drops it.
PrecisionAndScaleNoScale(ts) ==
    IF ~Matches(ts, "(") THEN Ok(None, ts)
    ELSE LET p == NextInt(Tail(ts), U8) IN
         IF ~p.ok THEN p
         ELSE LET s == IF Matches(p.rest, ",") THEN NextInt(Tail(p.rest), I8)
                       ELSE Ok(None, p.rest) IN
              IF ~s.ok THEN s
              ELSE LET c == Expect(s.rest, ")") IN
                   IF ~c.ok THEN c ELSE Ok([p |-> p.v, s |-> None], c.rest)

\* Parser::precision_and_scale: an optional `( p [, s] )`.
PrecisionAndScale(ts) ==
    IF ~Matches(ts, "(") THEN Ok(None, ts)
    ELSE LET p == NextInt(Tail(ts), U8) IN
         IF ~p.ok THEN p
         ELSE LET s == IF Matches(p.rest, ",") THEN NextInt(Tail(p.rest), I8)
                       ELSE Ok(None, p.rest) IN
              IF ~s.ok THEN s
              ELSE LET c == Expect(s.rest, ")") IN
                   IF ~c.ok THEN c ELSE Ok([p |-> p.v, s |-> s.v], c.rest)

\* Parser::time_zone_spec.
TimeZoneSpecP(ts) ==
    IF Matches(ts, "WITH") \/ Matches(ts, "WITHOUT")
    THEN LET local == Head(ts) = "WITH" /\ Matches(Tail(ts), "LOCAL")
             r1 == Expect(IF local THEN Tail(Tail(ts)) ELSE Tail(ts), "TIME")
             r2 == IF r1.ok THEN Expect(r1.rest, "ZONE") ELSE r1
         IN IF ~r2.ok THEN r2
            ELSE Ok(CASE Head(ts) = "WITHOUT" -> "Without"
                      [] local -> "Local"
                      [] OTHER -> "With", r2.rest)
    ELSE Ok("Unspecified", ts)

\* Parser::datetime_field: consumes the next token if it names a field.
DateTimeFieldP(ts) ==
    IF ts # <<>> /\ Head(ts) \in DateTimeFields THEN Ok(Head(ts), Tail(ts))
    ELSE Ok(None, ts)

\* Parser::interval_qualifier.
IntervalQualifier(ts) ==
    LET s == DateTimeFieldP(ts) IN
    CASE s.v = None -> Ok(None, ts)
      [] Matches(s.rest, "TO") ->
            LET e == DateTimeFieldP(Tail(s.rest)) IN
            IF e.v = None THEN Err("ExpectedDateTimeField")
            ELSE Ok([start |-> s.v, end |-> e.v], e.rest)
      [] OTHER -> Ok([start |-> s.v, end |-> None], s.rest)

\* Parser::nullable: Some(false) for NOT NULL, Some(true) for NULLABLE.
NullableP(ts) ==
    CASE Matches(ts, "NOT") ->
            LET r == Expect(Tail(ts), "NULL") IN IF r.ok THEN Ok(FALSE, r.rest) ELSE r
      [] Matches(ts, "NULLABLE") -> Ok(TRUE, Tail(ts))
      [] OTHER -> Ok(None, ts)

-----------------------------------------------------------------------------
(* parse_inner's keyword table, the words that need no further token.      *)
SimpleKeywords ==
    [w \in {"BOOLEAN", "BOOL", "TINYINT", "BYTEINT", "SMALLINT", "INT2", "SMALLSERIAL",
           "SERIAL2", "INTEGER", "INT", "INT4", "SERIAL", "SERIAL4", "BIGINT", "INT64",
           "INT8", "BIGSERIAL", "SERIAL8", "REAL", "FLOAT8", "FLOAT64", "STRING", "TEXT",
           "CLOB", "BLOB", "VARBINARY", "BYTES", "BYTEA", "DATE", "TIMETZ", "TIMESTAMPTZ",
           "JSON", "JSONB", "GEOMETRY", "GEOGRAPHY", "VARIANT", "VOID"} |->
       CASE w \in {"BOOLEAN", "BOOL"} -> Scalar("Boolean")
         [] w \in {"TINYINT", "BYTEINT"} -> Scalar("TinyInt")
         [] w \in {"SMALLINT", "INT2", "SMALLSERIAL", "SERIAL2"} -> Scalar("SmallInt")
         [] w \in {"INTEGER", "INT", "INT4", "SERIAL", "SERIAL4"} -> Scalar("Integer")
         [] w \in {"BIGINT", "INT64", "INT8", "BIGSERIAL", "SERIAL8"} -> Scalar("BigInt")
         [] w = "REAL" -> Scalar("Real")
         [] w \in {"FLOAT8", "FLOAT64"} -> Scalar("Double")
         [] w = "STRING" -> CharT("Varchar", None)
         [] w = "TEXT" -> Scalar("Text")
         [] w = "CLOB" -> Scalar("Clob")
         [] w = "BLOB" -> Scalar("Blob")
         [] w \in {"VARBINARY", "BYTES", "BYTEA"} -> Scalar("Binary")
         [] w = "DATE" -> Scalar("Date")
         [] w = "TIMETZ" -> TimeT("Time", None, "With")
         [] w = "TIMESTAMPTZ" -> TimeT("Timestamp", None, "With")
         [] w = "JSON" -> Scalar("Json")
         [] w = "JSONB" -> Scalar("Jsonb")
         [] w = "GEOMETRY" -> Scalar("Geometry")
         [] w = "GEOGRAPHY" -> Scalar("Geography")
         [] w = "VARIANT" -> Scalar("Variant")
         [] OTHER -> Scalar("Void")]

\* FLOAT [(p)], FLOAT4, DOUBLE [PRECISION].
ParseFloat(w, ts, d) ==
    CASE w = "FLOAT" ->
            LET p == Precision(ts, U8) IN IF p.ok THEN Ok(FloatT(p.v), p.rest) ELSE p
      [] w = "FLOAT4" ->
            Ok(IF d \in PgFamily THEN Scalar("Real") ELSE FloatT(None), ts)
      [] OTHER -> Ok(Scalar("Double"), Skip(ts, "PRECISION"))

\* DECIMAL | NUMERIC | NUMBER and BIGDECIMAL | BIGNUMERIC.
ParseNumeric(w, ts) ==
    LET ps == PrecisionAndScale(ts) IN
    IF ~ps.ok THEN ps
    ELSE Ok(NumericT(IF w \in {"BIGDECIMAL", "BIGNUMERIC"} THEN "BigNumeric"
                     ELSE "Numeric", ps.v), ps.rest)

\* CHAR | CHARACTER | NCHAR, NATIONAL CHAR, VARCHAR | NVARCHAR and BINARY.
ParseChar(w, ts) ==
    CASE w = "BINARY" -> IF Matches(ts, "LARGE")
                         THEN LET o == Expect(Tail(ts), "OBJECT") IN
                              IF o.ok THEN Ok(Scalar("Blob"), o.rest) ELSE o
                         ELSE Ok(Scalar("Binary"), ts)
      [] w \in {"VARCHAR", "NVARCHAR"} ->
            LET n == Precision(ts, Usize) IN IF n.ok THEN Ok(CharT("Varchar", n.v), n.rest) ELSE n
      [] w # "NATIONAL" /\ Matches(ts, "LARGE") ->
            LET o == Expect(Tail(ts), "OBJECT") IN IF o.ok THEN Ok(Scalar("Clob"), o.rest) ELSE o
      [] OTHER ->
            LET c == IF w = "NATIONAL" THEN Expect(ts, "CHAR") ELSE Ok(w, ts)
                varying == c.ok /\ Matches(c.rest, "VARYING")
                n == IF c.ok THEN Precision(Skip(c.rest, "VARYING"), Usize) ELSE c
            IN IF ~n.ok THEN n
               ELSE Ok(CharT(IF varying THEN "Varchar" ELSE "Char", n.v), n.rest)

\* TIME, TIMESTAMP, TIMESTAMP_NTZ, TIMESTAMP_TZ and DATETIME.
ParseTime(w, ts, d) ==
    LET p == Precision(ts, U8)
        z == IF p.ok /\ w \in {"TIME", "TIMESTAMP"} THEN TimeZoneSpecP(p.rest) ELSE p
    IN CASE ~p.ok -> p
         [] ~z.ok -> z
         [] w = "TIME" ->
               Ok(TimeT("Time", p.v, IF z.v = "Unspecified" THEN "Without" ELSE z.v), z.rest)
         [] w = "TIMESTAMP" -> Ok(TimeT("Timestamp", p.v, z.v), z.rest)
         [] w = "TIMESTAMP_NTZ" -> Ok(TimeT("Timestamp", p.v, "Without"), p.rest)
         [] w = "TIMESTAMP_TZ" -> Ok(TimeT("Timestamp", p.v, "With"), p.rest)
         [] d = "Snowflake" -> Ok(TimeT("Timestamp", p.v, "Without"), p.rest)
         [] OTHER -> Ok(Scalar("DateTime"), p.rest)

\* INTERVAL [qualifier] with the SECOND(p) and bare (p) sub-second forms.
ParseInterval(ts) ==
    LET q == IntervalQualifier(ts) IN
    IF ~q.ok THEN q
    ELSE LET secondAt == IF q.v = None THEN "none"
                         ELSE IF q.v.end = None THEN IF q.v.start = "SECOND" THEN "start" ELSE "no"
                         ELSE IF q.v.end = "SECOND" THEN "end" ELSE "no"
             p == IF secondAt = "no" THEN Ok(None, q.rest) ELSE Precision(q.rest, U8)
         IN CASE ~p.ok -> p
              [] p.v = None -> Ok(IntervalT(q.v), p.rest)
              [] secondAt = "end" ->
                    Ok(IntervalT([start |-> q.v.start, end |-> FromPrecision(p.v)]), p.rest)
              [] OTHER -> Ok(IntervalT([start |-> FromPrecision(p.v), end |-> None]), p.rest)

\* The Other(..) arm: the first word, then every token up to NOT or NULL.
ParseOther(w, ts) ==
    LET stop == {i \in 1..Len(ts) : ts[i] \in {"NOT", "NULL"}}
        n == IF stop = {} THEN Len(ts) ELSE CHOOSE i \in stop : \A j \in stop : i <= j
        gathered == IF stop = {} THEN ts ELSE SubSeq(ts, 1, n - 1)
    IN Ok(OtherT(OtherPayload(w, gathered)), SubSeq(ts, Len(gathered) + 1, Len(ts)))

-----------------------------------------------------------------------------
RECURSIVE ParseUnconstrained(_, _), ParseConstrained(_, _), ParseInner(_, _),
          StructFields(_, _, _, _), Postfix(_, _, _)

\* parse_unconstrained_type's `while self.match_(LBracket)` loop.
Postfix(ty, ts, d) ==
    IF d \in PgFamily \cup {"Generic"} /\ Matches(ts, "[")
    THEN Bind(Expect(Tail(ts), "]"), LAMBDA b, r : Postfix(ArrayT(ty), r, d))
    ELSE Ok(ty, ts)

\* Parser::parse_unconstrained_type.
ParseUnconstrained(ts, d) ==
    Bind(ParseInner(ts, d), LAMBDA ty, r : Postfix(ty, r, d))

\* Parser::parse_constrained_type: the type, then the Option<bool> of nullable.
ParseConstrained(ts, d) ==
    Bind(ParseUnconstrained(ts, d), LAMBDA ty, r :
        Bind(NullableP(r), LAMBDA nl, r2 : Ok([ty |-> ty, nullable |-> nl], r2)))

\* Parser::struct_fields, the loop with the fields read so far in `acc`.
\* word2ident of a plain word is Ident::Plain(word).
StructFields(ts, d, term, acc) ==
    LET n == NextTok(ts) IN
    CASE ~n.ok -> n
      [] n.v = term -> Ok(acc, n.rest)
      [] n.v \in Punct -> Err("Unexpected")
      [] OTHER ->
           Bind(ParseConstrained(n.rest, d), LAMBDA c, r :
             Bind(NextTok(r), LAMBDA sep, r2 :
               LET acc2 == Append(acc, Field(n.v, c.ty,
                                            IF c.nullable = None THEN TRUE ELSE c.nullable))
               IN CASE sep = "," -> StructFields(r2, d, term, acc2)
                    [] sep = term -> Ok(acc2, r2)
                    [] OTHER -> Err("Unexpected")))

\* Parser::parse_inner.
ParseInner(ts, d) ==
    LET n == NextTok(ts)
        w == n.v
        rest == n.rest
    IN CASE ~n.ok -> n
         [] w = "(" ->
               IF d \in PgFamily \cup {"Generic"}
               THEN Bind(StructFields(rest, d, ")", <<>>), LAMBDA f, r : Ok(StructT(f), r))
               ELSE Err("Unexpected")
         [] w \in Punct -> Err("Unexpected")
         [] w \in DOMAIN SimpleKeywords -> Ok(SimpleKeywords[w], rest)
         [] w \in {"FLOAT", "FLOAT4", "DOUBLE"} -> ParseFloat(w, rest, d)
         [] w \in {"DECIMAL", "NUMERIC", "NUMBER", "BIGDECIMAL", "BIGNUMERIC"} ->
               ParseNumeric(w, rest)
         [] w \in {"CHAR", "CHARACTER", "NCHAR", "VARCHAR", "NVARCHAR", "NATIONAL",
                   "BINARY"} -> ParseChar(w, rest)
         [] w \in {"TIME", "TIMESTAMP", "TIMESTAMP_NTZ", "DATETIME", "TIMESTAMP_TZ"} ->
               ParseTime(w, rest, d)
         [] w = "INTERVAL" -> ParseInterval(rest)
         [] w = "ARRAY" ->
               IF ~Matches(rest, "<") THEN Ok(ArrayT(None), rest)
               ELSE Bind(ParseUnconstrained(Tail(rest), d), LAMBDA i, r :
                      Bind(Expect(r, ">"), LAMBDA c, r2 : Ok(ArrayT(i), r2)))
         [] w = "STRUCT" ->
               IF ~Matches(rest, "<") THEN Ok(StructT(None), rest)
               ELSE Bind(StructFields(Tail(rest), d, ">", <<>>), LAMBDA f, r : Ok(StructT(f), r))
         [] w = "MAP" ->
               IF ~Matches(rest, "<") THEN Ok(MapT(None), rest)
               ELSE Bind(ParseUnconstrained(Tail(rest), d), LAMBDA k, r :
                      Bind(Expect(r, ","), LAMBDA c, r2 :
                        Bind(ParseUnconstrained(r2, d), LAMBDA v, r3 :
                          Bind(Expect(r3, ">"), LAMBDA e, r4 :
                            Ok(MapT([key |-> k, val |-> v]), r4)))))
         [] OTHER -> ParseOther(w, rest)

\* Parser::parse: parse_constrained_type with nullability defaulting to true.
\* The tokens after the type are left unread, as in the code.
Parse(ts, d) ==
    Bind(ParseConstrained(ts, d), LAMBDA c, r :
        Ok([ty |-> c.ty, nullable |-> IF c.nullable = None THEN TRUE ELSE c.nullable], r))

\* SqlType::parse on a rendered string.
ParseString(s, d) == Parse(Tokenize(s), d)

=============================================================================
