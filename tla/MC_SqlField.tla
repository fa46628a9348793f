---------------------------- MODULE MC_SqlField ----------------------------
(* Model values and bounds for SqlField. *)
EXTENDS SqlField

\* The backends whose own keys are shared or distinct: Postgres alone,
\* the two Redshift and the two Databricks backends, Snowflake.
MCKeyBackends == {"Postgres", "Redshift", "RedshiftODBC", "Databricks",
                  "DatabricksODBC", "Snowflake"}
\* Salesforce reads and writes Postgres's key.
MCSharedPgKey == {"Postgres", "Salesforce"}
MCScales == {2}
\* Fallback texts under "type": one scalar and one parameterised type.
MCFallback == {Scalar("Integer"), CharT("Varchar", 3)}
\* The Arrow leaves, Duration included (from_field reaches _from_arrow_type
\* for a field without metadata).
MCFieldLeaves == {"Int32", "Utf8", "Decimal128", "Timestamp", "Duration", "List"}
=============================================================================
