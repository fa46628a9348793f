-------------------------- MODULE MC_SqlRoundTrip --------------------------
(* Model values and bounds for SqlRoundTrip. *)
EXTENDS SqlRoundTrip

MCAllBackends == Backends
MCScales == {-2, 2}
\* Every Arrow DataType variant _from_arrow_type has an arm for.
MCArrowLeaves ==
    {"Null", "Boolean", "Int8", "UInt8", "Int16", "UInt16", "Int32", "UInt32", "Int64",
     "UInt64", "Float16", "Float32", "Float64", "Decimal128", "Utf8", "LargeUtf8",
     "Binary", "FixedSizeBinary", "Date32", "Time32", "Time64", "Timestamp", "Duration",
     "Interval", "List", "FixedSizeList", "Union", "Map"}
=============================================================================
