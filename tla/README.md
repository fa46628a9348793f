# TLA+ models of dbt-fusion's XDBC semaphore, SQL type layer and seed resolution

This directory holds TLA+ models of two parts of `crates/dbt-xdbc` and of the
seed loop of `crates/dbt-parser`. They are checked with TLC on small instances.
The semaphore and the seed loop are also proved with TLAPS.

1. `src/semaphore.rs` is a lock-free counting semaphore. It is an `AtomicU32`
   driven by `compare_exchange_weak` and `fetch_add`, plus the futex primitives
   `atomic_wait::wait` and `wake_all`. Its guards release on drop.
2. `src/sql/types.rs` holds the SQL type system. `SqlType::write` renders a
   type as text for one of nine backends (the dialects) and
   `Parser::parse_inner` reads the text back. `_from_arrow_type` maps an Arrow
   `DataType` to a `SqlType`. The test helper `assert_roundtrip` says that
   rendering, then parsing, then rendering again gives the same text.

3. `dbt-parser/src/resolve/resolve_seeds.rs` turns a package's seed files
   into `DbtSeed` nodes. It merges each one's properties entry and configs.

The parts do not interact. The semaphore bounds concurrent XDBC
connections. The type layer converts column types between Arrow schemas and SQL
text.

## Inventory

| Part | Source | Modules | Status |
|---|---|---|---|
| Counting semaphore | `dbt-xdbc/src/semaphore.rs` | `Semaphore`, `SemaphoreSpec`, `MC_Semaphore`, `SemaphoreProofs` | modelled |
| SQL renderer | `dbt-xdbc/src/sql/types.rs` 14-192, 329-592 | `SqlTypes`, `SqlRender` | modelled |
| SQL parser | `types.rs` 798-1470 | `SqlParse` | modelled |
| Arrow → SQL mapping | `types.rs` 600-748 | `SqlArrow` | modelled |
| Metadata bridge (`from_field`, `to_field`, metadata keys) | `types.rs` 283-312, 763-791 | `SqlField`, `MC_SqlField` | modelled; `to_field` always panics (`todo!()`) |
| Tokenizer, `Ident` | `sql/tokenizer.rs`, `sql/ident.rs` (not in this tree) | `SqlTypes` (`Tokenize`), `SqlRender` (`IdentDisplay`) | partly, modelled from the spec: quoting is not modelled |
| Round-trip test | `types.rs` 1743-1756 | `SqlUniverse`, `SqlRoundTrip`, `MC_SqlRoundTrip` | modelled |
| Seed resolution | `dbt-parser/src/resolve/resolve_seeds.rs` | `ResolveSeeds`, `MC_ResolveSeeds`, `ResolveSeedsProofs` | modelled; configs are abstracted to `enabled` |
| `query_ctx.rs` | | | not modelled: an immutable builder with no concurrency |
| mock `adapter.rs`, `source_properties.rs`, `internal_func.rs`, trino `lib.rs` | | | not modelled: sequential configuration code, a test double, data declarations and re-exports |

## The semaphore (`Semaphore.tla`)

**State.** `a` is the atomic counter. Each thread has:
- `pc`, its position in the code;
- the locals `old` and `insufficient` (`insuff`);
- `upd`, the argument of a running `release_impl`;
- `held`, the permits its guard holds.

`extra` counts `unguarded_release` calls made without a permit. The comment on
`max` allows them.

**Steps.** Every atomic access of the code is one step of a thread:
- `AcqWait`, `AcqLoad` and `AcqCas` are acquire's loop (lines 51-60).
- `TryLoad` and `TryCas` are `try_acquire` (62-65).
- `ManyInit`, `ManyWait`, `ManyLoad` and `ManyCas` are `acquire_many` (67-79).
- `RelAdd` and `RelWake` are `release_impl` (26-35).
- `Drop` is the guard drops (171-191).
- `ExtraRelease` is an over-release (144-146).

A futex wait compares and sleeps in one step. It may return spuriously
(`SpuriousWake`). `compare_exchange_weak` may fail spuriously when the constant
`WeakCasMayFail` is TRUE.

**Fairness.** `WF_vars(Step(t))` for every thread. A thread already inside an
operation keeps being scheduled. Nothing forces a caller to start an operation.
Nothing forces a futex to wake spuriously, so `Start`, `ExtraRelease` and
`SpuriousWake` get no fairness.

**Abstract specification.** `SemaphoreSpec.tla` is an atomic semaphore with
`avail`, `holds` and `extras`. `Implements` checks that the code refines it
under the mapping:
- `avail <- a`;
- `holds <- held`;
- `extras <- extra - Cardinality(PendingOver)`.

A thread keeps its permits until its `fetch_add`.

### Runs (`MC_Semaphore`, 3 threads, `max = 2`)

No symmetry set is declared. Every run checks a liveness property
(`AcquireWakes` or `AcquireAllWakes`), and TLC's liveness checking is not
sound under symmetry reduction. The state spaces are small enough without it.

| Run | What it checks |
|---|---|
| `Semaphore_guarded.cfg` | Weak CAS, no over-release. Checks `TypeOK`, `PermitConservation` (every guard holds 1 or `max` permits, and counter + guards' permits + pending over-releases = `max` + over-releases), `ExclusiveAll`, `NoLostWakeupAcquire`, `Implements` and `AcquireWakes` (a blocked `acquire` eventually runs again). Passes. |
| `Semaphore_over_release.cfg` | One over-release. Checks `PermitConservation`, `NoLostWakeupAcquire`, `Implements` and `AcquireWakes`. `ExclusiveAll` is left out because an over-release legitimately breaks it. The type invariant is checked in the run above and proved (`TypeCorrect`). Passes. |
| `Semaphore_acquire_all_hang.cfg` | `AcquireAllWakes`. **Violated**: see below. |

Three threads and two permits are the smallest instance in which the following
happen:
- two threads hold a permit each while a third waits in `acquire_all`;
- `acquire_all` sleeps on a non-zero value.

**Finding (code bug).** `acquire_many` sleeps in `wait(&a, insufficient)`.
`insufficient` may be non-zero, for example 1 when one of two permits is out
(line 72). But `release_impl` wakes sleepers only when the value before its
`fetch_add` was 0 (line 32). After the other guard is dropped, every permit is
free and the `acquire_all` thread still sleeps. A futex may wake spuriously, but
nothing obliges it to. The doc comment says `acquire_all` "will block until all
8 permits are available". `acquire` waits only on 0, so it is not affected
(`AcquireWakes` holds).

## The SQL type layer

**Rendered text.** A rendering is a sequence of lexemes:
- words (a number is the word `ToString(n)`);
- punctuation;
- `Sp`, one space.

The tokenizer drops the spaces (`Tokenize`). Keywords are canonical upper case,
so the parser's case-insensitive `eqi` is equality. Option payloads use the
model value `None`.

**Renderer.** `SqlRender!Write` follows the single `match (backend, self)` of
`SqlType::write`. Each dialect block is an operator guarded by the set of
variants it has arms for. Everything else falls to `GenericScalar` or to the
recursive composite arms, in the code's order.

**Parser.** `SqlParse` gives each `Parser` method an operator that takes the
remaining tokens and returns `Ok(v, rest)` or `Err`. This covers every
production, error return and default, for example `nullable.unwrap_or(true)`.

**Arrow mapping.** `SqlArrow!FromArrowType` is `_from_arrow_type`. It returns
`Panic` for `Duration` (`todo!()`) and for the time units that are
`unreachable!()`.

**Round trip.** `SqlRoundTrip` runs `assert_roundtrip` as three actions:
`Render`, `ParseBack` and `Rerender`. The type under test is either:
- a member of a bounded universe of types (`TypesUpTo[Depth]`);
- or the image under `_from_arrow_type` of a bounded set of Arrow types:
  28 leaf variants, a one-field `Struct` and a `Dictionary`.

A `Time` with an `Unspecified` zone is excluded from the universe, because no
code path builds one.

### Runs (`MC_SqlRoundTrip`)

| Run | Settings | What it checks |
|---|---|---|
| `SqlRoundTrip.cfg` | All 9 backends; precisions {None, 0, 3}; scales {-2, 2}; depth 1. No `LOCAL` zone and no `Other` inside a composite. | `RoundTrip`. Passes (33 417 states). |
| `SqlRoundTrip_nested_other.cfg` | `Other` allowed inside a composite. | `RoundTrip`. **Violated.** `_from_arrow_type` maps an Arrow `Struct` with a `Union` child to `Struct(a Other("UNION"))`. This renders as `(a UNION)` on Postgres. The parser's `Other` arm (1422) swallows every token up to `NOT`/`NULL`, including the closing `)`, so the parse fails and `unwrap` panics. |
| `SqlRoundTrip_snowflake_ltz.cfg` | Snowflake, `LOCAL` zones. | `RoundTrip`. **Violated.** `TIMESTAMP_LTZ(0)` has no parser keyword. It reparses as `Other("TIMESTAMP_LTZ ( 0 )")`, which renders differently. |
| `SqlRoundTrip_odbc_tz.cfg` | All backends, depth 0. | `TimeZonePreserved`. **Violated.** On `DatabricksODBC`, `TIMESTAMP WITH TIME ZONE` renders as `TIMESTAMP` (line 156 groups both Databricks backends). It reparses as `Unspecified`, which `is_with_time_zone` calls with-time-zone only on `Databricks` (line 176). |

**Bounds.** Precision 0 and 3 cover the branches that matter:
- `Char(0)`, which renders with no length;
- the sub-second interval fields.

Scales of both signs exercise `next_int::<i8>` on negative words. Depth 1 puts
every scalar and temporal type inside every composite on every backend. Deeper
nesting repeats the same arms.

### The metadata bridge (`SqlField`)

`SqlUniverse` holds the bounded sets of types and Arrow types that the
round trip and the bridge share.

**State.**
- `field` is the Arrow field a producer wrote: its `DataType`, its nullable
  flag, and a map from metadata keys to text.
- `written` is the history of what each text stands for: the type, the
  backend it was rendered for, and whether `NOT NULL` follows.
- `reader` and `result` are the backend that calls `from_field` and what it
  returned.

**Steps.**
- `Produce` models any producer: a driver, a CSV reader or another backend. It
  writes nothing, one entry under any key of its backend's list, or its own
  key beside a generic `"type"` fallback.
- `ReadField` is `from_field`. It calls `type_string_from_field`, which takes
  the first key of the reader's list that is present. On a hit it calls
  `SqlType::parse` and ORs the nullability. Otherwise it calls
  `_from_arrow_type`.
- `ToField` is `to_field`. It panics in `_pick_best_arrow_type`.

| Run (`MC_SqlField`) | Settings | What it checks |
|---|---|---|
| `SqlField.cfg` | Postgres, both Redshift and both Databricks backends, Snowflake; depth 1 | `SpecificKeyRespected`. Suppose a type is written under the reader's own key, by the reader or by a backend sharing the key, with or without a generic fallback beside it. Then the reader gets back a type that renders as the written one. Passes (1 955 975 states, about 70 s). |
| `SqlField_salesforce_key.cfg` | Postgres and Salesforce | `SpecificKeyRespected`. **Violated.** Salesforce reads `POSTGRES:type`, but its parser has no postfix `[]` (line 1133). `Parser::parse` (1121) does not check for unread tokens, so a Postgres `BOOLEAN[]` is read as `BOOLEAN`. The spec says that unread text outside `Other` is an error. |
| `SqlField_nullable.cfg` | depth 0 | `NonNullableKept`. **Violated** (spec gap). A non-nullable field whose metadata is a plain rendering comes back nullable. The parse defaults to nullable and `from_field` ORs it with the field's flag (293). The doc comment calls this path lossless. |
| `SqlField_duration.cfg` | Arrow leaves with `Duration` | `FromFieldTotal`. **Violated.** A field with no metadata and type `Duration` reaches `todo!()` (672), so `from_field` panics instead of returning its `Result`. |

`to_field` has no run: it panics for every input, and there is no code of the
spec's version to check against.

## Seed resolution (`ResolveSeeds`)

**State.**
- the package's files, and whether the package is the root;
- the remaining `seed_properties`;
- the loop index;
- the `seeds` and `disabled_seeds` maps, as id → index of the file that
  produced the entry;
- `duplicate_errors`;
- the caller's `refs_and_sources` and `collected_tests`, as the ids added to
  them;
- the outcome.

A path is abstracted to what the code reads of it:
- its lower-cased extension;
- its file stem;
- its parent directory's stem, which names a parquet seed.

A config is abstracted to its `enabled` option.

**Steps.**
- `Skip` is the `continue` for other extensions.
- `Resolve` is the whole loop body:
  - `seed_properties.remove`;
  - `register_duplicate_resource`;
  - the config precedence (project, then properties, then the root project
    for a dependency);
  - `insert_ref`, whose error is only shown;
  - the insert into one of the two maps;
  - every `?`: before `insert_ref`, or at the test persist after the insert.
- `Finish` is `trigger_duplicate_errors`.

The helpers from other crates (`insert_ref`, serde, relation naming) are
choices among their outcomes.

| Run (`MC_ResolveSeeds`) | Settings | What it checks |
|---|---|---|
| `ResolveSeeds.cfg` | Every package of two files (two names, csv/parquet/json/txt, csv in either case, any project and root `enabled`); properties for at most one name | `PropertiesUsedOnce` (a properties entry configures one file), `RootOverrides` (a seed the root project disables in a dependency is never enabled), and `ResolvedAll` (an Ok result means every csv/parquet/json file, in any case, has its seed in `seeds` or `disabled_seeds` and a ref or a shown error, and every enabled seed's tests were persisted). Passes (1 570 048 states). |

Two files of one name, such as `a.csv` beside a parquet directory `a/`, get
one `unique_id`. The second one gets no properties, and `HashMap::insert`
replaces the first. When only the first was disabled by its properties, the
id is in both maps. Nothing in the repository says which behaviour is
intended, so this is listed as a hazard and not checked.

## Proofs (TLAPS)

### `SemaphoreProofs.tla`


- `TypeCorrect`: `Spec => []TypeOK`. It holds for every set of threads, every
  `max > 0` and every over-release bound. The lemma `TypeCorrectStep` shows one
  step per action. It needs `CasOk`'s guard `old >= ask` for `a - ask \in Nat`,
  and `held`/`upd` bounded by `Max`.
- `NoLostWakeup`: `Spec => []NoLostWakeupAcquire`. The property is not
  inductive alone. Its inductive strengthening is `IInv == TypeOK /\
  NoLostWakeupAcquire`: `TypeOK` is needed so that a `fetch_add` makes `a`
  positive. `NoLostWakeupStep` proves `IInv /\ [Next]_vars => IInv'`, with one
  case per action. The cases are:
  - a sleeper appears only when `a = 0`;
  - `RelAdd` from 0 leaves the releaser at `rel_wake` with `old = 0`, so the second disjunct holds;
  - `RelWake` moves every sleeper out.

The proofs assume only `ThreadsAssumption`, `MaxAssumption`, `ExtraAssumption`
and `WeakCasAssumption`.

### `SemaphoreSafetyProofs.tla`

These hold for every finite set of threads (`FiniteThreadsAssumption`), every
`max > 0`, every bound on over-releases and both kinds of CAS.

- `PermitConservationInv`: `Spec => []PermitConservation`.
  - The permits are counted with cardinalities: `SingleHolders` are the
    `PermitGuard`s, `AllHolders` the `PermitGuardAll`s, and `PendingOver` the
    `unguarded_release`s that have not yet run their `fetch_add`. A sum over
    `held` would need induction over the set of threads, which the provers
    cannot do.
  - The inductive invariant is `CInv == TypeOK /\ GuardState /\
    PermitConservation`. `GuardState` ties `held` to `pc`:
    - a thread in `holding` holds permits;
    - a thread at `rel_add` passes exactly its guard's permits, or 1 permit
      if it has none;
    - every other thread holds nothing.
  - Without `GuardState` the equation is not inductive. It cannot rule out a
    `fetch_add` that adds more than the guard held, or a CAS that hands a
    second guard to a thread that already holds one.
  - `StepKinds` shows that only four steps move permits:
    - a successful CAS of `acquire` or `try_acquire`;
    - a successful CAS of `acquire_many`;
    - `RelAdd`;
    - `ExtraRelease`.
  - Each of those four has a lemma that balances the equation
    (`AcquireOneStep`, `AcquireAllStep`, `ReleaseStep`, `OverReleaseStep`),
    using `FS_AddElement` and `FS_RemoveElement` of `FiniteSetTheorems`.
- `ExclusiveAllInv`: under `MaxExtraReleases = 0` (the guarded API, which
  the `semaphore_guarded` run uses), `Spec => []ExclusiveAll`.
  - It follows from conservation (`ExclusiveFromCount`). With `extra = 0`, a
    `PermitGuardAll` beside another guard would count `max + 1` permits or
    more.
  - With over-releases the property is false. The `semaphore_over_release`
    run does not check it.
- `Refinement`: `Spec => Implements`, the refinement of `SemaphoreSpec` under
  `Abs`.
  - `RefinementStep` shows `CInv /\ [Next]_vars => [Abs!AbsNext]_Abs!absVars`,
    case by case on `StepKinds`:
    - the CASs are `AbsAcquire` and `AbsAcquireAll`;
    - `RelAdd` with a guard is `AbsRelease`;
    - `RelAdd` without a guard is `AbsOverRelease`. Its guard `extras <
      MaxExtraReleases` holds because that thread is still counted in
      `PendingOver`;
    - `ExtraRelease` is a stutter, because `extra` and `PendingOver` grow
      together.

### `ResolveSeedsProofs.tla`

These hold for every package, every properties map and every outcome of the
helpers. They assume only `NoneAssumption` (`None` is not a Boolean) and the
shapes of `Files` and `PropsIn`.

- `PropertiesUsedOnceInv`: `Spec => []PropertiesUsedOnce`. The invariant is
  strengthened with `PatchedRemoved`: the name of every file that took an entry
  is no longer a key of `seed_properties`. Then a file that takes an entry has
  a name that no earlier patched file had. The lemma `RemoveKeyDomain` gives
  the domain after `remove`.
- `RootOverridesInv`: `Spec => []RootOverrides`, with `isRoot \in BOOLEAN` as
  the strengthening. The lemma `RootDisables` shows that a file disabled by the
  root config is not enabled whatever its properties say. The `Insert` case
  then splits on the inserted key.
- `ResolvedAllInv`: `Spec => []ResolvedAll`.
  - `ResolvedAll` is a postcondition. It says nothing until `outcome = "ok"`,
    so it is not inductive as it stands.
  - The strengthening `DInv` carries the loop invariant:
    - `i` stays in `1..Len(files)+1`;
    - Ok is reached only at `i = Len(files)+1`;
    - until an error, every file before `i` is `Resolved`;
    - until an error, every key of `seeds` is in `tests`.
  - The `Resolve` step splits on the outcome:
    - a failing `?` makes the outcome Err, which discharges the clause;
    - otherwise `fail = "none"`, and the lemma `ResolveOk` (through
      `InsertDomain`) shows that the file's seed is resolved and that the
      earlier ones stay resolved.
  - The mutant that compares extensions without `to_ascii_lowercase` drops an
    upper-case `.CSV` file and breaks the property.

**Checked only by TLC:**
- the liveness properties (`AcquireWakes`, `AcquireAllWakes`), which need
  fairness and ENABLED;
- everything about the SQL layer and the metadata bridge, whose operators are
  RECURSIVE;
- nothing else in the seed loop: its three checked properties are proved.
