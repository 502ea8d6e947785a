------------------------------ MODULE DQChecks ------------------------------
(***************************************************************************)
(* The data-quality checks on one table (dq_sentinel/bq.py), what seeding  *)
(* stores of it, and the two times a run asks: inspect_table before the    *)
(* diagnosis, rerun of what failed after the remediation.                  *)
(*                                                                         *)
(* AgentLoop takes the verdicts as inputs; here they come from the table   *)
(* and its baselines. Rates are exact quotients, except the stored null    *)
(* rate, which keeps six decimals (Scale). An inspection sees the table at *)
(* one moment; between any two steps the table, its baselines and the time *)
(* may change.                                                             *)
(***************************************************************************)
EXTENDS Integers, Sequences, FiniteSets

CONSTANTS
    Columns,      \* the data columns the table may have
    Contents,     \* the contents the table may have (Table)
    Scale,        \* 10^6: the stored null rate is a multiple of 1/Scale
    FRESHNESS_SLA_MINUTES,  \* config
    DEFAULT_SLA_MINUTES,    \* the default of dq_check_freshness
    MaxAge,       \* bound on the age of the table
    MaxSeeds      \* bound on the seedings

\* A table: its rows, its columns, the rows where a column is null.
Table == {t \in [rows : Nat, columns : SUBSET Columns, nulls : [Columns -> Nat]] :
             \A c \in Columns : t.nulls[c] <= t.rows}

ASSUME ContentsAssumption == Contents \subseteq Table /\ Contents # {}
ASSUME ScaleAssumption == Scale \in Nat \ {0}
ASSUME SLAAssumption ==
    /\ FRESHNESS_SLA_MINUTES \in Nat /\ DEFAULT_SLA_MINUTES \in Nat
    /\ MaxAge \in Nat /\ MaxSeeds \in Nat

VARIABLES
    table,      \* what BigQuery holds
    age,        \* minutes since the table's last _fivetran_synced
    baselines,  \* the seedings, in the order of captured_at
    phase,      \* idle, inspected, or how the run's recheck went
    failed,     \* the checks that failed in the inspection
    touched,    \* the table or its baselines were written since the
                \* inspection (history variable)
    seeded      \* the table as the last seeding met it (history variable)

vars == <<table, age, baselines, phase, failed, touched, seeded>>

Abs(n) == IF n < 0 THEN -n ELSE n

NoColumn == "no column"
Check(name, column) == [check_name |-> name, column |-> column]
AllChecks == [check_name : {"row_count", "freshness", "schema_mismatch"},
              column     : {NoColumn}]
             \cup [check_name : {"null_rate"}, column : Columns]

-----------------------------------------------------------------------------
(* Baselines.                                                              *)

\* Mutant: the stored rate is cut off, not rounded.
StoredRates_truncated(nulls, rows) ==
    IF rows = 0 THEN {0} ELSE {(nulls * Scale) \div rows}

\* "%.6f" of nulls / rows, in units of 1/Scale. On a tie the binary quotient
\* decides, one way or the other.
StoredRates(nulls, rows) ==
    IF rows = 0 THEN {0}
    ELSE {q \in 0 .. Scale : 2 * Abs(q * rows - nulls * Scale) <= rows}

Latest(S) == CHOOSE i \in S : \A j \in S : j <= i

\* get_baseline: the last row for the metric, and for the column of a null
\* rate. A row also names the connection it was seeded for; nothing reads that.
HasBaseline == baselines # << >>
RateSeeds(c) == {i \in DOMAIN baselines : c \in baselines[i].columns}
get_baseline == baselines[Latest(DOMAIN baselines)]
get_null_baseline(c) == baselines[Latest(RateSeeds(c))].null_rate[c]

-----------------------------------------------------------------------------
(* The checks, each TRUE when it passes. Without a baseline a check passes. *)

\* Mutant: the deviation is taken of the current count.
dq_check_row_count_of_current ==
    HasBaseline =>
        LET base == get_baseline.row_count
        IN  IF base = 0 THEN table.rows = 0
            ELSE 100 * Abs(table.rows - base) <= 30 * table.rows

\* |current - base| / base <= 0.30; from an empty baseline any row deviates.
dq_check_row_count ==
    HasBaseline =>
        LET base == get_baseline.row_count
        IN  IF base = 0 THEN table.rows = 0
            ELSE 100 * Abs(table.rows - base) <= 30 * base

\* Mutant: the baseline may be zero without notice.
dq_check_null_rate_from_zero(c) ==
    RateSeeds(c) # {} =>
        table.nulls[c] * Scale <= 2 * get_null_baseline(c) * table.rows
           \/ get_null_baseline(c) = 0

\* current <= 2.0 * base; from a baseline of zero, any null fails.
dq_check_null_rate(c) ==
    RateSeeds(c) # {} =>
        LET base == get_null_baseline(c)
        IN  IF base = 0 THEN table.nulls[c] = 0
            ELSE table.nulls[c] * Scale <= 2 * base * table.rows

\* MAX(_fivetran_synced) of an empty table is NULL.
dq_check_freshness(sla) == table.rows # 0 /\ age <= sla

dq_check_schema_mismatch ==
    HasBaseline => table.columns = get_baseline.columns

Verdict(check, sla) ==
    CASE check.check_name = "row_count"       -> dq_check_row_count
      [] check.check_name = "null_rate"       -> dq_check_null_rate(check.column)
      [] check.check_name = "freshness"       -> dq_check_freshness(sla)
      [] check.check_name = "schema_mismatch" -> dq_check_schema_mismatch

\* inspect_table: the three checks of the table, a null rate per live column.
inspect_table ==
    {check \in AllChecks :
        /\ check.check_name = "null_rate" => check.column \in table.columns
        /\ ~ Verdict(check, FRESHNESS_SLA_MINUTES)}

\* Mutant: a check that cannot be re-run is left out.
Raises_never(check) == FALSE

\* The null rate of a column that is no longer there raises.
Raises(check) ==
    check.check_name = "null_rate" /\ check.column \notin table.columns

\* Mutant: the dispatch sends a schema check to the row count.
rerun_misdispatched(check) ==
    IF check.check_name = "schema_mismatch" THEN dq_check_row_count
    ELSE Verdict(check, DEFAULT_SLA_MINUTES)

\* rerun(check) passes.
rerun(check) == Verdict(check, DEFAULT_SLA_MINUTES)

-----------------------------------------------------------------------------
Init ==
    /\ table \in Contents
    /\ age \in 0 .. MaxAge
    /\ baselines = << >>
    /\ phase = "idle"
    /\ failed = {}
    /\ touched = FALSE
    /\ seeded = table

\* Mutant: a column without nulls gets no baseline row.
seed_baselines_without_zeros ==
    /\ Len(baselines) < MaxSeeds
    /\ LET stored == {c \in table.columns : table.nulls[c] # 0}
       IN  \E rates \in [stored -> 0 .. Scale] :
              /\ \A c \in stored : rates[c] \in StoredRates(table.nulls[c], table.rows)
              /\ baselines' = Append(baselines, [row_count |-> table.rows,
                                                 columns   |-> table.columns,
                                                 null_rate |-> rates])
    /\ touched' = TRUE
    /\ seeded' = table
    /\ UNCHANGED <<table, age, phase, failed>>

\* seed_baselines: one pass over the table, one append of all its rows.
seed_baselines ==
    /\ Len(baselines) < MaxSeeds
    /\ \E rates \in [table.columns -> 0 .. Scale] :
          /\ \A c \in table.columns : rates[c] \in StoredRates(table.nulls[c], table.rows)
          /\ baselines' = Append(baselines, [row_count |-> table.rows,
                                             columns   |-> table.columns,
                                             null_rate |-> rates])
    /\ touched' = TRUE
    /\ seeded' = table
    /\ UNCHANGED <<table, age, phase, failed>>

\* The run inspects a table that has baselines; with no failed check it ends.
Inspect ==
    /\ phase = "idle" /\ HasBaseline
    /\ failed' = inspect_table
    /\ phase' = IF inspect_table = {} THEN "idle" ELSE "inspected"
    /\ touched' = FALSE
    /\ UNCHANGED <<table, age, baselines, seeded>>

\* rerun_failed_checks, and whether all of them pass.
Recheck ==
    /\ phase = "inspected"
    /\ phase' = IF \E check \in failed : Raises(check) THEN "raised"
                ELSE IF \A check \in failed : rerun(check) THEN "passed"
                ELSE "failed"
    /\ UNCHANGED <<table, age, baselines, failed, touched, seeded>>

\* The next run starts over.
NextRun ==
    /\ phase \in {"passed", "failed", "raised"}
    /\ phase' = "idle"
    /\ failed' = {}
    /\ UNCHANGED <<table, age, baselines, touched, seeded>>

\* Fivetran rewrites the table, or time goes by without it.
Land ==
    /\ \E t \in Contents : table' = t
    /\ age' = 0
    /\ touched' = TRUE
    /\ UNCHANGED <<baselines, phase, failed, seeded>>

Ages ==
    /\ age < MaxAge
    /\ age' = age + 1
    /\ UNCHANGED <<table, baselines, phase, failed, touched, seeded>>

Next ==
    \/ seed_baselines
    \/ Inspect \/ Recheck \/ NextRun
    \/ Land \/ Ages

Spec == Init /\ [][Next]_vars
-----------------------------------------------------------------------------
(* Properties.                                                             *)

\* The table, its stored baselines, and the run's two questions.
TypeOK ==
    /\ table \in Contents
    /\ age \in 0 .. MaxAge
    /\ \A i \in DOMAIN baselines :
          /\ baselines[i].row_count \in Nat
          /\ baselines[i].columns \subseteq Columns
          /\ baselines[i].null_rate \in [baselines[i].columns -> 0 .. Scale]
    /\ phase \in {"idle", "inspected", "passed", "failed", "raised"}
    /\ failed \subseteq AllChecks
    /\ touched \in BOOLEAN
    /\ seeded \in Contents

Freshness == Check("freshness", NoColumn)

\* While the table is as it was seeded, the only data checks that can fail are
\* the null rates too small to be stored: those that round to zero (bq.py:148,
\* 181-183).
OnlyUnstoredRatesFail ==
    HasBaseline /\ table = seeded =>
        \A check \in inspect_table \ {Freshness} :
            /\ check.check_name = "null_rate"
            /\ 2 * table.nulls[check.column] * Scale <= table.rows

\* The null rate of a column has at most doubled since the last seeding, up to
\* 1/Scale.
WithinTwice(c) ==
    table.nulls[c] * seeded.rows * Scale
        <= 2 * seeded.nulls[c] * table.rows * Scale + table.rows * seeded.rows

\* Rounding the baseline hides no spike: a null rate above twice the one that was
\* seeded by more than 1/Scale is reported (bq.py:148, 184-186).
SpikeIsSeen ==
    HasBaseline =>
        \A c \in table.columns \cap seeded.columns :
            ~ WithinTwice(c) => Check("null_rate", c) \in inspect_table

\* A run whose recheck passes although nothing was written in between had
\* inspected nothing but staleness: every other check repeats its verdict
\* (bq.py:221-233, loop.py:101-111).
DataFixNeedsWrite ==
    phase = "passed" /\ ~ touched => failed = {Freshness}

\* The fault a check reports is out of the table, compared with the table that was
\* seeded last and not with what was stored of it: the row count is within 30% of
\* it, an empty one included, a null rate has at most doubled, up to the stored
\* precision, and is that of a column the table still has.
Repaired(check) ==
    CASE check.check_name = "row_count" ->
            10 * Abs(table.rows - seeded.rows) <= 3 * seeded.rows
      [] check.check_name = "null_rate" ->
            /\ check.column \in table.columns
            /\ check.column \in seeded.columns => WithinTwice(check.column)
      [] check.check_name = "freshness" -> table.rows # 0
      [] check.check_name = "schema_mismatch" -> table.columns = seeded.columns

\* A recheck that passes found everything repaired that the inspection reported,
\* whatever was landed, dropped, emptied or seeded again in between
\* (bq.py:132-151, 157-233, loop.py:101-111).
PassedMeansRepaired ==
    [][phase = "inspected" /\ phase' = "passed" =>
          \A check \in failed : Repaired(check)]_vars

=============================================================================
