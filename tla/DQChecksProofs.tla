---------------------------- MODULE DQChecksProofs ----------------------------
(***************************************************************************)
(* Theorems about DQChecks, for any table, any number of seedings, any     *)
(* scale of the stored rates and any age.                                  *)
(***************************************************************************)
EXTENDS DQChecks, TLAPS

Baselines == {b \in [row_count : Nat, columns : SUBSET Columns,
                     null_rate : UNION {[C -> 0 .. Scale] : C \in SUBSET Columns}] :
                 b.null_rate \in [b.columns -> 0 .. Scale]}

\* The last seeding is of the table as it was then.
SeedInv ==
    /\ baselines \in Seq(Baselines)
    /\ HasBaseline =>
          LET b == baselines[Len(baselines)]
          IN  /\ b.row_count = seeded.rows /\ b.columns = seeded.columns
              /\ \A c \in b.columns :
                    b.null_rate[c] \in StoredRates(seeded.nulls[c], seeded.rows)

\* A run under way met baselines. As long as nothing is written, what failed still
\* fails, whatever the SLA is; staleness apart.
RecheckInv ==
    /\ phase # "idle" => HasBaseline
    /\ phase \in {"inspected", "passed"} => failed # {}
    /\ phase = "inspected" /\ ~ touched =>
          \A check \in failed \ {Freshness} : \A sla \in Nat : ~ Verdict(check, sla)
    /\ DataFixNeedsWrite

DQInv == TypeOK /\ SeedInv /\ RecheckInv

-----------------------------------------------------------------------------
(* The operators.                                                          *)

LEMMA TableFields ==
    ASSUME NEW t \in Contents
    PROVE  /\ t.rows \in Nat /\ t.columns \subseteq Columns
           /\ \A c \in Columns : t.nulls[c] \in Nat /\ t.nulls[c] <= t.rows
BY ContentsAssumption DEF Table

LEMMA LastIsLatest ==
    ASSUME NEW n \in Nat \ {0}, NEW S \in SUBSET (1 .. n), n \in S
    PROVE  Latest(S) = n
<1>1. \A j \in S : j <= n
  OBVIOUS
<1>2. ASSUME NEW i \in S, \A j \in S : j <= i PROVE i = n
  BY <1>2
<1> QED BY <1>1, <1>2 DEF Latest

\* The baselines that the checks read are those of the last seeding.
LEMMA BaselineIsLast ==
    ASSUME SeedInv, HasBaseline
    PROVE  /\ Len(baselines) \in Nat \ {0} /\ DOMAIN baselines = 1 .. Len(baselines)
           /\ get_baseline = baselines[Len(baselines)]
           /\ baselines[Len(baselines)] \in Baselines
           /\ \A c \in seeded.columns :
                 /\ Len(baselines) \in RateSeeds(c)
                 /\ get_null_baseline(c) = baselines[Len(baselines)].null_rate[c]
                 /\ get_null_baseline(c) \in StoredRates(seeded.nulls[c], seeded.rows)
<1>1. /\ Len(baselines) \in Nat \ {0} /\ DOMAIN baselines = 1 .. Len(baselines)
      /\ baselines[Len(baselines)] \in Baselines
  BY DEF SeedInv, HasBaseline
<1>2. get_baseline = baselines[Len(baselines)]
  BY <1>1, LastIsLatest DEF get_baseline
<1>3. ASSUME NEW c \in seeded.columns
      PROVE  /\ Len(baselines) \in RateSeeds(c)
             /\ get_null_baseline(c) = baselines[Len(baselines)].null_rate[c]
             /\ get_null_baseline(c) \in StoredRates(seeded.nulls[c], seeded.rows)
  <2>1. c \in baselines[Len(baselines)].columns
    BY DEF SeedInv
  <2>2. Len(baselines) \in RateSeeds(c) /\ RateSeeds(c) \subseteq 1 .. Len(baselines)
    BY <1>1, <2>1 DEF RateSeeds
  <2>3. Latest(RateSeeds(c)) = Len(baselines)
    BY <1>1, <2>2, LastIsLatest
  <2> QED BY <2>1, <2>2, <2>3 DEF get_null_baseline, SeedInv
<1> QED BY <1>1, <1>2, <1>3

\* Only staleness depends on the SLA and on the age.
LEMMA OnlyFreshnessAges ==
    ASSUME NEW check \in AllChecks, check # Freshness, NEW a, NEW b
    PROVE  Verdict(check, a) = Verdict(check, b)
<1>1. check.check_name \in {"row_count", "schema_mismatch", "null_rate"}
  BY DEF AllChecks, Freshness, Check
<1> QED BY <1>1 DEF Verdict

LEMMA OtherVerdictsStay ==
    ASSUME NEW check \in AllChecks, check # Freshness, NEW sla, UNCHANGED <<table, baselines>>
    PROVE  Verdict(check, sla)' = Verdict(check, sla)
<1>1. check.check_name \in {"row_count", "schema_mismatch", "null_rate"}
  BY DEF AllChecks, Freshness, Check
<1> QED BY <1>1 DEF Verdict, dq_check_row_count, dq_check_schema_mismatch, dq_check_null_rate,
           HasBaseline, get_baseline, get_null_baseline, RateSeeds

\* A rate that is stored is within half a unit of the true one.
LEMMA StoredRateBounds ==
    ASSUME NEW nulls \in Nat, NEW rows \in Nat, nulls <= rows,
           NEW q \in StoredRates(nulls, rows)
    PROVE  /\ q \in Nat /\ q \in 0 .. Scale
           /\ rows = 0 => q = 0
           /\ rows # 0 => /\ 2 * (q * rows) <= 2 * (nulls * Scale) + rows
                          /\ 2 * (nulls * Scale) <= 2 * (q * rows) + rows
<1>1. Scale \in Nat
  BY ScaleAssumption
<1>2. CASE rows = 0
  BY <1>1, <1>2 DEF StoredRates
<1>3. CASE rows # 0
  <2>1. q \in 0 .. Scale /\ 2 * Abs(q * rows - nulls * Scale) <= rows
    BY <1>3 DEF StoredRates
  <2>2. q * rows \in Nat /\ nulls * Scale \in Nat
    BY <1>1, <2>1
  <2> DEFINE x == q * rows
             y == nulls * Scale
  <2>3. x \in Nat /\ y \in Nat /\ 2 * Abs(x - y) <= rows
    BY <2>1, <2>2
  <2> HIDE DEF x, y
  <2>4. 2 * x <= 2 * y + rows /\ 2 * y <= 2 * x + rows
    BY <2>3 DEF Abs
  <2> QED BY <1>3, <2>1, <2>4 DEF x, y
<1> QED BY <1>2, <1>3

LEMMA Multiply ==
    ASSUME NEW x \in Nat, NEW y \in Nat, NEW k \in Nat, x <= y
    PROVE  x * k <= y * k
OBVIOUS

LEMMA Divide ==
    ASSUME NEW x \in Nat, NEW y \in Nat, NEW k \in Nat, x * k < y * k
    PROVE  x < y
<1> SUFFICES ASSUME y <= x PROVE FALSE
  OBVIOUS
<1> QED BY Multiply

\* A rate that is more than twice the seeded one, up to half a unit, fails against the
\* stored one: n of R rows against m of S, stored as q units of 1/K.
LEMMA PassingRate ==
    ASSUME NEW n \in Nat, NEW R \in Nat, NEW m \in Nat, NEW S \in Nat, NEW q \in Nat,
           NEW K \in Nat, S # 0 => 2 * (q * S) <= 2 * (m * K) + S,
           n * S * K > 2 * m * R * K + R * S
    PROVE  n # 0 /\ n * K > 2 * q * R
<1> DEFINE mk == m * K
           qs == q * S
           nk == n * K
           qr == q * R
<1>1. mk \in Nat /\ qs \in Nat /\ nk \in Nat /\ qr \in Nat
  OBVIOUS
<1>2. n * S * K = nk * S /\ 2 * m * R * K = 2 * mk * R /\ 2 * q * R = 2 * qr
      /\ (2 * qs) * R = (2 * qr) * S
  OBVIOUS
<1>3. nk * S > 2 * mk * R + R * S
  BY <1>2
<1>4. S # 0
  BY <1>1, <1>3
<1>5. 2 * qs <= 2 * mk + S
  BY <1>4
<1>6. (2 * qs) * R <= (2 * mk + S) * R
  BY <1>1, <1>5, Multiply
<1>7. (2 * mk + S) * R = 2 * mk * R + R * S
  BY <1>1
<1>8. (2 * qr) * S < nk * S
  BY <1>1, <1>2, <1>3, <1>6, <1>7
<1>9. 2 * qr < nk
  BY <1>1, <1>8, Divide
<1>10. n # 0
  BY <1>1, <1>9
<1> QED BY <1>1, <1>2, <1>9, <1>10

\* A null rate that passes has at most doubled since the last seeding.
LEMMA PassingRateIsWithinTwice ==
    ASSUME DQInv, HasBaseline, NEW c \in Columns, c \in seeded.columns,
           dq_check_null_rate(c)
    PROVE  WithinTwice(c)
<1> DEFINE q == get_null_baseline(c)
<1>1. /\ table.rows \in Nat /\ seeded.rows \in Nat /\ table.nulls[c] \in Nat
      /\ seeded.nulls[c] \in Nat /\ seeded.nulls[c] <= seeded.rows
  BY TableFields DEF DQInv, TypeOK
<1>2. q \in StoredRates(seeded.nulls[c], seeded.rows) /\ RateSeeds(c) # {}
  BY BaselineIsLast DEF DQInv
<1>3. IF q = 0 THEN table.nulls[c] = 0 ELSE table.nulls[c] * Scale <= 2 * q * table.rows
  BY <1>2 DEF dq_check_null_rate
<1> HIDE DEF q
<1>4. /\ q \in Nat /\ Scale \in Nat
      /\ seeded.rows # 0 =>
            2 * (q * seeded.rows) <= 2 * (seeded.nulls[c] * Scale) + seeded.rows
  BY <1>1, <1>2, StoredRateBounds, ScaleAssumption
<1> DEFINE x == table.nulls[c] * seeded.rows * Scale
           y == 2 * seeded.nulls[c] * table.rows * Scale + table.rows * seeded.rows
<1>5. ASSUME x > y PROVE FALSE
  <2>1. table.nulls[c] # 0 /\ table.nulls[c] * Scale > 2 * q * table.rows
    BY <1>1, <1>4, <1>5, PassingRate
  <2>2. table.nulls[c] * Scale \in Nat /\ 2 * q * table.rows \in Nat
    BY <1>1, <1>4
  <2>3. ~ (table.nulls[c] * Scale <= 2 * q * table.rows)
    BY <2>1, <2>2
  <2> QED BY <1>3, <2>1, <2>3
<1>6. x \in Nat /\ y \in Nat
  BY <1>1, <1>4
<1> HIDE DEF x, y
<1>7. x <= y
  BY <1>5, <1>6
<1> QED BY <1>7 DEF x, y, WithinTwice

-----------------------------------------------------------------------------
(* The invariant.                                                          *)

LEMMA DQStart == Init => DQInv
<1> SUFFICES ASSUME Init PROVE DQInv
  OBVIOUS
<1>1. /\ table \in Contents /\ age \in 0 .. MaxAge /\ baselines = << >> /\ phase = "idle"
      /\ failed = {} /\ touched = FALSE /\ seeded = table
  BY DEF Init
<1>2. TypeOK
  <2>1. \A i \in DOMAIN baselines : FALSE
    BY <1>1
  <2>2. touched \in BOOLEAN
    BY <1>1
  <2>3. /\ table \in Contents /\ age \in 0 .. MaxAge /\ seeded \in Contents
        /\ phase \in {"idle", "inspected", "passed", "failed", "raised"}
        /\ failed \subseteq AllChecks
    BY <1>1
  <2> QED BY <2>1, <2>2, <2>3 DEF TypeOK
<1>3. SeedInv
  BY <1>1 DEF SeedInv, HasBaseline
<1>4. RecheckInv
  BY <1>1 DEF RecheckInv, DataFixNeedsWrite
<1> QED BY <1>2, <1>3, <1>4 DEF DQInv

LEMMA SeedStep == ASSUME DQInv, seed_baselines PROVE DQInv'
<1>1. PICK rates \in [table.columns -> 0 .. Scale] :
         /\ \A c \in table.columns : rates[c] \in StoredRates(table.nulls[c], table.rows)
         /\ baselines' = Append(baselines, [row_count |-> table.rows,
                                            columns   |-> table.columns,
                                            null_rate |-> rates])
  BY DEF seed_baselines
<1>2. touched' = TRUE /\ seeded' = table /\ UNCHANGED <<table, age, phase, failed>>
  BY DEF seed_baselines
<1> DEFINE b == [row_count |-> table.rows, columns |-> table.columns, null_rate |-> rates]
<1>3. table \in Contents /\ baselines \in Seq(Baselines)
  BY DEF DQInv, TypeOK, SeedInv
<1>4. b \in Baselines
  <2>1. table.rows \in Nat /\ table.columns \in SUBSET Columns
    BY <1>3, TableFields
  <2> QED BY <2>1 DEF Baselines
<1>5. b.row_count = table.rows /\ b.columns = table.columns /\ b.null_rate = rates
  OBVIOUS
<1>6. baselines' = Append(baselines, b)
  BY <1>1
<1> HIDE DEF b
<1>7. baselines' \in Seq(Baselines) /\ baselines'[Len(baselines')] = b
  BY <1>3, <1>4, <1>6
<1>8. SeedInv'
  BY <1>1, <1>2, <1>5, <1>7 DEF SeedInv, HasBaseline, StoredRates
<1>9. TypeOK'
  <2>1. ASSUME NEW i \in DOMAIN baselines'
        PROVE  /\ baselines'[i].row_count \in Nat
               /\ baselines'[i].columns \subseteq Columns
               /\ baselines'[i].null_rate \in [baselines'[i].columns -> 0 .. Scale]
    <3>1. baselines'[i] \in Baselines
      BY <1>7
    <3> QED BY <3>1 DEF Baselines
  <2> QED BY <1>2, <2>1 DEF DQInv, TypeOK
<1>10. RecheckInv'
  <2>1. Len(baselines') # 0
    BY <1>3, <1>4, <1>6
  <2>2. HasBaseline'
    BY <2>1 DEF HasBaseline
  <2> QED BY <1>2, <2>2 DEF DQInv, RecheckInv, DataFixNeedsWrite
<1> QED BY <1>8, <1>9, <1>10 DEF DQInv

LEMMA InspectStep == ASSUME DQInv, Inspect PROVE DQInv'
<1>1. /\ failed' = inspect_table /\ touched' = FALSE
      /\ phase' = IF inspect_table = {} THEN "idle" ELSE "inspected"
      /\ UNCHANGED <<table, age, baselines, seeded>>
  BY DEF Inspect
<1>2. inspect_table \subseteq AllChecks
  BY DEF inspect_table
<1>3. TypeOK' /\ SeedInv'
  BY <1>1, <1>2 DEF DQInv, TypeOK, SeedInv, HasBaseline, StoredRates
<1>4. ASSUME NEW check \in failed' \ {Freshness}, NEW sla \in Nat PROVE ~ Verdict(check, sla)'
  <2>1. check \in AllChecks /\ check # Freshness /\ ~ Verdict(check, FRESHNESS_SLA_MINUTES)
    BY <1>1, <1>4 DEF inspect_table
  <2>2. ~ Verdict(check, sla)
    BY <2>1, OnlyFreshnessAges
  <2> QED BY <1>1, <2>1, <2>2, OtherVerdictsStay
<1>5. phase' # "passed" /\ (phase' = "inspected" => failed' # {})
  BY <1>1
<1>6. HasBaseline'
  BY <1>1 DEF Inspect, HasBaseline
<1> QED BY <1>3, <1>4, <1>5, <1>6 DEF DQInv, RecheckInv, DataFixNeedsWrite

LEMMA RecheckStep == ASSUME DQInv, Recheck PROVE DQInv'
<1>1. /\ phase = "inspected"
      /\ phase' = IF \E check \in failed : Raises(check) THEN "raised"
                  ELSE IF \A check \in failed : rerun(check) THEN "passed"
                  ELSE "failed"
      /\ UNCHANGED <<table, age, baselines, failed, touched, seeded>>
  BY DEF Recheck
<1>2. TypeOK' /\ SeedInv'
  BY <1>1 DEF DQInv, TypeOK, SeedInv, HasBaseline, StoredRates
<1>3. ASSUME phase' = "passed", ~ touched PROVE failed = {Freshness}
  <2>1. \A check \in failed : Verdict(check, DEFAULT_SLA_MINUTES)
    BY <1>1, <1>3 DEF rerun
  <2>2. \A check \in failed \ {Freshness} : ~ Verdict(check, DEFAULT_SLA_MINUTES)
    BY <1>1, <1>3, SLAAssumption DEF DQInv, RecheckInv
  <2>3. failed # {}
    BY <1>1 DEF DQInv, RecheckInv
  <2> QED BY <2>1, <2>2, <2>3
<1>4. phase' # "inspected" /\ failed' # {}
  BY <1>1 DEF DQInv, RecheckInv
<1>5. HasBaseline'
  BY <1>1 DEF DQInv, RecheckInv, HasBaseline
<1> QED BY <1>1, <1>2, <1>3, <1>4, <1>5 DEF DQInv, RecheckInv, DataFixNeedsWrite

LEMMA OtherStep == ASSUME DQInv, NextRun \/ Land \/ Ages \/ UNCHANGED vars PROVE DQInv'
<1>1. CASE NextRun
  BY <1>1 DEF NextRun, DQInv, TypeOK, SeedInv, RecheckInv, DataFixNeedsWrite, HasBaseline,
     StoredRates
<1>2. CASE Land
  <2>1. 0 \in 0 .. MaxAge
    BY SLAAssumption
  <2> QED BY <1>2, <2>1 DEF Land, DQInv, TypeOK, SeedInv, RecheckInv, DataFixNeedsWrite,
             HasBaseline, StoredRates
<1>3. CASE Ages \/ UNCHANGED vars
  <2>1. /\ UNCHANGED <<table, baselines, phase, failed, touched, seeded>>
        /\ age' \in 0 .. MaxAge
    BY <1>3, SLAAssumption DEF Ages, vars, DQInv, TypeOK
  <2>2. TypeOK' /\ SeedInv'
    BY <2>1 DEF DQInv, TypeOK, SeedInv, HasBaseline, StoredRates
  <2>3. ASSUME phase = "inspected", ~ touched,
               NEW check \in failed \ {Freshness}, NEW sla \in Nat
        PROVE  ~ Verdict(check, sla)'
    <3>1. check \in AllChecks /\ check # Freshness
      BY DEF DQInv, TypeOK
    <3>2. ~ Verdict(check, sla)
      BY <2>3 DEF DQInv, RecheckInv
    <3> QED BY <2>1, <3>1, <3>2, OtherVerdictsStay
  <2>4. phase' # "idle" => HasBaseline'
    BY <2>1 DEF DQInv, RecheckInv, HasBaseline
  <2> QED BY <2>1, <2>2, <2>3, <2>4 DEF DQInv, RecheckInv, DataFixNeedsWrite
<1> QED BY <1>1, <1>2, <1>3

LEMMA DQInvariant == Spec => []DQInv
<1>1. DQInv /\ [Next]_vars => DQInv'
  BY SeedStep, InspectStep, RecheckStep, OtherStep DEF Next
<1> QED BY <1>1, DQStart, PTL DEF Spec

-----------------------------------------------------------------------------
(* The theorems.                                                           *)

\* The table, its stored baselines and the run's questions keep their types.
THEOREM DQTypeCorrect == Spec => []TypeOK
<1>1. DQInv => TypeOK
  BY DEF DQInv
<1> QED BY <1>1, DQInvariant, PTL

\* A recheck that passes with nothing written since the inspection was asked about
\* staleness and nothing else (bq.py:221-233, loop.py:101-111).
THEOREM DataFixesNeedWrites == Spec => []DataFixNeedsWrite
<1>1. DQInv => DataFixNeedsWrite
  BY DEF DQInv, RecheckInv
<1> QED BY <1>1, DQInvariant, PTL

\* A table that is as it was seeded fails no data check, except for a null rate that
\* rounds to zero (bq.py:148, 181-183).
THEOREM SeededTablesPass == Spec => []OnlyUnstoredRatesFail
<1>1. ASSUME DQInv, HasBaseline, table = seeded, NEW check \in inspect_table \ {Freshness}
      PROVE  /\ check.check_name = "null_rate"
             /\ 2 * table.nulls[check.column] * Scale <= table.rows
  <2> DEFINE b == baselines[Len(baselines)]
  <2>1. /\ table.rows \in Nat /\ table.columns \subseteq Columns
        /\ \A c \in Columns : table.nulls[c] \in Nat /\ table.nulls[c] <= table.rows
    BY <1>1, TableFields DEF DQInv, TypeOK
  <2>2. get_baseline = b /\ b.row_count = table.rows /\ b.columns = table.columns
    BY <1>1, BaselineIsLast DEF DQInv, SeedInv
  <2>3. dq_check_row_count
    <3>1. get_baseline.row_count = table.rows
      BY <2>2
    <3>2. Abs(table.rows - table.rows) = 0
      BY <2>1 DEF Abs
    <3> QED BY <2>1, <3>1, <3>2 DEF dq_check_row_count
  <2>4. dq_check_schema_mismatch
    BY <2>2 DEF dq_check_schema_mismatch
  <2>5. /\ check \in AllChecks /\ check # Freshness
        /\ ~ Verdict(check, FRESHNESS_SLA_MINUTES)
        /\ check.check_name = "null_rate" => check.column \in table.columns
    BY <1>1 DEF inspect_table
  <2>6. check.check_name \in {"row_count", "schema_mismatch", "null_rate"}
    BY <2>5 DEF AllChecks, Freshness, Check
  <2>7. check.check_name = "null_rate" /\ ~ dq_check_null_rate(check.column)
    BY <2>3, <2>4, <2>5, <2>6 DEF Verdict
  <2> DEFINE c == check.column
             q == get_null_baseline(c)
  <2>8. c \in Columns /\ c \in seeded.columns
    BY <1>1, <2>1, <2>5, <2>7
  <2>9. q \in StoredRates(table.nulls[c], table.rows)
    BY <1>1, <2>8, BaselineIsLast DEF DQInv
  <2>10. ~ IF q = 0 THEN table.nulls[c] = 0 ELSE table.nulls[c] * Scale <= 2 * q * table.rows
    BY <2>7 DEF dq_check_null_rate
  <2>11. table.nulls[c] \in Nat /\ table.nulls[c] <= table.rows
    BY <2>1, <2>8
  <2> DEFINE n == table.nulls[c]
             R == table.rows
  <2> HIDE DEF q, c, b, n, R
  <2>12. n \in Nat /\ R \in Nat /\ n <= R /\ q \in StoredRates(n, R)
         /\ ~ (IF q = 0 THEN n = 0 ELSE n * Scale <= 2 * q * R)
    BY <2>1, <2>9, <2>10, <2>11 DEF n, R
  <2>13. /\ q \in Nat /\ (R = 0 => q = 0) /\ Scale \in Nat
         /\ R # 0 => 2 * (n * Scale) <= 2 * (q * R) + R
    BY <2>12, StoredRateBounds, ScaleAssumption
  <2>14. CASE q = 0
    <3>1. R # 0
      BY <2>12, <2>14
    <3>2. 2 * (n * Scale) <= R
      BY <2>12, <2>13, <2>14, <3>1
    <3>3. 2 * n * Scale <= R
      BY <2>12, <2>13, <3>2
    <3> QED BY <2>7, <3>3 DEF n, R, c
  <2>15. CASE q # 0
    <3> DEFINE x == q * R
               y == n * Scale
    <3>1. x \in Nat /\ y \in Nat /\ x >= R
      BY <2>12, <2>13, <2>15
    <3>2. 2 * q * R = 2 * x
      BY <2>12, <2>13
    <3>3. R # 0 /\ 2 * y <= 2 * x + R /\ ~ (y <= 2 * x)
      BY <2>12, <2>13, <2>15, <3>2
    <3> HIDE DEF x, y
    <3>4. FALSE
      BY <2>12, <3>1, <3>3
    <3> QED BY <3>4
  <2> QED BY <2>14, <2>15
<1>2. DQInv => OnlyUnstoredRatesFail
  BY <1>1 DEF OnlyUnstoredRatesFail
<1> QED BY <1>2, DQInvariant, PTL

\* A null rate that more than doubled since the seeding, by more than the stored
\* precision, is found (bq.py:148, 184-186).
THEOREM SpikesAreSeen == Spec => []SpikeIsSeen
<1>1. ASSUME DQInv, HasBaseline, NEW c \in table.columns \cap seeded.columns,
             ~ WithinTwice(c)
      PROVE  Check("null_rate", c) \in inspect_table
  <2>1. c \in Columns
    BY <1>1, TableFields DEF DQInv, TypeOK
  <2>2. ~ dq_check_null_rate(c)
    BY <1>1, <2>1, PassingRateIsWithinTwice
  <2> DEFINE check == Check("null_rate", c)
  <2>3. /\ check \in AllChecks /\ check.check_name = "null_rate" /\ check.column = c
    BY <2>1 DEF Check, AllChecks
  <2> HIDE DEF check
  <2>4. ~ Verdict(check, FRESHNESS_SLA_MINUTES)
    BY <2>2, <2>3 DEF Verdict
  <2>5. check \in inspect_table
    BY <1>1, <2>3, <2>4 DEF inspect_table
  <2> QED BY <2>5 DEF check
<1>2. DQInv => SpikeIsSeen
  BY <1>1 DEF SpikeIsSeen
<1> QED BY <1>2, DQInvariant, PTL

\* A recheck that passes found everything repaired that the inspection reported,
\* measured against the table as it was last seeded, whatever came in between:
\* another load, a column gone, an emptied table, another seeding
\* (bq.py:132-151, 157-233, loop.py:101-111).
THEOREM RechecksFindRepairs == Spec => PassedMeansRepaired
<1>1. ASSUME DQInv, [Next]_vars, phase = "inspected", phase' = "passed", NEW check \in failed
      PROVE  Repaired(check)
  <2>1. Recheck
    BY <1>1 DEF Next, seed_baselines, Inspect, NextRun, Land, Ages, vars
  <2>2. /\ ~ Raises(check) /\ Verdict(check, DEFAULT_SLA_MINUTES)
    BY <1>1, <2>1 DEF Recheck, rerun
  <2>3. HasBaseline /\ check \in AllChecks
    BY <1>1 DEF DQInv, RecheckInv, TypeOK
  <2>4. /\ get_baseline.row_count = seeded.rows /\ get_baseline.columns = seeded.columns
    BY <1>1, <2>3, BaselineIsLast DEF DQInv, SeedInv
  <2>5. table.rows \in Nat /\ seeded.rows \in Nat
    BY <1>1, TableFields DEF DQInv, TypeOK
  <2>6. CASE check.check_name = "row_count"
    <3>1. dq_check_row_count
      BY <2>2, <2>6 DEF Verdict
    <3>2. IF seeded.rows = 0 THEN table.rows = 0
          ELSE 100 * Abs(table.rows - seeded.rows) <= 30 * seeded.rows
      BY <2>3, <2>4, <3>1 DEF dq_check_row_count
    <3>3. 10 * Abs(table.rows - seeded.rows) <= 3 * seeded.rows
      BY <2>5, <3>2 DEF Abs
    <3> QED BY <2>6, <3>3 DEF Repaired
  <2>7. CASE check.check_name = "null_rate"
    <3>1. check.column \in table.columns /\ dq_check_null_rate(check.column)
      BY <2>2, <2>7 DEF Verdict, Raises
    <3>2. check.column \in seeded.columns => WithinTwice(check.column)
      <4>1. table.columns \subseteq Columns
        BY <1>1, TableFields DEF DQInv, TypeOK
      <4> QED BY <1>1, <2>3, <3>1, <4>1, PassingRateIsWithinTwice
    <3> QED BY <2>7, <3>1, <3>2 DEF Repaired
  <2>8. CASE check.check_name = "freshness"
    BY <2>2, <2>8 DEF Verdict, dq_check_freshness, Repaired
  <2>9. CASE check.check_name = "schema_mismatch"
    BY <2>2, <2>3, <2>4, <2>9 DEF Verdict, dq_check_schema_mismatch, Repaired
  <2> QED BY <2>3, <2>6, <2>7, <2>8, <2>9 DEF AllChecks
<1>2. DQInv /\ [Next]_vars =>
        [phase = "inspected" /\ phase' = "passed" => \A check \in failed : Repaired(check)]_vars
  BY <1>1
<1> QED BY <1>2, DQInvariant, PTL DEF Spec, PassedMeansRepaired
=============================================================================
