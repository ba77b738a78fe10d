--------------------- MODULE CompatibilityReport_proofs ---------------------
(***************************************************************************)
(* The CRS compatibility report, in two parts that share no state.         *)
(*                                                                         *)
(* The verdict: a run qualifies exactly when its results are complete, and *)
(* the report shows every entry and why each failed, for every corpus,     *)
(* list of reviewed tests and result file.                                 *)
(*                                                                         *)
(* The run: one that ends by itself has left no process and no directory   *)
(* behind, and what it has written tells of its own run and earns its exit *)
(* status, for any number of runs.                                         *)
(***************************************************************************)
EXTENDS CompatibilityVerdict, CompatibilityRun, FiniteSetTheorems, FunctionTheorems,
        SequenceTheorems, WellFoundedInduction, TLAPS

(***************************************************************************)
(* Entries of the result lists.                                            *)
(***************************************************************************)

\* An entry is under the status it names, and its test is among the tests
\* under that status.
LEMMA EntryShape ==
    ASSUME NEW statuses, NEW e \in EntriesUnder(statuses)
    PROVE  /\ e[1] \in statuses
           /\ e \in EntriesUnder({e[1]})
           /\ TestOf(e) \in TestsUnder({e[1]})
<1>1. PICK status \in statuses : \E i \in DOMAIN results[status] : e = <<status, i>>
    BY DEF EntriesUnder
<1>2. e[1] = status
    BY <1>1
<1>3. e \in EntriesUnder({status})
    BY <1>1 DEF EntriesUnder
<1> QED
    BY <1>1, <1>2, <1>3 DEF TestsUnder

\* More statuses have more entries, and more tests.
LEMMA EntriesMonotone ==
    ASSUME NEW A, NEW B, A \subseteq B
    PROVE  /\ EntriesUnder(A) \subseteq EntriesUnder(B)
           /\ TestsUnder(A) \subseteq TestsUnder(B)
<1>1. EntriesUnder(A) \subseteq EntriesUnder(B)
    BY DEF EntriesUnder
<1> QED
    BY <1>1 DEF TestsUnder

\* Without duplicates every listed test is listed once.
LEMMA NoDuplicates ==
    ASSUME duplicate_ids = {}
    PROVE  \A t \in TestsUnder(RESULT_STATUS_KEYS) : ListedOnce(t)
<1> SUFFICES ASSUME NEW t \in TestsUnder(RESULT_STATUS_KEYS)
             PROVE  ListedOnce(t)
    OBVIOUS
<1>1. PICK e \in all_results : TestOf(e) = t
    BY DEF TestsUnder, all_results
<1>2. \A d \in all_results : TestOf(d) = t => d = e
    BY <1>1 DEF duplicate_ids
<1> QED
    BY <1>1, <1>2 DEF ListedOnce

\* Nor is a test listed under two statuses.
LEMMA StatusesDisjoint ==
    ASSUME duplicate_ids = {},
           NEW r \in RESULT_STATUS_KEYS, NEW s \in RESULT_STATUS_KEYS, r # s
    PROVE  TestsUnder({r}) \cap TestsUnder({s}) = {}
<1> SUFFICES ASSUME NEW t \in TestsUnder({r}), t \in TestsUnder({s})
             PROVE  FALSE
    OBVIOUS
<1>1. PICK d \in EntriesUnder({r}) : TestOf(d) = t
    BY DEF TestsUnder
<1>2. PICK e \in EntriesUnder({s}) : TestOf(e) = t
    BY DEF TestsUnder
<1>3. d[1] \in {r} /\ e[1] \in {s}
    BY EntryShape, Zenon
<1>4. d \in all_results /\ e \in all_results
    BY EntriesMonotone DEF all_results
<1>5. t \in TestsUnder(RESULT_STATUS_KEYS)
    BY EntriesMonotone
<1> QED
    BY <1>1, <1>2, <1>3, <1>4, <1>5 DEF duplicate_ids

-----------------------------------------------------------------------------
(* The checks of qualification_failures, one by one. *)

\* No failure of any run.
LEMMA NoFailure ==
    ASSUME qualification_failures = {}
    PROVE  /\ returncode = "zero"
           /\ TestsUnder({"skipped"}) = {}
           /\ duplicate_ids = {}
           /\ options.fail_on_test_failure =>
                TestsUnder({"failed", "forced-pass", "forced-fail"}) = {}
           /\ IgnoreFailures = {}
           /\ options.full_run => ResultSetFailures = {}
<1> DEFINE general == {why \in {"exit status", "skipped", "duplicate", "failed or forced"} :
        \/ why = "exit status" /\ returncode # "zero"
        \/ why = "skipped" /\ TestsUnder({"skipped"}) # {}
        \/ why = "duplicate" /\ duplicate_ids # {}
        \/ why = "failed or forced" /\ options.fail_on_test_failure
           /\ TestsUnder({"failed", "forced-pass", "forced-fail"}) # {}}
<1>1. general = {} /\ IgnoreFailures = {} /\ (options.full_run => ResultSetFailures = {})
    BY Zenon DEF qualification_failures
<1>2. "exit status" \notin general /\ "skipped" \notin general
      /\ "duplicate" \notin general /\ "failed or forced" \notin general
    BY <1>1
<1> QED
    BY <1>1, <1>2

\* No failure of the result set of a full run.
LEMMA NoResultSetFailure ==
    ASSUME ResultSetFailures = {}
    PROVE  /\ Cardinality(corpus) = EXPECTED_CRS_TEST_COUNT
           /\ TestsUnder(RESULT_STATUS_KEYS) = corpus
<1>1. /\ "corpus count" \notin ResultSetFailures
      /\ "missing" \notin ResultSetFailures
      /\ "unexpected" \notin ResultSetFailures
    OBVIOUS
<1> QED
    BY <1>1 DEF ResultSetFailures

\* No failure of the ignored tests of a full run with overrides.
LEMMA NoIgnoreFailure ==
    ASSUME IgnoreFailures = {}, options.apply_platform_overrides, options.full_run
    PROVE  TestsUnder({"ignored"}) = REVIEWED_PLATFORM_IGNORES
<1>1. "not the reviewed" \notin IgnoreFailures
    OBVIOUS
<1> QED
    BY <1>1 DEF IgnoreFailures, MatchesReviewed

\* Tests under no other status have passed or were ignored.
LEMMA PassedOrIgnored ==
    ASSUME TestsUnder({"skipped"}) = {},
           TestsUnder({"failed", "forced-pass", "forced-fail"}) = {}
    PROVE  TestsUnder(RESULT_STATUS_KEYS) = TestsUnder({"success"}) \cup TestsUnder({"ignored"})
<1>1. TestsUnder({"success"}) \cup TestsUnder({"ignored"}) \subseteq TestsUnder(RESULT_STATUS_KEYS)
    BY EntriesMonotone DEF RESULT_STATUS_KEYS
<1>2. ASSUME NEW t \in TestsUnder(RESULT_STATUS_KEYS)
      PROVE  t \in TestsUnder({"success"}) \cup TestsUnder({"ignored"})
    <2>1. PICK e \in EntriesUnder(RESULT_STATUS_KEYS) : TestOf(e) = t
        BY DEF TestsUnder
    <2>2. e[1] \in RESULT_STATUS_KEYS /\ t \in TestsUnder({e[1]})
        BY <2>1, EntryShape
    <2>3. ASSUME e[1] \in {"failed", "forced-pass", "forced-fail"}
          PROVE  FALSE
        BY <2>2, <2>3, EntriesMonotone
    <2> QED
        BY <2>2, <2>3 DEF RESULT_STATUS_KEYS
<1> QED
    BY <1>1, <1>2

-----------------------------------------------------------------------------

\* Any result file that qualifies, of any corpus, is complete: the property
\* holds of every state, whatever go-ftw has listed.
LEMMA VerdictIsSound == QualifiedIsComplete
<1> SUFFICES ASSUME qualification_failures = {}
             PROVE  /\ returncode = "zero"
                    /\ \A t \in TestsUnder(RESULT_STATUS_KEYS) : ListedOnce(t)
                    /\ Required =>
                        /\ Cardinality(corpus) = EXPECTED_CRS_TEST_COUNT
                        /\ TestsUnder({"ignored"}) = REVIEWED_PLATFORM_IGNORES
                        /\ TestsUnder({"success"}) = corpus \ REVIEWED_PLATFORM_IGNORES
                        /\ TestsUnder(RESULT_STATUS_KEYS) = corpus
    BY Zenon DEF QualifiedIsComplete
<1>1. returncode = "zero" /\ duplicate_ids = {}
    BY NoFailure
<1>2. \A t \in TestsUnder(RESULT_STATUS_KEYS) : ListedOnce(t)
    BY <1>1, NoDuplicates
<1>3. ASSUME Required
      PROVE  /\ Cardinality(corpus) = EXPECTED_CRS_TEST_COUNT
             /\ TestsUnder({"ignored"}) = REVIEWED_PLATFORM_IGNORES
             /\ TestsUnder({"success"}) = corpus \ REVIEWED_PLATFORM_IGNORES
             /\ TestsUnder(RESULT_STATUS_KEYS) = corpus
    <2>1. options.full_run /\ options.apply_platform_overrides /\ options.fail_on_test_failure
        BY <1>3 DEF Required
    <2>2. Cardinality(corpus) = EXPECTED_CRS_TEST_COUNT /\ TestsUnder(RESULT_STATUS_KEYS) = corpus
        BY <2>1, NoFailure, NoResultSetFailure
    <2>3. TestsUnder({"ignored"}) = REVIEWED_PLATFORM_IGNORES
        BY <2>1, NoFailure, NoIgnoreFailure
    <2>4. corpus = TestsUnder({"success"}) \cup TestsUnder({"ignored"})
        BY <2>1, <2>2, NoFailure, PassedOrIgnored
    <2>5. TestsUnder({"success"}) \cap TestsUnder({"ignored"}) = {}
        BY <1>1, StatusesDisjoint DEF RESULT_STATUS_KEYS
    <2> QED
        BY <2>2, <2>3, <2>4, <2>5
<1> QED
    BY <1>1, <1>2, <1>3

-----------------------------------------------------------------------------
(* The other direction: a complete run has no failures. *)

\* If each test is listed once there are no duplicates.
LEMMA ListedOnceNoDuplicates ==
    ASSUME \A t \in TestsUnder(RESULT_STATUS_KEYS) : ListedOnce(t)
    PROVE  duplicate_ids = {}
<1> SUFFICES ASSUME NEW t \in TestsUnder(RESULT_STATUS_KEYS),
                    NEW d \in all_results, NEW e \in all_results,
                    d # e, TestOf(d) = t, TestOf(e) = t
             PROVE  FALSE
    BY DEF duplicate_ids
<1>1. PICK one \in all_results : \A other \in all_results : TestOf(other) = t => other = one
    BY DEF ListedOnce
<1> QED
    BY <1>1

\* There are as many entries as tests if each is listed once.
LEMMA EntriesOfFiniteCorpus ==
    ASSUME IsFiniteSet(corpus),
           TestsUnder(RESULT_STATUS_KEYS) = corpus,
           \A t \in corpus : ListedOnce(t)
    PROVE  Cardinality(all_results) = Cardinality(corpus)
<1> DEFINE entry == [t \in corpus |-> CHOOSE e \in all_results : TestOf(e) = t]
<1>1. ASSUME NEW t \in corpus
      PROVE  entry[t] \in all_results /\ TestOf(entry[t]) = t
    <2>1. \E e \in all_results : TestOf(e) = t
        BY DEF ListedOnce
    <2> QED
        BY <2>1
<1>2. entry \in [corpus -> all_results]
    BY <1>1
<1>3. ASSUME NEW s \in corpus, NEW t \in corpus, entry[s] = entry[t]
      PROVE  s = t
    BY <1>1, <1>3
<1>4. ASSUME NEW e \in all_results
      PROVE  \E t \in corpus : entry[t] = e
    <2>1. TestOf(e) \in corpus
        BY DEF TestsUnder, all_results
    <2>2. PICK one \in all_results :
            \A d \in all_results : TestOf(d) = TestOf(e) => d = one
        BY <2>1 DEF ListedOnce
    <2>3. entry[TestOf(e)] = e
        BY <1>1, <2>1, <2>2
    <2> QED
        BY <2>1, <2>3
<1> HIDE DEF entry
<1>5. entry \in Bijection(corpus, all_results)
    BY <1>2, <1>3, <1>4, Fun_IsBij
<1>6. ExistsBijection(corpus, all_results)
    BY <1>5 DEF ExistsBijection
<1> QED
    BY <1>6, FS_Bijection

\* A complete run of a finite corpus qualifies.
LEMMA CompleteRunQualifies == IsFiniteSet(corpus) => CompleteQualifies
<1> SUFFICES ASSUME IsFiniteSet(corpus),
                    returncode = "zero", Required,
                    Cardinality(corpus) = EXPECTED_CRS_TEST_COUNT,
                    REVIEWED_PLATFORM_IGNORES \subseteq corpus,
                    \A t \in corpus : ListedOnce(t),
                    TestsUnder({"ignored"}) = REVIEWED_PLATFORM_IGNORES,
                    TestsUnder({"success"}) = corpus \ REVIEWED_PLATFORM_IGNORES,
                    TestsUnder(RESULT_STATUS_KEYS \ {"ignored", "success"}) = {}
             PROVE  qualification_failures = {}
    BY Zenon DEF CompleteQualifies
<1>1. /\ TestsUnder({"skipped"}) = {}
      /\ TestsUnder({"failed", "forced-pass", "forced-fail"}) = {}
    <2> DEFINE others == RESULT_STATUS_KEYS \ {"ignored", "success"}
    <2>1. {"skipped"} \subseteq others /\ {"failed", "forced-pass", "forced-fail"} \subseteq others
        BY DEF RESULT_STATUS_KEYS
    <2>2. TestsUnder(others) = {}
        OBVIOUS
    <2> HIDE DEF others
    <2>3. TestsUnder({"skipped"}) \subseteq TestsUnder(others)
        BY <2>1, EntriesMonotone
    <2>4. TestsUnder({"failed", "forced-pass", "forced-fail"}) \subseteq TestsUnder(others)
        BY <2>1, EntriesMonotone
    <2> QED
        BY <2>2, <2>3, <2>4
<1>2. TestsUnder(RESULT_STATUS_KEYS) = corpus
    BY <1>1, PassedOrIgnored
<1>3. duplicate_ids = {}
    BY <1>2, ListedOnceNoDuplicates
<1>4. ResultSetFailures = {}
    <2>1. Cardinality(all_results) = EXPECTED_CRS_TEST_COUNT
        BY <1>2, EntriesOfFiniteCorpus
    <2> QED
        BY <1>2, <2>1 DEF ResultSetFailures
<1>5. IgnoreFailures = {}
    BY DEF IgnoreFailures, MatchesReviewed, Required
<1> QED
    BY <1>1, <1>3, <1>4, <1>5 DEF qualification_failures

-----------------------------------------------------------------------------
(* Sums.  MapThenSumSet adds up numbers by a recursive function on sets.   *)
(* Where the numbers are the cardinalities of disjoint sets, the function  *)
(* is the cardinality of their union: that function satisfies the          *)
(* recursion, and no other does, for a smallest set on which two of them   *)
(* differ would have to be empty.                                          *)

\* The elements of the members of a family of sets.
Parts(F, s) == UNION {F[c] : c \in s}

\* Finitely many finite sets, no two of which share an element.
Family(F, D) ==
    /\ IsFiniteSet(D)
    /\ \A c \in D : IsFiniteSet(F[c])
    /\ \A c, d \in D : c # d => F[c] \cap F[d] = {}

\* What MapThenSumSet's function satisfies for the cardinalities of a family.
Sums(iter, F, D) ==
    iter = [s \in SUBSET D |->
                IF s = {} THEN 0
                ELSE Cardinality(F[CHOOSE x \in s : TRUE])
                         + iter[s \ {CHOOSE x \in s : TRUE}]]

\* Among subsets of a finite set one is smallest.
LEMMA SmallestSubset ==
    ASSUME NEW D, IsFiniteSet(D), NEW B, B \subseteq SUBSET D, B # {}
    PROVE  \E s \in B : \A t \in B : t \subseteq s => t = s
<1>1. IsWellFoundedOn(StrictSubsetOrdering(D), SUBSET D)
    BY FS_StrictSubsetOrderingWellFounded, FS_FiniteSubsetsOfFinite
<1>2. PICK s \in B : \A t \in B : <<t, s>> \notin StrictSubsetOrdering(D)
    BY <1>1, WFMin
<1>3. ASSUME NEW t \in B, t \subseteq s, t # s
      PROVE  FALSE
    <2>1. <<t, s>> \in (SUBSET D) \X (SUBSET D)
        OBVIOUS
    <2>2. <<t, s>> \in StrictSubsetOrdering(D)
        BY <1>3, <2>1 DEF StrictSubsetOrdering
    <2> QED
        BY <1>2, <2>2
<1> QED
    BY <1>2, <1>3

\* Taking one member out of a family.
LEMMA PartsSplit ==
    ASSUME NEW F, NEW D, Family(F, D), NEW s \in SUBSET D, NEW x \in s
    PROVE  /\ Parts(F, s) = F[x] \cup Parts(F, s \ {x})
           /\ F[x] \cap Parts(F, s \ {x}) = {}
BY DEF Parts, Family

LEMMA PartsFinite ==
    ASSUME NEW F, NEW D, Family(F, D), NEW s \in SUBSET D
    PROVE  IsFiniteSet(Parts(F, s))
<1> DEFINE B == {t \in SUBSET D : ~ IsFiniteSet(Parts(F, t))}
<1> SUFFICES ASSUME B # {}
             PROVE  FALSE
    OBVIOUS
<1>1. PICK t \in B : \A u \in B : u \subseteq t => u = t
    <2>1. IsFiniteSet(D) /\ B \subseteq SUBSET D
        BY DEF Family
    <2> HIDE DEF B
    <2> QED
        BY <2>1, SmallestSubset
<1>2. Parts(F, {}) = {}
    BY DEF Parts
<1>3. t # {}
    BY <1>2, FS_EmptySet
<1>4. PICK x : x \in t
    BY <1>3
<1>5. IsFiniteSet(Parts(F, t \ {x})) /\ IsFiniteSet(F[x])
    BY <1>1, <1>4 DEF Family
<1>6. Parts(F, t) = F[x] \cup Parts(F, t \ {x})
    BY <1>4, PartsSplit
<1> QED
    BY <1>1, <1>5, <1>6, FS_Union

LEMMA PartsCount ==
    ASSUME NEW F, NEW D, Family(F, D), NEW s \in SUBSET D, NEW x \in s
    PROVE  Cardinality(Parts(F, s)) = Cardinality(F[x]) + Cardinality(Parts(F, s \ {x}))
<1> DEFINE rest == Parts(F, s \ {x})
<1>1. IsFiniteSet(F[x])
    BY DEF Family
<1>2. IsFiniteSet(rest)
    BY PartsFinite
<1>3. Parts(F, s) = F[x] \cup rest /\ F[x] \cap rest = {}
    BY PartsSplit
<1> HIDE DEF rest
<1>4. Cardinality(F[x] \cup rest)
        = Cardinality(F[x]) + Cardinality(rest) - Cardinality(F[x] \cap rest)
    BY <1>1, <1>2, FS_Union
<1>5. Cardinality(F[x]) \in Nat /\ Cardinality(rest) \in Nat
    BY <1>1, <1>2, FS_CardinalityType
<1>6. Cardinality(F[x] \cap rest) = 0
    BY <1>3, FS_EmptySet
<1>7. Cardinality(Parts(F, s)) = Cardinality(F[x]) + Cardinality(rest)
    BY <1>3, <1>4, <1>5, <1>6
<1> QED
    BY <1>7 DEF rest

\* There is such a function.
LEMMA SumExists ==
    ASSUME NEW F, NEW D, Family(F, D)
    PROVE  Sums([s \in SUBSET D |-> Cardinality(Parts(F, s))], F, D)
<1> DEFINE size == [s \in SUBSET D |-> Cardinality(Parts(F, s))]
<1>1. ASSUME NEW s \in SUBSET D
      PROVE  size[s] = IF s = {} THEN 0
                       ELSE Cardinality(F[CHOOSE x \in s : TRUE])
                                + size[s \ {CHOOSE x \in s : TRUE}]
    <2>1. CASE s = {}
        <3>1. Parts(F, s) = {}
            BY <2>1 DEF Parts
        <3> QED
            BY <2>1, <3>1, FS_EmptySet
    <2>2. CASE s # {}
        <3> DEFINE x == CHOOSE x \in s : TRUE
        <3>1. x \in s
            BY <2>2
        <3>2. s \ {x} \in SUBSET D
            OBVIOUS
        <3> HIDE DEF x
        <3>3. size[s] = Cardinality(F[x]) + size[s \ {x}]
            BY <3>1, <3>2, PartsCount
        <3> QED
            BY <2>2, <3>3 DEF x
    <2> QED
        BY <2>1, <2>2
<1> QED
    BY <1>1 DEF Sums

\* It counts the elements of the union.
LEMMA SumIsCount ==
    ASSUME NEW F, NEW D, Family(F, D), NEW iter, Sums(iter, F, D)
    PROVE  iter[D] = Cardinality(Parts(F, D))
<1> DEFINE B == {s \in SUBSET D : iter[s] # Cardinality(Parts(F, s))}
<1> SUFFICES ASSUME B # {}
             PROVE  FALSE
    OBVIOUS
<1>1. PICK s \in B : \A t \in B : t \subseteq s => t = s
    <2>1. IsFiniteSet(D) /\ B \subseteq SUBSET D
        BY DEF Family
    <2> HIDE DEF B
    <2> QED
        BY <2>1, SmallestSubset
<1>2. iter[s] = IF s = {} THEN 0
                ELSE Cardinality(F[CHOOSE x \in s : TRUE])
                         + iter[s \ {CHOOSE x \in s : TRUE}]
    BY DEF Sums
<1>3. s # {}
    <2>1. Parts(F, {}) = {}
        BY DEF Parts
    <2> QED
        BY <1>2, <2>1, FS_EmptySet
<1> DEFINE x == CHOOSE x \in s : TRUE
<1>4. x \in s
    BY <1>3
<1>5. iter[s] = Cardinality(F[x]) + iter[s \ {x}]
    BY <1>2, <1>3
<1> HIDE DEF x
<1>6. iter[s \ {x}] = Cardinality(Parts(F, s \ {x}))
    BY <1>1, <1>4
<1>7. Cardinality(Parts(F, s)) = Cardinality(F[x]) + Cardinality(Parts(F, s \ {x}))
    BY <1>4, PartsCount
<1> QED
    BY <1>1, <1>5, <1>6, <1>7

\* A sum of cardinalities.
LEMMA SumOfFamily ==
    ASSUME NEW F, NEW D, Family(F, D)
    PROVE  (CHOOSE iter : Sums(iter, F, D))[D] = Cardinality(Parts(F, D))
<1>1. \E iter : Sums(iter, F, D)
    BY SumExists
<1>2. Sums(CHOOSE iter : Sums(iter, F, D), F, D)
    BY <1>1
<1> QED
    BY <1>2, SumIsCount

\* The numbers under a status in the rows of some categories, and in those of
\* some traffic sides.
RowsTotal(status, D) == LET row(c) == result_rows[c][status] IN MapThenSumSet(row, D)

SidesTotal(status, D) == LET side(s) == traffic_side_counts[s][status] IN MapThenSumSet(side, D)

LEMMA RowsSum ==
    ASSUME NEW status, NEW D, NEW F, Family(F, D),
           \A c \in D : result_rows[c][status] = Cardinality(F[c])
    PROVE  RowsTotal(status, D) = Cardinality(Parts(F, D))
<1> DEFINE RowSums(iter) ==
        iter = [s \in SUBSET D |->
                    IF s = {} THEN 0
                    ELSE result_rows[CHOOSE x \in s : TRUE][status]
                             + iter[s \ {CHOOSE x \in s : TRUE}]]
<1>1. ASSUME NEW iter
      PROVE  Sums(iter, F, D) <=> RowSums(iter)
    <2>1. \A s \in SUBSET D : s # {} => (CHOOSE x \in s : TRUE) \in D
        OBVIOUS
    <2> QED
        BY <2>1 DEF Sums
<1>2. (CHOOSE iter : Sums(iter, F, D)) = (CHOOSE iter : RowSums(iter))
    BY <1>1
<1> QED
    BY <1>2, SumOfFamily DEF RowsTotal, MapThenSumSet, MapThenFoldSet

LEMMA SidesSum ==
    ASSUME NEW status, NEW D, NEW F, Family(F, D),
           \A s \in D : traffic_side_counts[s][status] = Cardinality(F[s])
    PROVE  SidesTotal(status, D) = Cardinality(Parts(F, D))
<1> DEFINE SideSums(iter) ==
        iter = [s \in SUBSET D |->
                    IF s = {} THEN 0
                    ELSE traffic_side_counts[CHOOSE x \in s : TRUE][status]
                             + iter[s \ {CHOOSE x \in s : TRUE}]]
<1>1. ASSUME NEW iter
      PROVE  Sums(iter, F, D) <=> SideSums(iter)
    <2>1. \A s \in SUBSET D : s # {} => (CHOOSE x \in s : TRUE) \in D
        OBVIOUS
    <2> QED
        BY <2>1 DEF Sums
<1>2. (CHOOSE iter : Sums(iter, F, D)) = (CHOOSE iter : SideSums(iter))
    BY <1>1
<1> QED
    BY <1>2, SumOfFamily DEF SidesTotal, MapThenSumSet, MapThenFoldSet

-----------------------------------------------------------------------------
(* The tables. *)

\* A list has as many entries as it is long.
LEMMA EntriesOfStatus ==
    ASSUME VerdictTypeOK, NEW status \in RESULT_STATUS_KEYS
    PROVE  /\ IsFiniteSet(EntriesUnder({status}))
           /\ Cardinality(EntriesUnder({status})) = Len(results[status])
<1>1. results[status] \in Seq(Tests)
    BY DEF VerdictTypeOK
<1> DEFINE n == Len(results[status])
           entry == [i \in 1..n |-> <<status, i>>]
<1>2. n \in Nat /\ DOMAIN results[status] = 1..n
    BY <1>1
<1>3. EntriesUnder({status}) = {<<status, i>> : i \in 1..n}
    BY <1>2 DEF EntriesUnder
<1>4. entry \in [1..n -> EntriesUnder({status})]
    BY <1>3
<1>5. \A i, j \in 1..n : entry[i] = entry[j] => i = j
    OBVIOUS
<1>6. \A e \in EntriesUnder({status}) : \E i \in 1..n : entry[i] = e
    BY <1>3
<1> HIDE DEF entry, n
<1>7. entry \in Bijection(1..n, EntriesUnder({status}))
    BY <1>4, <1>5, <1>6, Fun_IsBij
<1>8. ExistsBijection(1..n, EntriesUnder({status}))
    BY <1>7 DEF ExistsBijection
<1>9. IsFiniteSet(1..n) /\ Cardinality(1..n) = n
    BY <1>2, FS_Interval
<1> QED
    BY <1>8, <1>9, FS_Bijection DEF n

\* A function has finitely many values on a finite set.
LEMMA FiniteImage ==
    ASSUME NEW S, IsFiniteSet(S), NEW f
    PROVE  IsFiniteSet({f[x] : x \in S})
<1> DEFINE T == {f[x] : x \in S}
           g == [x \in S |-> f[x]]
<1>1. g \in [S -> T] /\ \A t \in T : \E x \in S : g[x] = t
    OBVIOUS
<1> HIDE DEF g, T
<1>2. g \in Surjection(S, T)
    BY <1>1 DEF Surjection
<1>3. IsFiniteSet(T)
    BY <1>2, FS_Surjection
<1> QED
    BY <1>3 DEF T

\* All results are finitely many.
LEMMA ResultsFinite ==
    ASSUME VerdictTypeOK
    PROVE  IsFiniteSet(all_results)
<1> DEFINE F == [s \in RESULT_STATUS_KEYS |-> EntriesUnder({s})]
<1>1. IsFiniteSet(RESULT_STATUS_KEYS)
    <2>1. IsFiniteSet({"success"} \cup {"failed"} \cup {"skipped"})
        BY FS_Singleton, FS_Union
    <2>2. IsFiniteSet({"ignored"} \cup {"forced-pass"} \cup {"forced-fail"})
        BY FS_Singleton, FS_Union
    <2>3. RESULT_STATUS_KEYS = ({"success"} \cup {"failed"} \cup {"skipped"})
                                    \cup ({"ignored"} \cup {"forced-pass"} \cup {"forced-fail"})
        BY DEF RESULT_STATUS_KEYS
    <2> QED
        BY <2>1, <2>2, <2>3, FS_Union
<1>2. Family(F, RESULT_STATUS_KEYS)
    <2>1. \A s \in RESULT_STATUS_KEYS : IsFiniteSet(F[s])
        BY EntriesOfStatus
    <2>2. \A s \in RESULT_STATUS_KEYS : \A e \in F[s] : e[1] = s
        BY DEF EntriesUnder
    <2> HIDE DEF F
    <2> QED
        BY <1>1, <2>1, <2>2 DEF Family
<1>3. Parts(F, RESULT_STATUS_KEYS) = all_results
    BY DEF Parts, all_results, EntriesUnder
<1> HIDE DEF F
<1> QED
    BY <1>2, <1>3, PartsFinite

\* The categories of the rows are finitely many, and each entry has its own.
LEMMA RowCategories ==
    ASSUME VerdictTypeOK
    PROVE  /\ IsFiniteSet(row_categories)
           /\ DOMAIN result_rows = row_categories
           /\ \A status \in RESULT_STATUS_KEYS : \A e \in EntriesUnder({status}) :
                rule_index(TestOf(e)) \in row_categories
<1>1. IsFiniteSet(row_categories)
    <2> DEFINE f == [e \in all_results |-> rule_index(TestOf(e))]
    <2>1. row_categories = {f[e] : e \in all_results}
        BY DEF row_categories
    <2> HIDE DEF f
    <2> QED
        BY <2>1, ResultsFinite, FiniteImage
<1>2. DOMAIN result_rows = row_categories
    BY DEF result_rows
<1>3. ASSUME NEW status \in RESULT_STATUS_KEYS, NEW e \in EntriesUnder({status})
      PROVE  rule_index(TestOf(e)) \in row_categories
    <2>1. e \in all_results
        BY EntriesMonotone DEF all_results
    <2> QED
        BY <2>1 DEF row_categories
<1> QED
    BY <1>1, <1>2, <1>3

\* Both tables add up to the length of each list.
LEMMA TablesAddUp ==
    ASSUME VerdictTypeOK
    PROVE  NothingDisappears
<1> SUFFICES ASSUME NEW status \in RESULT_STATUS_KEYS
             PROVE  LET row(category) == result_rows[category][status]
                        side(s) == traffic_side_counts[s][status]
                    IN  /\ MapThenSumSet(row, DOMAIN result_rows) = Len(results[status])
                        /\ MapThenSumSet(side, DOMAIN traffic_side_counts)
                                = Len(results[status])
    BY DEF NothingDisappears
<1> DEFINE E == EntriesUnder({status})
           category_of == [e \in E |-> rule_index(TestOf(e))]
           D == row_categories
           F == [c \in D |-> {e \in E : category_of[e] = c}]
           sides == {Side[c] : c \in D}
           G == [s \in sides |-> {e \in E : Side[category_of[e]] = s}]
<1>1. IsFiniteSet(E) /\ Cardinality(E) = Len(results[status])
    BY EntriesOfStatus
<1>2. IsFiniteSet(D) /\ DOMAIN result_rows = D /\ \A e \in E : category_of[e] \in D
    BY RowCategories
<1>3. \A c \in D : result_rows[c][status] = Cardinality(F[c])
    BY DEF result_rows
<1>4. IsFiniteSet(sides) /\ DOMAIN traffic_side_counts = sides
    <2>1. DOMAIN traffic_side_counts = sides
        BY <1>2 DEF traffic_side_counts
    <2> HIDE DEF D
    <2> QED
        BY <1>2, <2>1, FiniteImage
<1> HIDE DEF E, D, category_of
<1>5. Family(F, D) /\ Parts(F, D) = E
    <2>1. \A c \in D : IsFiniteSet(F[c])
        BY <1>1, FS_Subset
    <2> QED
        BY <1>2, <2>1 DEF Family, Parts
<1>6. Family(G, sides) /\ Parts(G, sides) = E
    <2>1. \A s \in sides : IsFiniteSet(G[s])
        BY <1>1, FS_Subset
    <2>2. \A e \in E : Side[category_of[e]] \in sides
        BY <1>2
    <2> HIDE DEF sides
    <2> QED
        BY <1>4, <2>1, <2>2 DEF Family, Parts
<1> HIDE DEF F
<1>7. ASSUME NEW s \in sides
      PROVE  traffic_side_counts[s][status] = Cardinality(G[s])
    <2> DEFINE C == {c \in D : Side[c] = s}
    <2>1. Family(F, C)
        BY <1>2, <1>5, FS_Subset DEF Family
    <2>2. Parts(F, C) = G[s]
        BY <1>2 DEF Parts, F
    <2>3. \A c \in C : result_rows[c][status] = Cardinality(F[c])
        BY <1>3
    <2>4. traffic_side_counts[s][status] = RowsTotal(status, C)
        BY <1>2, <1>4 DEF traffic_side_counts, RowsTotal, MapThenSumSet, MapThenFoldSet
    <2> HIDE DEF C, G
    <2>5. RowsTotal(status, C) = Cardinality(Parts(F, C))
        BY <2>1, <2>3, RowsSum
    <2> QED
        BY <2>2, <2>4, <2>5
<1> HIDE DEF G, sides
<1>8. RowsTotal(status, D) = Cardinality(E)
    BY <1>3, <1>5, RowsSum
<1>9. SidesTotal(status, sides) = Cardinality(E)
    BY <1>6, <1>7, SidesSum
<1> QED
    BY <1>1, <1>2, <1>4, <1>8, <1>9
    DEF RowsTotal, SidesTotal, MapThenSumSet, MapThenFoldSet

-----------------------------------------------------------------------------
(* The analysis of failures. *)

\* A failure is put down to rule identifiers exactly if they do not hold.
LEMMA ClassificationIsRight ==
    ASSUME NEW t
    PROVE  failure_detail(t).classification \in
                (IF /\ metadata(t).expected_ids \subseteq triggered[t]
                    /\ metadata(t).forbidden_ids \cap triggered[t] = {}
                 THEN {"log-regex-mismatch", "status-or-response-mismatch",
                       "transport-error-mismatch", "unclassified-assertion-mismatch"}
                 ELSE {"missing-and-unexpected-rule-ids", "missing-expected-rule-id",
                       "unexpected-forbidden-rule-id"})
<1> DEFINE m == metadata(t)
           missing == m.expected_ids \ triggered[t]
           unexpected == m.forbidden_ids \cap triggered[t]
<1>1. failure_detail(t).classification = classification(missing, unexpected, m)
    BY DEF failure_detail
<1>2. missing = {} <=> m.expected_ids \subseteq triggered[t]
    OBVIOUS
<1> HIDE DEF m, missing
<1>3. CASE missing = {} /\ unexpected = {}
    BY <1>1, <1>2, <1>3 DEF classification, m
<1>4. CASE missing # {} \/ unexpected # {}
    BY <1>1, <1>2, <1>4 DEF classification, m
<1> QED
    BY <1>3, <1>4

\* A failed test of the corpus is counted where its row is, and one of which
\* the corpus does not know nowhere else.
LEMMA FailureIsInItsRow ==
    ASSUME VerdictTypeOK, NEW category, category # "UNMAPPED",
           {t \in TestsUnder({"failed"}) : rule_index(t) = category} \subseteq corpus,
           NEW t \in TestsUnder({"failed"})
    PROVE  metadata(t).category = category <=> rule_index(t) = category
<1>1. CASE t \in corpus
    BY <1>1 DEF metadata, rule_index
<1>2. CASE t \notin corpus
    <2>1. metadata(t).category = "UNMAPPED"
        BY <1>2 DEF metadata
    <2>2. rule_index(t) # category
        BY <1>2
    <2> QED
        BY <2>1, <2>2
<1> QED
    BY <1>1, <1>2

\* The failures counted for a category are the entries of its row.
LEMMA FailuresOfRow ==
    ASSUME VerdictTypeOK, NEW category, category # "UNMAPPED",
           {t \in TestsUnder({"failed"}) : rule_index(t) = category} \subseteq corpus
    PROVE  Cardinality({e \in EntriesUnder({"failed"}) : rule_index(TestOf(e)) = category})
             = Cardinality({i \in DOMAIN classify_failures :
                                classify_failures[i].category = category})
<1> DEFINE I == {i \in DOMAIN classify_failures : classify_failures[i].category = category}
           E == {e \in EntriesUnder({"failed"}) : rule_index(TestOf(e)) = category}
           entry == [i \in I |-> <<"failed", i>>]
<1>1. DOMAIN classify_failures = DOMAIN results["failed"]
    BY DEF classify_failures
<1>2. EntriesUnder({"failed"}) = {<<"failed", i>> : i \in DOMAIN results["failed"]}
    BY DEF EntriesUnder
<1>3. ASSUME NEW i \in DOMAIN results["failed"]
      PROVE  i \in I <=> <<"failed", i>> \in E
    <2>1. <<"failed", i>> \in EntriesUnder({"failed"}) /\ TestOf(<<"failed", i>>) = results["failed"][i]
        BY <1>2 DEF TestOf
    <2>2. results["failed"][i] \in TestsUnder({"failed"})
        BY <2>1 DEF TestsUnder
    <2>3. classify_failures[i].category = metadata(results["failed"][i]).category
        BY DEF classify_failures, failure_detail
    <2>4. classify_failures[i].category = category <=> rule_index(results["failed"][i]) = category
        BY <2>2, <2>3, FailureIsInItsRow
    <2> QED
        BY <1>1, <2>1, <2>4
<1>4. I \subseteq DOMAIN results["failed"]
    BY <1>1
<1>5. \A e \in E : \E i \in DOMAIN results["failed"] : e = <<"failed", i>>
    BY <1>2
<1> HIDE DEF I, E
<1>6. entry \in [I -> E]
    BY <1>3, <1>4
<1>7. \A i, j \in I : entry[i] = entry[j] => i = j
    OBVIOUS
<1>8. \A e \in E : \E i \in I : entry[i] = e
    BY <1>3, <1>5
<1> HIDE DEF entry
<1>9. ExistsBijection(I, E)
    <2>1. entry \in Bijection(I, E)
        BY <1>6, <1>7, <1>8, Fun_IsBij
    <2> QED
        BY <2>1 DEF ExistsBijection
<1>10. IsFiniteSet(I)
    <2>1. results["failed"] \in Seq(Tests)
        BY DEF VerdictTypeOK, RESULT_STATUS_KEYS
    <2>2. DOMAIN results["failed"] = 1..Len(results["failed"]) /\ Len(results["failed"]) \in Nat
        BY <2>1
    <2>3. IsFiniteSet(DOMAIN results["failed"])
        BY <2>2, FS_Interval
    <2> QED
        BY <1>4, <2>3, FS_Subset
<1>11. Cardinality(E) = Cardinality(I)
    BY <1>9, <1>10, FS_Bijection
<1> QED
    BY <1>11 DEF I, E

LEMMA FailuresAreExplained ==
    ASSUME VerdictTypeOK
    PROVE  FailuresExplained
<1>1. ASSUME NEW i \in DOMAIN results["failed"]
      PROVE  classify_failures[i] = failure_detail(results["failed"][i])
    BY DEF classify_failures
<1>2. ASSUME NEW category \in DOMAIN result_rows, category # "UNMAPPED",
             {t \in TestsUnder({"failed"}) : rule_index(t) = category} \subseteq corpus
      PROVE  result_rows[category]["failed"] =
                Cardinality({i \in DOMAIN classify_failures :
                                classify_failures[i].category = category})
    <2>1. result_rows[category]["failed"] =
            Cardinality({e \in EntriesUnder({"failed"}) : rule_index(TestOf(e)) = category})
        BY RowCategories DEF result_rows, RESULT_STATUS_KEYS
    <2> QED
        BY <1>2, <2>1, FailuresOfRow
<1> QED
    BY <1>1, <1>2, ClassificationIsRight DEF FailuresExplained

-----------------------------------------------------------------------------

\* The results are lists of tests under the six statuses, whatever is listed.
THEOREM VerdictTypeCorrect == VerdictSpec => []VerdictTypeOK
<1>1. VerdictInit => VerdictTypeOK
  <2> SUFFICES ASSUME VerdictInit PROVE VerdictTypeOK
      OBVIOUS
  <2>1. results \in [RESULT_STATUS_KEYS -> Seq(Tests)]
      BY DEF VerdictInit
  <2>2. triggered \in [Tests -> SUBSET Rules]
      BY DEF VerdictInit
  <2> QED
      BY <2>1, <2>2 DEF VerdictInit, VerdictTypeOK
<1>2. VerdictTypeOK /\ [VerdictNext]_verdictVars => VerdictTypeOK'
  <2> SUFFICES ASSUME VerdictTypeOK, [VerdictNext]_verdictVars PROVE VerdictTypeOK'
      OBVIOUS
  <2>1. CASE Exit
      BY <2>1 DEF VerdictTypeOK, Exit
  <2>2. ASSUME NEW t \in Tests, NEW status \in RESULT_STATUS_KEYS, List(t, status)
        PROVE  VerdictTypeOK'
      <3>1. results' \in [RESULT_STATUS_KEYS -> Seq(Tests)]
        <4>1. results[status] \in Seq(Tests)
            BY DEF VerdictTypeOK
        <4>2. Append(results[status], t) \in Seq(Tests)
            BY <4>1, AppendProperties
        <4> QED
            BY <2>2, <4>2 DEF List, VerdictTypeOK
      <3>2. triggered' \in [Tests -> SUBSET Rules]
        <4>1. PICK ids \in SUBSET (IF status = "failed" THEN Rules ELSE {}) :
                triggered' = [triggered EXCEPT ![t] = @ \cup ids]
            BY <2>2 DEF List
        <4>2. ids \subseteq Rules
            BY <4>1
        <4> QED
            BY <4>1, <4>2 DEF VerdictTypeOK
      <3> QED
        BY <2>2, <3>1, <3>2 DEF List, VerdictTypeOK
  <2>3. CASE UNCHANGED verdictVars
      BY <2>3 DEF VerdictTypeOK, verdictVars
  <2> QED
      BY <2>1, <2>2, <2>3 DEF VerdictNext
<1> QED
    BY <1>1, <1>2, PTL DEF VerdictSpec

\* A required run qualifies exactly when its results account for every pinned
\* test, as passed or as a reviewed exclusion.
THEOREM VerdictIsExact == VerdictSpec => []QualifiesExactly
<1>1. VerdictTypeOK => QualifiesExactly
    BY VerdictIsSound, CompleteRunQualifies, CorporaAssumption DEF VerdictTypeOK, QualifiesExactly
<1> QED
    BY <1>1, VerdictTypeCorrect, PTL

\* The report accounts for every entry go-ftw listed: its tables add up, and
\* what it says of a failure is so.
THEOREM ReportComplete == VerdictSpec => []ReportIsComplete
<1>1. VerdictTypeOK => ReportIsComplete
    BY TablesAddUp, FailuresAreExplained DEF ReportIsComplete
<1> QED
    BY <1>1, VerdictTypeCorrect, PTL

-----------------------------------------------------------------------------
(* The invariant of the processes.  ProcessesAreStopped speaks of the ends *)
(* of runs; what makes it inductive is what run() knows of its processes   *)
(* at each stage and what the finally clause has stopped by then.          *)

\* Nothing has been done yet for a run to come.
Untouched ==
    \A r \in Runs : r > run =>
        /\ ended[r] = "no" /\ go_ftw[r] = "none" /\ r \notin created
        /\ \A p \in Servers : server[<<r, p>>] = "none"

\* The current run has ended exactly if its stage says how, and all before it
\* have.
EndsKnown ==
    /\ ended[run] = IF stage \in Ends THEN stage ELSE "no"
    /\ \A r \in Runs : r < run => ended[r] # "no"

\* go-ftw runs while it is waited for, and survives only a script that is killed then.
GoFtwBounded ==
    \A r \in Runs : go_ftw[r] = "running" =>
        \/ ended[r] = "orphaned"
        \/ r = run /\ stage = "go_ftw"

Begun(p) == server[<<run, p>>] # "none"

Known(p) == Begun(p) => p \in script.recorded

\* A process whose Popen has not been assigned: between the two steps, or
\* after a Ctrl+C that came there.
Unassigned(p, record) ==
    /\ ~ Known(p)
    /\ \/ stage = record
       \/ stage \in StopStages \cup {"cleanup"} /\ script.interrupted
          /\ <<run, p>> \in unrecorded

BeforeAlbedo == {"preflight", "corpus", "spawn_albedo"}

BeforeEnvoy ==
    BeforeAlbedo \cup {"record_albedo", "wait_for_http", "configure", "validate", "spawn_envoy"}

\* What run() knows of its processes.
ServersKnown ==
    stage \in Stages =>
        /\ Known("albedo") \/ (Unassigned("albedo", "record_albedo") /\ ~ Begun("envoy"))
        /\ Known("envoy") \/ Unassigned("envoy", "record_envoy")
        /\ stage \in BeforeAlbedo => ~ Begun("albedo")
        /\ stage \in BeforeEnvoy => ~ Begun("envoy")
        /\ stage = "record_albedo" => Begun("albedo")
        /\ stage = "record_envoy" => Begun("envoy")

\* What the finally clause has stopped.
ServersStopped ==
    /\ stage \in {"stop_albedo", "cleanup"} =>
            ("envoy" \in script.recorded => ~ Alive(run, "envoy"))
    /\ stage = "cleanup" => ("albedo" \in script.recorded => ~ Alive(run, "albedo"))
    /\ stage \in LastStages => \A p \in Servers : ~ Alive(run, p)

\* The temporary directory exists between preflight and cleanup.
DirectoryBounded == stage \in {"preflight"} \cup LastStages => run \notin created

\* What a run has begun and not yet undone, for all runs.
RunsBounded ==
    Untouched /\ EndsKnown /\ GoFtwBounded /\ DirectoryBounded /\ NothingLeftBehind

StoppingInv == TypeOK /\ RunsBounded /\ ServersKnown /\ ServersStopped

-----------------------------------------------------------------------------
(* The invariant of the evidence.  EvidenceIsHonest speaks of a run that   *)
(* has ended with a verdict, and of the files as they are then: before     *)
(* that, what the run reads and writes has to be its own.                  *)

\* The script has read its results, and nothing has failed.
AfterReading ==
    \/ stage \in StopStages \cup {"cleanup"} /\ ~ script.error /\ ~ script.interrupted
    \/ stage = "diagnostics" /\ ~ script.error
    \/ stage \in LastStages \ {"diagnostics"}

\* The status a run judges is its own go-ftw's.  As long as no go-ftw of a killed
\* run is about, what it reads after a zero is its own, and the file it has
\* written stays.
ResultsOwn ==
    /\ AfterReading \/ stage = "read" => script.returncode = go_ftw[run]
    /\ NoneOrphaned =>
        /\ stage \in {"go_ftw", "read"} /\ go_ftw[run] = "zero" =>
                raw.state = "results" /\ raw.results.of = run
        /\ AfterReading /\ script.returncode = "zero" => script.results.of = run
        /\ stage \in {"open_report", "write_report", "return"} => raw = Payload
    /\ stage = "return" => report = Markdown

EvidenceInv == ResultsOwn /\ EvidenceIsHonest

ScriptType ==
    [recorded : SUBSET Servers, waiting : {"no", "terminated", "killed"},
     error : BOOLEAN, interrupted : BOOLEAN,
     returncode : {"zero", "not zero"}, results : Results]

\* The types of everything but the place the script is at.
DataTyped ==
    /\ script \in ScriptType
    /\ \A p \in script.recorded : server[<<run, p>>] # "none"
    /\ server \in [Runs \X Servers -> {"none", "starting", "ready", "dead"}]
    /\ go_ftw \in [Runs -> {"none", "running", "zero", "not zero"}]
    /\ outlived \subseteq Runs \X Servers
    /\ unrecorded \subseteq Runs \X Servers
    /\ created \subseteq Runs
    /\ raw \in RawFiles
    /\ report \in Reports

-----------------------------------------------------------------------------
(* Steps of the script, by their effect on the runs *)

\* A stage is no end.
LEMMA StagesAreNoEnds == Stages \cap Ends = {}
BY DEF Stages, Ends, TryStages, StopStages, LastStages

\* The types without the place the script is at.
LEMMA DataIsTyped == TypeOK => DataTyped
BY DEF TypeOK, DataTyped, ScriptType

\* Runs are numbered.
LEMMA RunsAreNumbers ==
    ASSUME TypeOK
    PROVE  /\ run \in Runs /\ run \in Nat
           /\ \A r \in Runs : r \in Nat
<1>1. \A r \in Runs : r \in Nat
    BY MaxRunsAssumption DEF Runs
<1>2. run \in Runs
    BY DEF TypeOK
<1>3. QED
    BY <1>1, <1>2

\* The script ends its run.
LEMMA EndEffect ==
    ASSUME TypeOK, End(stage'), stage' \in Ends
    PROVE  /\ run' = run
           /\ ended' \in [Runs -> Ends \cup {"no"}]
           /\ ended'[run] = stage'
           /\ \A r \in Runs : r # run => ended'[r] = ended[r]
BY DEF TypeOK, End

\* A step from one stage of a run to another, which creates no process but
\* go-ftw.
LEMMA StepContinues ==
    ASSUME TypeOK, RunsBounded, stage \in Stages, stage' \in Stages, UNCHANGED <<run, ended>>,
           DataTyped', server' = server,
           outlived \subseteq outlived', unrecorded \subseteq unrecorded',
           \A r \in Runs : r # run => go_ftw'[r] = go_ftw[r],
           go_ftw'[run] = "running" => stage' = "go_ftw",
           \A r \in Runs : r # run => (r \in created' <=> r \in created),
           stage' \in {"preflight"} \cup LastStages => run \notin created'
    PROVE  TypeOK' /\ RunsBounded'
<1>1. /\ run' = run /\ ended' = ended
      /\ ended[run] = "no" /\ run \in Runs /\ run \in Nat /\ \A r \in Runs : r \in Nat
      /\ stage' \notin Ends
    <2>1. stage \notin Ends /\ stage' \notin Ends
        BY StagesAreNoEnds
    <2>2. QED
        BY <2>1, RunsAreNumbers DEF RunsBounded, EndsKnown
<1>2. Untouched'
    BY <1>1 DEF RunsBounded, Untouched
<1>3. EndsKnown'
    BY <1>1 DEF RunsBounded, EndsKnown
<1>4. GoFtwBounded'
    BY <1>1 DEF RunsBounded, GoFtwBounded
<1>5. DirectoryBounded'
    BY <1>1 DEF DirectoryBounded
<1>6. NothingLeftBehind'
    <2>1. \A r, p : /\ Alive(r, p)' <=> Alive(r, p)
                    /\ Escaped(r, p) => Escaped(r, p)'
        BY DEF Alive, Escaped
    <2>2. NothingLeftBehind
        BY DEF RunsBounded
    <2>3. ASSUME NEW r \in Runs
          PROVE  /\ ended[r] \in {"0", "1"} => \A p \in Servers : ~ Alive(r, p)'
                 /\ ended[r] \in {"2", "interrupted"} =>
                        \A p \in Servers : Alive(r, p)' => Escaped(r, p)'
                 /\ go_ftw'[r] = "running" => ended[r] \in {"no", "orphaned"}
                 /\ r \in created' => ended[r] \in {"no", "killed", "orphaned"}
        BY <1>1, <2>1, <2>2, <2>3 DEF NothingLeftBehind
    <2>4. QED
        BY <1>1, <2>3 DEF NothingLeftBehind
<1>7. TypeOK'
    BY ZenonT(60), <1>1, RunsAreNumbers DEF TypeOK, DataTyped, ScriptType
<1>8. QED
    BY <1>2, <1>3, <1>4, <1>5, <1>6, <1>7 DEF RunsBounded

\* A step that ends a run.
LEMMA StepEnds ==
    ASSUME TypeOK, RunsBounded, stage \in Stages, stage' \in Ends, End(stage'),
           DataTyped', server' = server,
           \A r \in Runs : r # run => go_ftw'[r] = go_ftw[r],
           outlived \subseteq outlived', unrecorded \subseteq unrecorded',
           stage' # "orphaned" => go_ftw'[run] # "running",
           stage' \notin {"killed", "orphaned"} => run \notin created',
           \A r \in Runs : r # run => (r \in created' <=> r \in created),
           stage' \in {"0", "1"} => \A p \in Servers : ~ Alive(run, p),
           stage' \in {"2", "interrupted"} =>
                \A p \in Servers : Alive(run, p) => Escaped(run, p)'
    PROVE  TypeOK' /\ RunsBounded' /\ ServersKnown' /\ ServersStopped'
<1>1. /\ run' = run /\ ended'[run] = stage'
      /\ \A r \in Runs : r # run => ended'[r] = ended[r]
    BY EndEffect
<1>2. /\ run \in Runs /\ run \in Nat /\ \A r \in Runs : r \in Nat
      /\ stage' \notin Stages /\ stage' # "no"
    <2>1. stage' \notin Stages
        BY StagesAreNoEnds
    <2>2. stage' # "no"
        BY DEF Ends
    <2>3. QED
        BY <2>1, <2>2, RunsAreNumbers
<1>3. Untouched'
    BY <1>1, <1>2 DEF RunsBounded, Untouched
<1>4. EndsKnown'
    BY <1>1, <1>2 DEF RunsBounded, EndsKnown
<1>5. GoFtwBounded'
    BY <1>1, <1>2 DEF RunsBounded, GoFtwBounded, EndsKnown
<1>6. DirectoryBounded'
    BY <1>1, <1>2 DEF DirectoryBounded, Stages
<1>7. NothingLeftBehind'
    <2>1. \A r, p : /\ Alive(r, p)' <=> Alive(r, p)
                    /\ Escaped(r, p) => Escaped(r, p)'
        BY DEF Alive, Escaped
    <2>2. NothingLeftBehind
        BY DEF RunsBounded
    <2>3. ASSUME NEW r \in Runs
          PROVE  /\ ended'[r] \in {"0", "1"} => \A p \in Servers : ~ Alive(r, p)'
                 /\ ended'[r] \in {"2", "interrupted"} =>
                        \A p \in Servers : Alive(r, p)' => Escaped(r, p)'
                 /\ go_ftw'[r] = "running" => ended'[r] \in {"no", "orphaned"}
                 /\ r \in created' => ended'[r] \in {"no", "killed", "orphaned"}
        <3>1. CASE r # run
            BY <1>1, <2>1, <2>2, <2>3, <3>1 DEF NothingLeftBehind
        <3>2. CASE r = run
            BY <1>1, <2>1, <3>2
        <3>3. QED
            BY <3>1, <3>2
    <2>4. QED
        BY <2>3 DEF NothingLeftBehind
<1>8. ServersKnown' /\ ServersStopped'
    BY <1>1, <1>2 DEF ServersKnown, ServersStopped, Stages, StopStages
<1>9. TypeOK'
    BY <1>1, RunsAreNumbers, EndEffect DEF TypeOK, DataTyped, ScriptType
<1>10. QED
    BY <1>3, <1>4, <1>5, <1>6, <1>7, <1>8, <1>9 DEF RunsBounded
\* While a run is not over.
LEMMA Underway ==
    ASSUME TypeOK, RunsBounded, stage \in Stages
    PROVE  /\ ended[run] = "no"
           /\ go_ftw[run] = "running" => stage = "go_ftw"
           /\ stage \in {"preflight"} \cup LastStages => run \notin created
<1>1. stage \notin Ends /\ run \in Runs
    BY StagesAreNoEnds, RunsAreNumbers
<1>2. ended[run] = "no"
    BY <1>1 DEF RunsBounded, EndsKnown
<1>3. go_ftw[run] = "running" => stage = "go_ftw"
    BY <1>1, <1>2 DEF RunsBounded, GoFtwBounded
<1>4. QED
    BY <1>2, <1>3 DEF RunsBounded, DirectoryBounded

\* What the script writes are files.
LEMMA WrittenIsFile ==
    ASSUME TypeOK, DataTyped
    PROVE  /\ Payload \in RawFiles /\ [NoRaw EXCEPT !.state = "partial", !.of = run] \in RawFiles
           /\ Markdown \in Reports
           /\ [NoReport EXCEPT !.state = "partial", !.of = run] \in Reports
<1>1. run \in 0..MaxRuns /\ 0 \in 0..MaxRuns
    BY RunsAreNumbers, MaxRunsAssumption DEF Runs
<1>2. /\ script.results.of \in 0..MaxRuns /\ script.results.good \in BOOLEAN
      /\ script.returncode \in Statuses
    BY DEF DataTyped, ScriptType, Results, Statuses
<1>3. Qualifies \in BOOLEAN
    BY <1>2 DEF Qualifies
<1>4. Payload \in RawFiles /\ Markdown \in Reports
    BY <1>1, <1>2, <1>3 DEF Payload, Markdown, RawFiles, Reports, Results
<1>5. /\ [NoRaw EXCEPT !.state = "partial", !.of = run] \in RawFiles
      /\ [NoReport EXCEPT !.state = "partial", !.of = run] \in Reports
    BY <1>1 DEF NoRaw, NoReport, NoResults, RawFiles, Reports, Results, Statuses
<1>6. QED
    BY <1>4, <1>5

-----------------------------------------------------------------------------
(* The steps of run() *)

\* Steps that only read, or write into the temporary directory.
LEMMA ProceedStops ==
    ASSUME StoppingInv, Proceed
    PROVE  StoppingInv'
<1>1. TypeOK /\ RunsBounded /\ ServersKnown /\ ServersStopped /\ DataTyped
    BY DataIsTyped DEF StoppingInv
<1>2. DataTyped'
    BY <1>1 DEF Proceed, Continue, processes, history, outputs, DataTyped
<1>3. stage \in Stages /\ stage' \in Stages /\ UNCHANGED <<run, ended>>
    BY DEF Proceed, Continue, Stages, TryStages, StopStages, LastStages
<1>4. TypeOK' /\ RunsBounded'
    <2>1. /\ UNCHANGED <<server, outlived, unrecorded>>
          /\ \A r \in Runs : r # run => go_ftw'[r] = go_ftw[r]
          /\ go_ftw'[run] = "running" => stage' = "go_ftw"
          /\ \A r \in Runs : r # run => (r \in created' <=> r \in created)
          /\ stage' \in {"preflight"} \cup LastStages => run \notin created'
        BY <1>1, <1>3, Underway
        DEF Proceed, Continue, processes, history, TryStages, StopStages, LastStages
    <2>2. QED
        BY <1>1, <1>2, <1>3, <2>1, StepContinues
<1>5. ServersKnown' /\ ServersStopped'
    BY <1>1 DEF Proceed, Continue, processes, history, ServersKnown, ServersStopped, Known, Begun, Unassigned,
        Alive, Stages, TryStages, StopStages, LastStages, BeforeAlbedo, BeforeEnvoy
<1>6. QED
    BY <1>4, <1>5 DEF StoppingInv

\* Albedo is ready.
LEMMA wait_for_httpStops ==
    ASSUME StoppingInv, wait_for_http
    PROVE  StoppingInv'
<1>1. TypeOK /\ RunsBounded /\ ServersKnown /\ ServersStopped /\ DataTyped
    BY DataIsTyped DEF StoppingInv
<1>2. DataTyped'
    BY <1>1 DEF wait_for_http, Continue, processes, history, outputs, DataTyped
<1>3. stage \in Stages /\ stage' \in Stages /\ UNCHANGED <<run, ended>>
    BY DEF wait_for_http, Continue, Stages, TryStages, StopStages, LastStages
<1>4. TypeOK' /\ RunsBounded'
    <2>1. /\ UNCHANGED <<server, outlived, unrecorded>>
          /\ \A r \in Runs : r # run => go_ftw'[r] = go_ftw[r]
          /\ go_ftw'[run] = "running" => stage' = "go_ftw"
          /\ \A r \in Runs : r # run => (r \in created' <=> r \in created)
          /\ stage' \in {"preflight"} \cup LastStages => run \notin created'
        BY <1>1, <1>3, Underway
        DEF wait_for_http, Continue, processes, history, TryStages, StopStages, LastStages
    <2>2. QED
        BY <1>1, <1>2, <1>3, <2>1, StepContinues
<1>5. ServersKnown' /\ ServersStopped'
    BY <1>1 DEF wait_for_http, Continue, processes, history, ServersKnown, ServersStopped, Known, Begun, Unassigned,
        Alive, Stages, TryStages, StopStages, LastStages, BeforeAlbedo, BeforeEnvoy
<1>6. QED
    BY <1>4, <1>5 DEF StoppingInv

\* So is Envoy.
LEMMA wait_for_envoy_adminStops ==
    ASSUME StoppingInv, wait_for_envoy_admin
    PROVE  StoppingInv'
<1>1. TypeOK /\ RunsBounded /\ ServersKnown /\ ServersStopped /\ DataTyped
    BY DataIsTyped DEF StoppingInv
<1>2. DataTyped'
    BY <1>1 DEF wait_for_envoy_admin, Continue, processes, history, outputs, DataTyped
<1>3. stage \in Stages /\ stage' \in Stages /\ UNCHANGED <<run, ended>>
    BY DEF wait_for_envoy_admin, Continue, Stages, TryStages, StopStages, LastStages
<1>4. TypeOK' /\ RunsBounded'
    <2>1. /\ UNCHANGED <<server, outlived, unrecorded>>
          /\ \A r \in Runs : r # run => go_ftw'[r] = go_ftw[r]
          /\ go_ftw'[run] = "running" => stage' = "go_ftw"
          /\ \A r \in Runs : r # run => (r \in created' <=> r \in created)
          /\ stage' \in {"preflight"} \cup LastStages => run \notin created'
        BY <1>1, <1>3, Underway
        DEF wait_for_envoy_admin, Continue, processes, history, TryStages, StopStages, LastStages
    <2>2. QED
        BY <1>1, <1>2, <1>3, <2>1, StepContinues
<1>5. ServersKnown' /\ ServersStopped'
    BY <1>1 DEF wait_for_envoy_admin, Continue, processes, history, ServersKnown, ServersStopped, Known, Begun, Unassigned,
        Alive, Stages, TryStages, StopStages, LastStages, BeforeAlbedo, BeforeEnvoy
<1>6. QED
    BY <1>4, <1>5 DEF StoppingInv

\* An exception of the try block; go-ftw is waited for first.
LEMMA RaiseStops ==
    ASSUME StoppingInv, Raise
    PROVE  StoppingInv'
<1>1. TypeOK /\ RunsBounded /\ ServersKnown /\ ServersStopped /\ DataTyped
    BY DataIsTyped DEF StoppingInv
<1>2. DataTyped'
    <2>1. script' \in ScriptType /\ script'.recorded = script.recorded
        BY <1>1 DEF Raise, DataTyped, ScriptType
    <2>2. QED
        BY <1>1, <2>1 DEF Raise, Continue, processes, history, outputs, DataTyped
<1>3. stage \in Stages /\ stage' \in Stages /\ UNCHANGED <<run, ended>>
    BY DEF Raise, Continue, Stages, TryStages, StopStages, LastStages
<1>4. TypeOK' /\ RunsBounded'
    <2>1. /\ UNCHANGED <<server, outlived, unrecorded>>
          /\ \A r \in Runs : r # run => go_ftw'[r] = go_ftw[r]
          /\ go_ftw'[run] = "running" => stage' = "go_ftw"
          /\ \A r \in Runs : r # run => (r \in created' <=> r \in created)
          /\ stage' \in {"preflight"} \cup LastStages => run \notin created'
        BY <1>1, <1>3, Underway
        DEF Raise, Continue, processes, history, TryStages, StopStages, LastStages
    <2>2. QED
        BY <1>1, <1>2, <1>3, <2>1, StepContinues
<1>5. ServersKnown' /\ ServersStopped'
    BY <1>1 DEF Raise, Continue, processes, history, ServersKnown, ServersStopped, Known, Begun, Unassigned,
        Alive, Stages, TryStages, StopStages, LastStages, BeforeAlbedo, BeforeEnvoy
<1>6. QED
    BY <1>4, <1>5 DEF StoppingInv

\* go-ftw has ended and its status is known.
LEMMA GoFtwReturnsStops ==
    ASSUME StoppingInv, GoFtwReturns
    PROVE  StoppingInv'
<1>1. TypeOK /\ RunsBounded /\ ServersKnown /\ ServersStopped /\ DataTyped
    BY DataIsTyped DEF StoppingInv
<1>2. DataTyped'
    <2>1. script' \in ScriptType /\ script'.recorded = script.recorded
        BY <1>1 DEF GoFtwReturns, DataTyped, ScriptType
    <2>2. QED
        BY <1>1, <2>1 DEF GoFtwReturns, Continue, processes, history, outputs, DataTyped
<1>3. stage \in Stages /\ stage' \in Stages /\ UNCHANGED <<run, ended>>
    BY DEF GoFtwReturns, Continue, Stages, TryStages, StopStages, LastStages
<1>4. TypeOK' /\ RunsBounded'
    <2>1. /\ UNCHANGED <<server, outlived, unrecorded>>
          /\ \A r \in Runs : r # run => go_ftw'[r] = go_ftw[r]
          /\ go_ftw'[run] = "running" => stage' = "go_ftw"
          /\ \A r \in Runs : r # run => (r \in created' <=> r \in created)
          /\ stage' \in {"preflight"} \cup LastStages => run \notin created'
        BY <1>1, <1>3, Underway
        DEF GoFtwReturns, Continue, processes, history, TryStages, StopStages, LastStages
    <2>2. QED
        BY <1>1, <1>2, <1>3, <2>1, StepContinues
<1>5. ServersKnown' /\ ServersStopped'
    <2>1. stage = "go_ftw" /\ stage' = "read"
        BY DEF GoFtwReturns, Continue
    <2>2. UNCHANGED <<run, server>> /\ script'.recorded = script.recorded
        BY <1>1 DEF GoFtwReturns, Continue, processes, history, DataTyped, ScriptType
    <2>3. QED
        BY <1>1, <2>1, <2>2
        DEF ServersKnown, ServersStopped, Known, Begun, Unassigned, Alive,
            Stages, TryStages, StopStages, LastStages, BeforeAlbedo, BeforeEnvoy
<1>6. QED
    BY <1>4, <1>5 DEF StoppingInv

\* Its results are read.
LEMMA ReadResultsStops ==
    ASSUME StoppingInv, ReadResults
    PROVE  StoppingInv'
<1>1. TypeOK /\ RunsBounded /\ ServersKnown /\ ServersStopped /\ DataTyped
    BY DataIsTyped DEF StoppingInv
<1>2. DataTyped'
    <2>1. PICK read \in Results : script' = [script EXCEPT !.results = read]
        <3>1. raw.results \in Results
            BY <1>1 DEF DataTyped, RawFiles, Results
        <3>2. ASSUME NEW good \in BOOLEAN
              PROVE  [of |-> 0, good |-> good] \in Results
            BY MaxRunsAssumption DEF Results
        <3>3. CASE script' = [script EXCEPT !.results = raw.results]
            BY <3>1, <3>3
        <3>4. CASE \E good \in BOOLEAN : script' = [script EXCEPT !.results = [of |-> 0, good |-> good]]
            BY <3>2, <3>4
        <3>5. QED
            BY <3>3, <3>4 DEF ReadResults
    <2>2. script' \in ScriptType /\ script'.recorded = script.recorded
        BY <1>1, <2>1 DEF DataTyped, ScriptType
    <2>3. QED
        BY <1>1, <2>2 DEF ReadResults, Continue, processes, history, outputs, DataTyped
<1>3. stage \in Stages /\ stage' \in Stages /\ UNCHANGED <<run, ended>>
    BY DEF ReadResults, Continue, Stages, TryStages, StopStages, LastStages
<1>4. TypeOK' /\ RunsBounded'
    <2>1. /\ UNCHANGED <<server, outlived, unrecorded>>
          /\ \A r \in Runs : r # run => go_ftw'[r] = go_ftw[r]
          /\ go_ftw'[run] = "running" => stage' = "go_ftw"
          /\ \A r \in Runs : r # run => (r \in created' <=> r \in created)
          /\ stage' \in {"preflight"} \cup LastStages => run \notin created'
        BY <1>1, <1>3, Underway
        DEF ReadResults, Continue, processes, history, TryStages, StopStages, LastStages
    <2>2. QED
        BY <1>1, <1>2, <1>3, <2>1, StepContinues
<1>5. ServersKnown' /\ ServersStopped'
    <2>1. stage = "read" /\ stage' = "stop_envoy" /\ UNCHANGED <<run, server, unrecorded>>
          /\ script'.recorded = script.recorded
        BY <1>1 DEF ReadResults, Continue, processes, history, DataTyped, ScriptType
    <2>2. QED
        BY <1>1, <2>1
        DEF ServersKnown, ServersStopped, Known, Begun, Unassigned, Alive,
            Stages, TryStages, StopStages, LastStages, BeforeAlbedo, BeforeEnvoy
<1>6. QED
    BY <1>4, <1>5 DEF StoppingInv

\* The results are judged.
LEMMA JudgeStops ==
    ASSUME StoppingInv, Judge
    PROVE  StoppingInv'
<1>1. TypeOK /\ RunsBounded /\ ServersKnown /\ ServersStopped /\ DataTyped
    BY DataIsTyped DEF StoppingInv
<1>2. DataTyped'
    BY <1>1 DEF Judge, Continue, processes, history, outputs, DataTyped
<1>3. stage \in Stages /\ stage' \in Stages /\ UNCHANGED <<run, ended>>
    BY DEF Judge, Continue, Stages, TryStages, StopStages, LastStages
<1>4. TypeOK' /\ RunsBounded'
    <2>1. /\ UNCHANGED <<server, outlived, unrecorded>>
          /\ \A r \in Runs : r # run => go_ftw'[r] = go_ftw[r]
          /\ go_ftw'[run] = "running" => stage' = "go_ftw"
          /\ \A r \in Runs : r # run => (r \in created' <=> r \in created)
          /\ stage' \in {"preflight"} \cup LastStages => run \notin created'
        BY <1>1, <1>3, Underway
        DEF Judge, Continue, processes, history, TryStages, StopStages, LastStages
    <2>2. QED
        BY <1>1, <1>2, <1>3, <2>1, StepContinues
<1>5. ServersKnown' /\ ServersStopped'
    BY <1>1 DEF Judge, Continue, processes, history, ServersKnown, ServersStopped, Known, Begun, Unassigned,
        Alive, Stages, TryStages, StopStages, LastStages, BeforeAlbedo, BeforeEnvoy
<1>6. QED
    BY <1>4, <1>5 DEF StoppingInv

\* The JSON is written.
LEMMA WriteRawStops ==
    ASSUME StoppingInv, WriteRaw
    PROVE  StoppingInv'
<1>1. TypeOK /\ RunsBounded /\ ServersKnown /\ ServersStopped /\ DataTyped
    BY DataIsTyped DEF StoppingInv
<1>2. DataTyped'
    <2>1. raw' \in RawFiles
        BY <1>1, WrittenIsFile DEF WriteRaw
    <2>2. QED
        BY <1>1, <2>1 DEF WriteRaw, Continue, processes, history, DataTyped
<1>3. stage \in Stages /\ stage' \in Stages /\ UNCHANGED <<run, ended>>
    BY DEF WriteRaw, Continue, Stages, TryStages, StopStages, LastStages
<1>4. TypeOK' /\ RunsBounded'
    <2>1. /\ UNCHANGED <<server, outlived, unrecorded>>
          /\ \A r \in Runs : r # run => go_ftw'[r] = go_ftw[r]
          /\ go_ftw'[run] = "running" => stage' = "go_ftw"
          /\ \A r \in Runs : r # run => (r \in created' <=> r \in created)
          /\ stage' \in {"preflight"} \cup LastStages => run \notin created'
        BY <1>1, <1>3, Underway
        DEF WriteRaw, Continue, processes, history, TryStages, StopStages, LastStages
    <2>2. QED
        BY <1>1, <1>2, <1>3, <2>1, StepContinues
<1>5. ServersKnown' /\ ServersStopped'
    BY <1>1 DEF WriteRaw, Continue, processes, history, ServersKnown, ServersStopped, Known, Begun, Unassigned,
        Alive, Stages, TryStages, StopStages, LastStages, BeforeAlbedo, BeforeEnvoy
<1>6. QED
    BY <1>4, <1>5 DEF StoppingInv

-----------------------------------------------------------------------------
(* The ends of a run *)

\* A run that ends leaves its processes as they are, and at most its directory.
LEMMA EndStops ==
    ASSUME StoppingInv, stage \in Stages, stage' \in Ends, End(stage'),
           UNCHANGED <<script, server, raw>>, report' \in Reports,
           outlived \subseteq outlived', outlived' \subseteq Runs \X Servers,
           unrecorded' = unrecorded,
           go_ftw' \in [Runs -> {"none", "running", "zero", "not zero"}],
           \A r \in Runs : r # run => go_ftw'[r] = go_ftw[r],
           created' \subseteq created,
           \A r \in Runs : r # run => (r \in created' <=> r \in created),
           stage' # "orphaned" => go_ftw'[run] # "running",
           stage' \notin {"killed", "orphaned"} => run \notin created',
           stage' \in {"0", "1"} => \A p \in Servers : ~ Alive(run, p),
           stage' \in {"2", "interrupted"} =>
                \A p \in Servers : Alive(run, p) => Escaped(run, p)'
    PROVE  StoppingInv'
<1>1. TypeOK /\ RunsBounded /\ DataTyped
    BY DataIsTyped DEF StoppingInv
<1>2. DataTyped'
    BY <1>1 DEF DataTyped, End
<1>3. TypeOK' /\ RunsBounded' /\ ServersKnown' /\ ServersStopped'
    BY <1>1, <1>2, StepEnds
<1>4. QED
    BY <1>3 DEF StoppingInv

\* Most ends leave go-ftw as it is, too.
LEMMA EndsSimply ==
    ASSUME StoppingInv, stage \in Stages, stage' \in Ends, End(stage'),
           script' = script, server' = server, go_ftw' = go_ftw, raw' = raw, report' \in Reports,
           history' = history,
           created' \subseteq created, created \subseteq created' \cup {run},
           stage' # "orphaned" => go_ftw[run] # "running",
           stage' \notin {"killed", "orphaned"} => run \notin created',
           stage' \in {"0", "1"} => \A p \in Servers : ~ Alive(run, p),
           stage' \in {"2", "interrupted"} => \A p \in Servers : Alive(run, p) => Escaped(run, p)
    PROVE  StoppingInv'
<1>1. go_ftw \in [Runs -> {"none", "running", "zero", "not zero"}]
    BY DEF StoppingInv, TypeOK
<1>2. \A r \in Runs : r # run => (r \in created' <=> r \in created)
    OBVIOUS
<1>3. /\ outlived' = outlived /\ unrecorded' = unrecorded /\ outlived \subseteq Runs \X Servers
      /\ \A p : Escaped(run, p) => Escaped(run, p)'
    BY EndEffect DEF history, Escaped, StoppingInv, TypeOK
<1>4. QED
    BY <1>1, <1>2, <1>3, EndStops

\* No process of a run that has stopped them is alive, or begun before it starts them.
LEMMA NoneAlive ==
    ASSUME StoppingInv, stage \in {"preflight"} \cup LastStages
    PROVE  /\ \A p \in Servers : ~ Alive(run, p)
           /\ go_ftw[run] # "running" /\ run \notin created /\ stage \in Stages
<1>1. stage \in Stages /\ stage # "go_ftw"
    BY DEF Stages, LastStages
<1>2. go_ftw[run] # "running" /\ run \notin created
    BY <1>1, Underway DEF StoppingInv
<1>3. CASE stage = "preflight"
    BY <1>1, <1>2, <1>3
    DEF StoppingInv, ServersKnown, BeforeAlbedo, BeforeEnvoy, Begun, Alive, Servers
<1>4. CASE stage \in LastStages
    BY <1>1, <1>2, <1>4 DEF StoppingInv, ServersStopped
<1>5. QED
    BY <1>3, <1>4

\* Executables, directories and versions are in order, or not.
LEMMA PreflightStops ==
    ASSUME StoppingInv, Preflight
    PROVE  StoppingInv'
<1>1. TypeOK /\ RunsBounded /\ ServersKnown /\ ServersStopped /\ DataTyped
    BY DataIsTyped DEF StoppingInv
<1>2. stage = "preflight" /\ stage \in Stages
    BY DEF Preflight, Stages
<1>3. CASE End("2") /\ UNCHANGED created
    <2>1. /\ stage' = "2" /\ stage' \in Ends /\ End(stage')
          /\ UNCHANGED <<script, server, raw, go_ftw, history>> /\ report' \in Reports
        BY <1>1, <1>3 DEF Preflight, End, processes, history, outputs, Ends, DataTyped
    <2>2. QED
        BY <1>2, <1>3, <2>1, NoneAlive, EndsSimply
<1>4. CASE Continue("corpus") /\ created' = created \cup {run}
    <2>1. stage' = "corpus" /\ stage' \in Stages /\ UNCHANGED <<run, ended, server, go_ftw, outlived, unrecorded, script, outputs>>
        BY <1>4 DEF Preflight, Continue, Stages, TryStages, processes, history
    <2>2. DataTyped'
        BY <1>1, <1>4, <2>1, RunsAreNumbers DEF DataTyped, outputs
    <2>3. go_ftw'[run] # "running" /\ stage' \notin {"preflight"} \cup LastStages
        BY <1>2, <2>1, NoneAlive DEF LastStages
    <2>4. TypeOK' /\ RunsBounded'
        BY <1>1, <1>2, <1>4, <2>1, <2>2, <2>3, StepContinues
    <2>5. ServersKnown' /\ ServersStopped'
        BY <1>1, <1>2, <2>1 DEF ServersKnown, ServersStopped, Known, Begun, Unassigned,
            Alive, Stages, TryStages, StopStages, LastStages, BeforeAlbedo, BeforeEnvoy
    <2>6. QED
        BY <2>4, <2>5 DEF StoppingInv
<1>5. QED
    BY <1>3, <1>4 DEF Preflight

\* The diagnostics are written, whether or not the run failed.
LEMMA WriteDiagnosticsStops ==
    ASSUME StoppingInv, WriteDiagnostics
    PROVE  StoppingInv'
<1>1. TypeOK /\ RunsBounded /\ ServersKnown /\ ServersStopped /\ DataTyped
    BY DataIsTyped DEF StoppingInv
<1>2. stage = "diagnostics" /\ stage \in LastStages /\ stage \in Stages
    BY DEF WriteDiagnostics, Stages, LastStages
<1>3. CASE End("2")
    <2>1. /\ stage' = "2" /\ stage' \in Ends /\ End(stage') /\ UNCHANGED <<script, server, raw, go_ftw, history, created>>
          /\ report' \in Reports
        BY <1>1, <1>3 DEF WriteDiagnostics, End, processes, history, outputs, Ends, DataTyped
    <2>2. QED
        BY <1>2, <1>3, <2>1, NoneAlive, EndsSimply
<1>4. CASE Continue("judge")
    <2>1. /\ stage' = "judge" /\ stage' \in Stages
          /\ UNCHANGED <<run, ended, server, go_ftw, outlived, unrecorded, script, created, raw, report>>
        BY <1>4 DEF WriteDiagnostics, Continue, Stages, LastStages, processes, history, outputs
    <2>2. DataTyped'
        BY <1>1, <2>1 DEF DataTyped
    <2>3. TypeOK' /\ RunsBounded'
        BY <1>1, <1>2, <2>1, <2>2, NoneAlive, StepContinues
    <2>4. ServersKnown' /\ ServersStopped'
        BY <1>1, <1>2, <2>1 DEF ServersKnown, ServersStopped, Known, Begun, Unassigned,
            Alive, Stages, TryStages, StopStages, LastStages, BeforeAlbedo, BeforeEnvoy
    <2>5. QED
        BY <2>3, <2>4 DEF StoppingInv
<1>5. QED
    BY <1>3, <1>4 DEF WriteDiagnostics

\* One of the last steps raised.
LEMMA RaiseLateStops ==
    ASSUME StoppingInv, RaiseLate
    PROVE  StoppingInv'
<1>1. DataTyped
    BY DataIsTyped DEF StoppingInv
<1>2. stage \in LastStages /\ stage \in Stages
    BY DEF RaiseLate, Stages
<1>3. /\ stage' = "2" /\ stage' \in Ends /\ End(stage') /\ UNCHANGED <<script, server, raw, go_ftw, history, created>>
      /\ report' \in Reports
    BY <1>1 DEF RaiseLate, End, processes, history, outputs, Ends, DataTyped
<1>4. QED
    BY <1>2, <1>3, NoneAlive, EndsSimply

\* The report is written.
LEMMA WriteReportStops ==
    ASSUME StoppingInv, WriteReport
    PROVE  StoppingInv'
<1>1. TypeOK /\ RunsBounded /\ ServersKnown /\ ServersStopped /\ DataTyped
    BY DataIsTyped DEF StoppingInv
<1>2. /\ stage \in LastStages /\ stage \in Stages
      /\ stage' \in {"write_report", "return"} /\ stage' \in Stages /\ UNCHANGED <<run, ended>>
    BY DEF WriteReport, Continue, Stages, LastStages
<1>3. UNCHANGED <<script, server, go_ftw, outlived, unrecorded, created, raw>>
    BY DEF WriteReport, processes, history
<1>4. DataTyped'
    <2>1. report' \in Reports
        BY <1>1, WrittenIsFile DEF WriteReport
    <2>2. QED
        BY <1>1, <1>2, <1>3, <2>1 DEF DataTyped
<1>5. TypeOK' /\ RunsBounded'
    BY <1>1, <1>2, <1>3, <1>4, NoneAlive, StepContinues
<1>6. ServersKnown' /\ ServersStopped'
    BY <1>1, <1>2, <1>3 DEF ServersKnown, ServersStopped, Known, Begun, Unassigned,
        Alive, Stages, TryStages, StopStages, LastStages, BeforeAlbedo, BeforeEnvoy
<1>7. QED
    BY <1>5, <1>6 DEF StoppingInv

\* The run ends with its verdict.
LEMMA ReturnStops ==
    ASSUME StoppingInv, Return
    PROVE  StoppingInv'
<1>1. DataTyped
    BY DataIsTyped DEF StoppingInv
<1>2. stage \in LastStages /\ stage \in Stages
    BY DEF Return, Stages, LastStages
<1>3. /\ stage' \in {"0", "1"} /\ stage' \in Ends /\ End(stage')
      /\ UNCHANGED <<script, server, raw, go_ftw, history, created>> /\ report' \in Reports
    BY <1>1 DEF Return, End, processes, outputs, Ends, DataTyped
<1>4. QED
    BY <1>2, <1>3, NoneAlive, EndsSimply

\* While processes are stopped, go-ftw is gone, and what run() does not know of
\* has escaped it.
LEMMA WhileStopping ==
    ASSUME StoppingInv, stage \in StopStages \cup {"cleanup"}
    PROVE  /\ stage \in Stages /\ go_ftw[run] # "running"
           /\ \A p \in Servers \ script.recorded : Alive(run, p) => Escaped(run, p)
<1>1. stage \in Stages /\ stage \notin {"go_ftw", "record_albedo", "record_envoy"}
    BY DEF Stages, StopStages
<1>2. go_ftw[run] # "running"
    BY <1>1, Underway DEF StoppingInv
<1>3. ASSUME NEW p \in Servers \ script.recorded, Alive(run, p)
      PROVE  Escaped(run, p)
    <2>1. <<run, p>> \in unrecorded
        BY <1>1, <1>3
        DEF StoppingInv, ServersKnown, Known, Begun, Unassigned, Alive, Servers
    <2>2. QED
        BY <2>1 DEF Escaped
<1>4. QED
    BY <1>1, <1>2, <1>3

\* A process outlives SIGKILL: stop_process raises, and the script ends with 2.
LEMMA WaitExpiresStops ==
    ASSUME StoppingInv, WaitExpires
    PROVE  StoppingInv'
<1>1. TypeOK /\ RunsBounded /\ ServersKnown /\ ServersStopped /\ DataTyped
    BY DataIsTyped DEF StoppingInv
<1>2. stage \in StopStages /\ stage \in StopStages \cup {"cleanup"}
    BY DEF WaitExpires
<1>3. /\ stage' = "2" /\ stage' \in Ends /\ End(stage') /\ created' = created \ {run} /\ run' = run
      /\ UNCHANGED <<script, server, raw, go_ftw, unrecorded>> /\ report' \in Reports
      /\ outlived' = outlived \cup {<<run, Stopping>>}
    BY <1>1 DEF WaitExpires, End, outputs, Ends, DataTyped
<1>4. outlived' \subseteq Runs \X Servers
    <2>1. Stopping \in Servers /\ run \in Runs
        BY <1>1, RunsAreNumbers DEF Stopping, Servers
    <2>2. QED
        BY <1>1, <1>3, <2>1 DEF DataTyped
<1>5. ASSUME NEW p \in Servers, Alive(run, p)
      PROVE  Escaped(run, p)'
    <2>1. Escaped(run, p) => Escaped(run, p)'
        BY <1>3 DEF Escaped
    <2>2. CASE p \notin script.recorded
        BY <1>2, <1>5, <2>1, <2>2, WhileStopping
    <2>3. CASE p \in script.recorded /\ stage = "stop_envoy"
        BY <1>3, <2>3 DEF Escaped, Stopping, Servers
    <2>4. CASE p \in script.recorded /\ stage = "stop_albedo"
        <3>1. p # "envoy"
            BY <1>1, <1>5, <2>4 DEF ServersStopped
        <3>2. QED
            BY <1>3, <2>4, <3>1 DEF Escaped, Stopping, Servers
    <2>5. QED
        BY <1>2, <2>2, <2>3, <2>4 DEF StopStages
<1>6. go_ftw' \in [Runs -> {"none", "running", "zero", "not zero"}]
    BY <1>1, <1>3 DEF DataTyped
<1>7. stage \in Stages /\ go_ftw'[run] # "running"
    BY <1>2, <1>3, WhileStopping
<1>8. /\ created' \subseteq created /\ run \notin created'
      /\ \A r \in Runs : r # run => (r \in created' <=> r \in created)
      /\ outlived \subseteq outlived'
    BY <1>3
<1>9. QED
    BY <1>3, <1>4, <1>5, <1>6, <1>7, <1>8, EndStops

\* Envoy's log cannot be read after the processes have been stopped.
LEMMA CleanupFailsStops ==
    ASSUME StoppingInv, CleanupFails
    PROVE  StoppingInv'
<1>1. TypeOK /\ ServersStopped /\ DataTyped
    BY DataIsTyped DEF StoppingInv
<1>2. stage = "cleanup" /\ stage \in StopStages \cup {"cleanup"}
    BY DEF CleanupFails
<1>3. /\ stage' = "2" /\ stage' \in Ends /\ End(stage') /\ created' = created \ {run}
      /\ UNCHANGED <<script, server, raw, go_ftw, history>> /\ report' \in Reports
    BY <1>1 DEF CleanupFails, End, processes, outputs, Ends, DataTyped
<1>4. \A p \in Servers : Alive(run, p) => Escaped(run, p)
    BY <1>1, <1>2, WhileStopping DEF ServersStopped, Servers
<1>5. QED
    BY <1>2, <1>3, <1>4, WhileStopping, EndsSimply

\* Ctrl+C in the finally clause.
LEMMA InterruptStoppingStops ==
    ASSUME StoppingInv, InterruptStopping
    PROVE  StoppingInv'
<1>1. DataTyped
    BY DataIsTyped DEF StoppingInv
<1>2. stage \in StopStages \cup {"cleanup"}
    BY DEF InterruptStopping
<1>3. /\ stage' = "cut" /\ stage' \in Ends /\ End(stage') /\ created' = created \ {run}
      /\ UNCHANGED <<script, server, raw, go_ftw, history>> /\ report' \in Reports
    BY <1>1 DEF InterruptStopping, End, processes, outputs, Ends, DataTyped
<1>4. QED
    BY <1>2, <1>3, WhileStopping, EndsSimply

\* The script is killed, while it waits for go-ftw or not.
LEMMA KilledStops ==
    ASSUME StoppingInv, Killed
    PROVE  StoppingInv'
<1>1. DataTyped
    BY DataIsTyped DEF StoppingInv
<1>2. /\ stage' = IF go_ftw[run] = "running" THEN "orphaned" ELSE "killed"
      /\ stage' \in Ends /\ End(stage') /\ stage \in Stages
      /\ UNCHANGED <<script, server, raw, go_ftw, history, created>> /\ report' \in Reports
    BY <1>1 DEF Killed, End, processes, outputs, Ends, DataTyped
<1>3. QED
    BY <1>2, EndsSimply

\* The directory is removed; a run that was interrupted ends here.
LEMMA CleanupStops ==
    ASSUME StoppingInv, Cleanup
    PROVE  StoppingInv'
<1>1. TypeOK /\ RunsBounded /\ ServersKnown /\ ServersStopped /\ DataTyped
    BY DataIsTyped DEF StoppingInv
<1>2. stage = "cleanup" /\ stage \in Stages /\ created' = created \ {run}
    BY DEF Cleanup, Stages
<1>3. go_ftw[run] # "running"
    BY <1>1, <1>2, Underway
<1>4. CASE script.interrupted
    <2>1. \A p \in Servers : Alive(run, p) => Escaped(run, p)
        BY <1>1, <1>2, WhileStopping DEF ServersStopped, Servers
    <2>2. /\ stage' = "interrupted" /\ stage' \in Ends /\ End(stage')
          /\ UNCHANGED <<script, server, raw, go_ftw, history>> /\ report' \in Reports
        BY <1>1, <1>4 DEF Cleanup, End, processes, history, outputs, Ends, DataTyped
    <2>3. QED
        BY <1>2, <1>3, <2>1, <2>2, EndsSimply
<1>5. CASE ~ script.interrupted
    <2>1. /\ stage' = "diagnostics" /\ stage' \in Stages
          /\ UNCHANGED <<run, ended, server, go_ftw, outlived, unrecorded, script, raw, report>>
        BY <1>5 DEF Cleanup, Continue, Stages, LastStages, processes, history, outputs
    <2>2. DataTyped'
        BY <1>1, <1>2, <2>1 DEF DataTyped
    <2>3. TypeOK' /\ RunsBounded'
        BY <1>1, <1>2, <1>3, <2>1, <2>2, StepContinues
    <2>4. /\ Known("albedo") /\ Known("envoy")
          /\ \A p \in Servers : ~ Alive(run, p)
        BY <1>1, <1>2, <1>5
        DEF ServersKnown, ServersStopped, Known, Begun, Unassigned, Alive, Servers
    <2>5. ServersKnown' /\ ServersStopped'
        BY <2>1, <2>4
        DEF ServersKnown, ServersStopped, Known, Begun, Unassigned, Alive, Stages, LastStages,
            BeforeAlbedo, BeforeEnvoy
    <2>6. QED
        BY <2>3, <2>5 DEF StoppingInv
<1>6. QED
    BY <1>4, <1>5

-----------------------------------------------------------------------------
(* Processes begin, end and are stopped *)

\* Runs that are over or to come do not see what a server of this run does.
LEMMA ServerMoves ==
    ASSUME TypeOK, RunsBounded, stage \in Stages, stage' \in Stages,
           UNCHANGED <<run, ended, go_ftw, outlived, unrecorded, created>>, DataTyped',
           stage' \in {"preflight"} \cup LastStages => stage \in {"preflight"} \cup LastStages,
           stage # "go_ftw",
           \A r \in Runs, p \in Servers : r # run => server'[<<r, p>>] = server[<<r, p>>]
    PROVE  TypeOK' /\ RunsBounded'
<1>1. /\ ended[run] = "no" /\ go_ftw[run] # "running" /\ run \in Runs
      /\ stage \in {"preflight"} \cup LastStages => run \notin created
    BY Underway, RunsAreNumbers
<1>2. Untouched'
    <2>1. ASSUME NEW r \in Runs, r > run
          PROVE  /\ ended[r] = "no" /\ go_ftw[r] = "none" /\ r \notin created
                 /\ \A p \in Servers : server'[<<r, p>>] = "none"
        <3>1. r # run
            BY <2>1, RunsAreNumbers
        <3>2. QED
            BY <2>1, <3>1 DEF RunsBounded, Untouched
    <2>2. QED
        BY <2>1 DEF Untouched
<1>3. EndsKnown'
    BY StagesAreNoEnds DEF RunsBounded, EndsKnown
<1>4. GoFtwBounded'
    BY <1>1 DEF RunsBounded, GoFtwBounded
<1>5. DirectoryBounded'
    BY <1>1 DEF DirectoryBounded
<1>6. NothingLeftBehind'
    <2>1. NothingLeftBehind
        BY DEF RunsBounded
    <2>2. ASSUME NEW r \in Runs
          PROVE  /\ ended[r] \in {"0", "1"} => \A p \in Servers : ~ Alive(r, p)'
                 /\ ended[r] \in {"2", "interrupted"} =>
                        \A p \in Servers : Alive(r, p)' => Escaped(r, p)'
                 /\ go_ftw[r] = "running" => ended[r] \in {"no", "orphaned"}
                 /\ r \in created => ended[r] \in {"no", "killed", "orphaned"}
        <3>1. CASE r = run
            BY <1>1, <3>1
        <3>2. CASE r # run
            <4>1. \A p \in Servers : /\ Alive(r, p)' <=> Alive(r, p)
                                     /\ Escaped(r, p)' <=> Escaped(r, p)
                BY <3>2 DEF Alive, Escaped
            <4>2. QED
                BY <2>1, <4>1 DEF NothingLeftBehind
        <3>3. QED
            BY <3>1, <3>2
    <2>3. QED
        BY <2>2 DEF NothingLeftBehind
<1>7. TypeOK'
    BY RunsAreNumbers DEF TypeOK, DataTyped, ScriptType
<1>8. QED
    BY <1>2, <1>3, <1>4, <1>5, <1>6, <1>7 DEF RunsBounded

\* Popen creates Albedo, or Envoy.
LEMMA SpawnStops ==
    ASSUME StoppingInv, Spawn
    PROVE  StoppingInv'
<1>1. TypeOK /\ RunsBounded /\ ServersKnown /\ ServersStopped /\ DataTyped
    BY DataIsTyped DEF StoppingInv
<1>2. run \in Runs
    BY <1>1, RunsAreNumbers
<1>3. PICK p \in Servers :
        /\ server' = [server EXCEPT ![<<run, p>>] = "starting"]
        /\ \/ stage = "spawn_albedo" /\ stage' = "record_albedo" /\ p = "albedo"
           \/ stage = "spawn_envoy" /\ stage' = "record_envoy" /\ p = "envoy"
    BY DEF Spawn, Continue, Servers
<1>4. UNCHANGED <<run, ended, script, go_ftw, outlived, unrecorded, created, raw, report>>
    BY DEF Spawn, Continue, history, outputs
<1>5. <<run, p>> \in Runs \X Servers
    BY <1>2
<1>6. /\ server' \in [Runs \X Servers -> {"none", "starting", "ready", "dead"}]
      /\ server'[<<run, p>>] = "starting"
      /\ \A r \in Runs, q \in Servers : r # run \/ q # p => server'[<<r, q>>] = server[<<r, q>>]
    BY <1>1, <1>3, <1>5 DEF DataTyped
<1>7. DataTyped'
    <2>1. \A q \in script.recorded : q \in Servers /\ server'[<<run, q>>] # "none"
        BY <1>1, <1>2, <1>6 DEF DataTyped, ScriptType
    <2>2. QED
        BY <1>1, <1>4, <1>6, <2>1 DEF DataTyped
<1>8. stage \in Stages /\ stage' \in Stages /\ stage # "go_ftw" /\ stage' \notin LastStages
      /\ stage' # "preflight"
    BY <1>3 DEF Stages, TryStages, LastStages
<1>9. TypeOK' /\ RunsBounded'
    BY <1>1, <1>4, <1>6, <1>7, <1>8, ServerMoves
<1>10. /\ script'.recorded = script.recorded /\ run' = run
       /\ p = "albedo" => server'[<<run, "envoy">>] = server[<<run, "envoy">>]
       /\ p = "envoy" => server'[<<run, "albedo">>] = server[<<run, "albedo">>]
    BY <1>2, <1>4, <1>6 DEF Servers
<1>11. ServersKnown' /\ ServersStopped'
    BY <1>1, <1>3, <1>6, <1>10
    DEF ServersKnown, ServersStopped, Known, Begun, Unassigned, Alive,
        Stages, TryStages, StopStages, LastStages, BeforeAlbedo, BeforeEnvoy
<1>12. QED
    BY <1>9, <1>11 DEF StoppingInv

\* Its result is assigned.
LEMMA RecordStops ==
    ASSUME StoppingInv, Record
    PROVE  StoppingInv'
<1>1. TypeOK /\ RunsBounded /\ ServersKnown /\ ServersStopped /\ DataTyped
    BY DataIsTyped DEF StoppingInv
<1>2. PICK p \in Servers :
        /\ script' = [script EXCEPT !.recorded = @ \cup {p}]
        /\ \/ stage = "record_albedo" /\ stage' = "wait_for_http" /\ p = "albedo"
           \/ stage = "record_envoy" /\ stage' = "wait_for_envoy_admin" /\ p = "envoy"
    BY DEF Record, Continue, Servers
<1>3. UNCHANGED <<run, ended, server, go_ftw, outlived, unrecorded, created, raw, report>>
    BY DEF Record, Continue, outputs, processes, history
<1>4. script' \in ScriptType /\ script'.recorded = script.recorded \cup {p}
    BY <1>1, <1>2 DEF DataTyped, ScriptType
<1>5. server[<<run, p>>] # "none"
    BY <1>1, <1>2 DEF ServersKnown, ServersStopped, Known, Begun, Unassigned, Alive,
            Stages, TryStages, StopStages, LastStages, BeforeAlbedo, BeforeEnvoy
<1>6. DataTyped'
    BY <1>1, <1>3, <1>4, <1>5 DEF DataTyped
<1>7. stage \in Stages /\ stage' \in Stages /\ stage # "go_ftw" /\ stage' \notin LastStages
      /\ stage' # "preflight"
    BY <1>2 DEF Stages, TryStages, LastStages
<1>8. TypeOK' /\ RunsBounded'
    BY <1>1, <1>3, <1>6, <1>7, ServerMoves
<1>9. ServersKnown' /\ ServersStopped'
    BY <1>1, <1>2, <1>3, <1>4
    DEF ServersKnown, ServersStopped, Known, Begun, Unassigned, Alive,
        Stages, TryStages, StopStages, LastStages, BeforeAlbedo, BeforeEnvoy
<1>10. QED
    BY <1>8, <1>9 DEF StoppingInv

\* go-ftw is started.
LEMMA SpawnGoFtwStops ==
    ASSUME StoppingInv, SpawnGoFtw
    PROVE  StoppingInv'
<1>1. TypeOK /\ RunsBounded /\ ServersKnown /\ ServersStopped /\ DataTyped
    BY DataIsTyped DEF StoppingInv
<1>2. /\ stage = "spawn_go_ftw" /\ stage' = "go_ftw"
      /\ UNCHANGED <<run, ended, script, server, outlived, unrecorded, created, raw, report>>
      /\ go_ftw' = [go_ftw EXCEPT ![run] = "running"]
    BY DEF SpawnGoFtw, Continue, history, outputs
<1>3. stage \in Stages /\ stage' \in Stages /\ stage' \notin {"preflight"} \cup LastStages
    BY <1>2 DEF Stages, TryStages, LastStages
<1>4. /\ go_ftw' \in [Runs -> {"none", "running", "zero", "not zero"}]
      /\ \A r \in Runs : r # run => go_ftw'[r] = go_ftw[r]
    BY <1>1, <1>2 DEF DataTyped
<1>5. DataTyped'
    BY <1>1, <1>2, <1>4 DEF DataTyped
<1>6. TypeOK' /\ RunsBounded'
    BY <1>1, <1>2, <1>3, <1>4, <1>5, StepContinues
<1>7. ServersKnown' /\ ServersStopped'
    BY <1>1, <1>2 DEF ServersKnown, ServersStopped, Known, Begun, Unassigned, Alive,
            Stages, TryStages, StopStages, LastStages, BeforeAlbedo, BeforeEnvoy
<1>8. QED
    BY <1>6, <1>7 DEF StoppingInv

\* stop_process finds that there is no process, or that it has ended.
LEMMA StoppedStops ==
    ASSUME StoppingInv, Stopped
    PROVE  StoppingInv'
<1>1. TypeOK /\ RunsBounded /\ ServersKnown /\ ServersStopped /\ DataTyped
    BY DataIsTyped DEF StoppingInv
<1>2. /\ \/ stage = "stop_envoy" /\ stage' = "stop_albedo"
         \/ stage = "stop_albedo" /\ stage' = "cleanup"
      /\ UNCHANGED <<run, ended, server, go_ftw, outlived, unrecorded, created, raw, report>>
      /\ Stopping \notin script.recorded \/ ~ Alive(run, Stopping)
      /\ script' = [script EXCEPT !.waiting = "no"]
    BY DEF Stopped, Continue, processes, history, outputs, NextStop, StopStages
<1>3. script' \in ScriptType /\ script'.recorded = script.recorded
      /\ script'.interrupted = script.interrupted
    BY <1>1, <1>2 DEF DataTyped, ScriptType
<1>4. DataTyped'
    BY <1>1, <1>2, <1>3 DEF DataTyped
<1>5. stage \in Stages /\ stage' \in Stages /\ stage # "go_ftw" /\ stage' \notin LastStages
      /\ stage' # "preflight"
    BY <1>2 DEF Stages, StopStages, LastStages
<1>6. TypeOK' /\ RunsBounded'
    BY <1>1, <1>2, <1>4, <1>5, ServerMoves
<1>7. ServersKnown' /\ ServersStopped'
    BY <1>1, <1>2, <1>3
    DEF Stopping, ServersKnown, ServersStopped, Known, Begun, Unassigned, Alive,
        Stages, TryStages, StopStages, LastStages, BeforeAlbedo, BeforeEnvoy
<1>8. QED
    BY <1>6, <1>7 DEF StoppingInv

\* terminate() and kill().
LEMMA SignalStops ==
    ASSUME StoppingInv, Signal
    PROVE  StoppingInv'
<1>1. TypeOK /\ RunsBounded /\ ServersKnown /\ ServersStopped /\ DataTyped
    BY DataIsTyped DEF StoppingInv
<1>2. /\ stage \in StopStages
      /\ UNCHANGED <<run, stage, ended, server, go_ftw, outlived, unrecorded, created, raw, report>>
      /\ \/ script' = [script EXCEPT !.waiting = "terminated"]
         \/ script' = [script EXCEPT !.waiting = "killed"]
    BY DEF Signal, processes, history, outputs
<1>3. script' \in ScriptType /\ script'.recorded = script.recorded
      /\ script'.interrupted = script.interrupted
    BY <1>1, <1>2 DEF DataTyped, ScriptType
<1>4. DataTyped'
    BY <1>1, <1>2, <1>3 DEF DataTyped
<1>5. stage \in Stages /\ stage # "go_ftw"
    BY <1>2 DEF Stages, StopStages
<1>6. TypeOK' /\ RunsBounded'
    BY <1>1, <1>2, <1>4, <1>5, ServerMoves
<1>7. ServersKnown' /\ ServersStopped'
    BY <1>1, <1>2, <1>3 DEF ServersKnown, ServersStopped, Known, Begun, Unassigned, Alive
<1>8. QED
    BY <1>6, <1>7 DEF StoppingInv

\* Ctrl+C: the finally clause runs if there is anything to stop.
LEMMA InterruptStops ==
    ASSUME StoppingInv, Interrupt
    PROVE  StoppingInv'
<1>1. TypeOK /\ RunsBounded /\ ServersKnown /\ ServersStopped /\ DataTyped
    BY DataIsTyped DEF StoppingInv
<1>2. UNCHANGED <<server, outlived, created, raw, report>> /\ report' \in Reports
    BY <1>1 DEF Interrupt, outputs, DataTyped
<1>3. CASE stage \in {"preflight"} \cup LastStages
    <2>1. /\ stage' = "interrupted" /\ stage' \in Ends /\ End(stage')
          /\ UNCHANGED <<script, go_ftw, unrecorded>>
        BY <1>3 DEF Interrupt, End, Ends, TryStages, LastStages
    <2>2. QED
        BY <1>2, <1>3, <2>1, NoneAlive, EndsSimply DEF Servers, history
<1>4. CASE stage \in TryStages
    <2>1. /\ stage' = "stop_envoy" /\ UNCHANGED <<run, ended>>
          /\ script' = [script EXCEPT !.interrupted = TRUE]
          /\ go_ftw' = [go_ftw EXCEPT ![run] = IF @ = "running" THEN "not zero" ELSE @]
          /\ unrecorded' = unrecorded \cup
                ({run} \X {p \in Servers : server[<<run, p>>] # "none"} \ {run} \X script.recorded)
        BY <1>4 DEF Interrupt, Continue, TryStages, LastStages
    <2>2. /\ script' \in ScriptType /\ script'.recorded = script.recorded
          /\ script'.interrupted
        BY <1>1, <2>1 DEF DataTyped, ScriptType
    <2>3. /\ go_ftw' \in [Runs -> {"none", "running", "zero", "not zero"}]
          /\ \A r \in Runs : r # run => go_ftw'[r] = go_ftw[r]
          /\ go_ftw'[run] # "running"
        BY <1>1, <2>1, RunsAreNumbers DEF DataTyped
    <2>4. DataTyped'
        <3>1. unrecorded' \subseteq Runs \X Servers
            BY <1>1, <2>1, RunsAreNumbers DEF DataTyped
        <3>2. QED
            BY <1>1, <1>2, <2>1, <2>2, <2>3, <3>1 DEF DataTyped
    <2>5. stage \in Stages /\ stage' \in Stages /\ stage' \notin {"preflight"} \cup LastStages
        BY <1>4, <2>1 DEF Stages, StopStages, LastStages
    <2>6. TypeOK' /\ RunsBounded'
        <3>1. unrecorded \subseteq unrecorded'
            BY <2>1
        <3>2. QED
            BY <1>1, <1>2, <2>1, <2>3, <2>4, <2>5, <3>1, StepContinues
    <2>7. Known("albedo") \/ ~ Begun("envoy")
        BY <1>1, <1>4 DEF ServersKnown, Unassigned, Stages, TryStages, StopStages
    <2>8. \A p \in Servers : Begun(p) => Known(p) \/ <<run, p>> \in unrecorded'
        BY <2>1 DEF Begun, Known
    <2>9. ServersKnown' /\ ServersStopped'
        BY <1>2, <2>1, <2>2, <2>7, <2>8
        DEF Servers, ServersKnown, ServersStopped, Known, Begun, Unassigned, Stages, StopStages,
            LastStages, BeforeAlbedo, BeforeEnvoy
    <2>10. QED
        BY <2>6, <2>9 DEF StoppingInv
<1>5. QED
    BY <1>3, <1>4 DEF Interrupt

\* The script is run again.
LEMMA NextRunStops ==
    ASSUME StoppingInv, NextRun
    PROVE  StoppingInv'
<1>1. TypeOK /\ RunsBounded /\ ServersKnown /\ ServersStopped /\ DataTyped
    BY DataIsTyped DEF StoppingInv
<1>2. /\ stage \in Ends /\ run' = run + 1 /\ stage' = "preflight" /\ script' = NewScript
      /\ UNCHANGED <<ended, server, go_ftw, outlived, unrecorded, created, raw, report>>
    BY DEF NextRun, processes, history, outputs
<1>3. run' \in Runs /\ run' > run /\ run \in Runs /\ \A r \in Runs : r \in Nat
    BY <1>1, <1>2, RunsAreNumbers, MaxRunsAssumption DEF NextRun, Runs
<1>4. /\ ended[run'] = "no" /\ go_ftw[run'] = "none" /\ run' \notin created
      /\ \A p \in Servers : server[<<run', p>>] = "none"
    BY <1>1, <1>3 DEF RunsBounded, Untouched
<1>5. stage' \in Stages /\ stage' \notin Ends
    BY <1>2, StagesAreNoEnds DEF Stages
<1>6. NewScript \in ScriptType /\ NewScript.recorded = {}
    BY MaxRunsAssumption DEF NewScript, ScriptType, NoResults, Results
<1>7. TypeOK'
    <2>1. DataTyped'
        BY <1>1, <1>2, <1>6 DEF DataTyped
    <2>2. QED
        BY <1>1, <1>2, <1>3, <1>5, <2>1 DEF TypeOK, DataTyped, ScriptType
<1>8. Untouched'
    <2>1. \A r \in Runs : r > run' => r > run
        BY <1>2, <1>3
    <2>2. QED
        BY <1>1, <1>2, <2>1 DEF RunsBounded, Untouched
<1>9. EndsKnown'
    <2>1. \A r \in Runs : r < run' => r < run \/ r = run
        BY <1>2, <1>3
    <2>2. ended[run] # "no"
        BY <1>1, <1>2 DEF RunsBounded, EndsKnown, Ends
    <2>3. QED
        BY <1>1, <1>2, <1>4, <1>5, <2>1, <2>2 DEF RunsBounded, EndsKnown
<1>10. GoFtwBounded' /\ DirectoryBounded'
    <2>1. stage # "go_ftw"
        BY <1>2 DEF Ends
    <2>2. QED
        BY <1>1, <1>2, <1>4, <2>1 DEF RunsBounded, GoFtwBounded, DirectoryBounded
<1>11. NothingLeftBehind'
    BY <1>1, <1>2 DEF RunsBounded, NothingLeftBehind, Alive, Escaped
<1>12. ServersKnown' /\ ServersStopped'
    BY <1>2, <1>4
    DEF ServersKnown, ServersStopped, Known, Begun, Unassigned, Servers, StopStages, LastStages
<1>13. QED
    BY <1>7, <1>8, <1>9, <1>10, <1>11, <1>12 DEF RunsBounded, StoppingInv

\* A process changes by itself.
LEMMA ServerChanges ==
    ASSUME StoppingInv, NEW r \in Runs, NEW p \in Servers, NEW new \in {"ready", "dead"},
           Alive(r, p), server' = [server EXCEPT ![<<r, p>>] = new],
           UNCHANGED <<run, stage, ended, script, go_ftw, outlived, unrecorded, created, raw, report>>
    PROVE  StoppingInv'
<1>1. TypeOK /\ RunsBounded /\ ServersKnown /\ ServersStopped /\ DataTyped
    BY DataIsTyped DEF StoppingInv
<1>2. <<r, p>> \in Runs \X Servers
    OBVIOUS
<1>3. /\ server' \in [Runs \X Servers -> {"none", "starting", "ready", "dead"}]
      /\ \A s \in Runs, q \in Servers :
            /\ server'[<<s, q>>] = "none" <=> server[<<s, q>>] = "none"
            /\ server'[<<s, q>>] \in {"starting", "ready"} => server[<<s, q>>] \in {"starting", "ready"}
    BY <1>1, <1>2 DEF DataTyped, Alive
<1>4. run \in Runs /\ script.recorded \subseteq Servers /\ "albedo" \in Servers /\ "envoy" \in Servers
    BY <1>1, RunsAreNumbers DEF DataTyped, ScriptType, Servers
<1>5. TypeOK'
    <2>1. \A q \in script.recorded : server'[<<run, q>>] # "none"
        <3>1. \A q \in script.recorded : q \in Servers /\ server[<<run, q>>] # "none"
            BY <1>1, <1>4 DEF DataTyped
        <3>2. QED
            BY <1>3, <1>4, <3>1
    <2>2. DataTyped'
        BY <1>1, <1>3, <2>1 DEF DataTyped
    <2>3. QED
        BY <1>1, <2>2 DEF TypeOK, DataTyped, ScriptType
<1>6. Untouched'
    BY <1>1, <1>3 DEF RunsBounded, Untouched
<1>7. EndsKnown' /\ GoFtwBounded' /\ DirectoryBounded'
    BY <1>1 DEF RunsBounded, EndsKnown, GoFtwBounded, DirectoryBounded
<1>8. NothingLeftBehind'
    BY <1>1, <1>3, <1>4 DEF RunsBounded, NothingLeftBehind, Alive, Escaped
<1>9. ServersKnown'
    BY <1>1, <1>3, <1>4 DEF ServersKnown, Known, Begun, Unassigned
<1>10. ServersStopped'
    BY <1>1, <1>3, <1>4 DEF ServersStopped, Alive
<1>11. QED
    BY <1>5, <1>6, <1>7, <1>8, <1>9, <1>10 DEF RunsBounded, StoppingInv

\* A server that has been started answers.
LEMMA ServerReadyStops ==
    ASSUME StoppingInv, NEW r \in Runs, NEW p \in Servers, ServerReady(r, p)
    PROVE  StoppingInv'
BY ServerChanges DEF ServerReady, history, outputs, Alive

\* A server dies.
LEMMA ServerDiesStops ==
    ASSUME StoppingInv, NEW r \in Runs, NEW p \in Servers, ServerDies(r, p)
    PROVE  StoppingInv'
BY ServerChanges DEF ServerDies, history, outputs

\* go-ftw ends, whatever it leaves in its file.
LEMMA GoFtwEnds ==
    ASSUME StoppingInv, NEW r \in Runs, NEW new \in {"zero", "not zero"},
           go_ftw' = [go_ftw EXCEPT ![r] = new], go_ftw[r] = "running", raw' \in RawFiles,
           UNCHANGED <<run, stage, ended, script, server, outlived, unrecorded, created, report>>
    PROVE  StoppingInv'
<1>1. TypeOK /\ RunsBounded /\ ServersKnown /\ ServersStopped /\ DataTyped
    BY DataIsTyped DEF StoppingInv
<1>2. /\ go_ftw' \in [Runs -> {"none", "running", "zero", "not zero"}]
      /\ \A s \in Runs : /\ go_ftw'[s] = "running" => go_ftw[s] = "running"
                         /\ go_ftw[s] = "none" => go_ftw'[s] = "none"
    BY <1>1 DEF DataTyped
<1>3. TypeOK'
    BY <1>1, <1>2 DEF TypeOK
<1>4. Untouched'
    BY <1>1, <1>2 DEF RunsBounded, Untouched
<1>5. EndsKnown' /\ GoFtwBounded' /\ DirectoryBounded'
    BY <1>1, <1>2 DEF RunsBounded, EndsKnown, GoFtwBounded, DirectoryBounded
<1>6. NothingLeftBehind'
    BY <1>1, <1>2 DEF RunsBounded, NothingLeftBehind, Alive, Escaped
<1>7. ServersKnown' /\ ServersStopped'
    BY <1>1 DEF ServersKnown, ServersStopped, Known, Begun, Unassigned, Alive
<1>8. QED
    BY <1>3, <1>4, <1>5, <1>6, <1>7 DEF RunsBounded, StoppingInv

\* A file names the run that wrote it.
LEMMA RunsOwnFiles == \A r \in Runs : r \in 0..MaxRuns
BY MaxRunsAssumption DEF Runs

\* go-ftw writes its results and exits.
LEMMA GoFtwExitsStops ==
    ASSUME StoppingInv, NEW r \in Runs, GoFtwExits(r)
    PROVE  StoppingInv'
<1>1. PICK new \in {"zero", "not zero"} : go_ftw' = [go_ftw EXCEPT ![r] = new]
    BY DEF GoFtwExits
<1>2. raw' \in RawFiles
    <2>1. r \in 0..MaxRuns
        BY RunsOwnFiles, Zenon
    <2>2. PICK good \in BOOLEAN, state \in {"results", "partial"} :
            raw' = [state |-> state, of |-> r, results |-> [of |-> r, good |-> good],
                    returncode |-> "none"]
        BY DEF GoFtwExits
    <2>3. QED
        BY <2>1, <2>2 DEF RawFiles, Results, Statuses
<1>3. QED
    BY <1>1, <1>2, GoFtwEnds DEF GoFtwExits, history

\* go-ftw exits without having written results.
LEMMA GoFtwAbortsStops ==
    ASSUME StoppingInv, NEW r \in Runs, GoFtwAborts(r)
    PROVE  StoppingInv'
<1>1. raw' \in RawFiles
    BY DEF GoFtwAborts, outputs, StoppingInv, TypeOK
<1>2. QED
    BY <1>1, GoFtwEnds DEF GoFtwAborts, history, outputs

\* Initially nothing has begun.
LEMMA StopsInitially == Init => StoppingInv
<1> SUFFICES ASSUME Init PROVE StoppingInv
    OBVIOUS
<1>1. 1 \in Runs /\ \A r \in Runs : r \in Nat
    BY MaxRunsAssumption DEF Runs
<1>2. /\ NewScript \in ScriptType /\ NewScript.recorded = {}
      /\ NoRaw \in RawFiles /\ NoReport \in Reports
    BY MaxRunsAssumption
    DEF NewScript, ScriptType, NoResults, Results, NoRaw, RawFiles, NoReport, Reports, Statuses
<1>3. "preflight" \in Stages /\ "preflight" \notin Ends
    BY StagesAreNoEnds DEF Stages
<1>4. TypeOK
    BY <1>1, <1>2, <1>3 DEF Init, TypeOK, ScriptType
<1>5. RunsBounded
    <2>1. \A r \in Runs, p \in Servers : server[<<r, p>>] = "none"
        BY DEF Init
    <2>2. Untouched /\ GoFtwBounded /\ DirectoryBounded
        BY <2>1 DEF Init, Untouched, GoFtwBounded, DirectoryBounded
    <2>3. EndsKnown
        BY <1>1, <1>3 DEF Init, EndsKnown, Runs
    <2>4. NothingLeftBehind
        BY DEF Init, NothingLeftBehind
    <2>5. QED
        BY <2>2, <2>3, <2>4 DEF RunsBounded
<1>6. ServersKnown /\ ServersStopped
    BY <1>1 DEF Init, ServersKnown, ServersStopped, Known, Begun, Servers, StopStages, LastStages
<1>7. QED
    BY <1>4, <1>5, <1>6 DEF StoppingInv

\* Every step keeps what the runs have begun bounded.
LEMMA StepStops == StoppingInv /\ [Next]_vars => StoppingInv'
<1> SUFFICES ASSUME StoppingInv, [Next]_vars PROVE StoppingInv'
    OBVIOUS
<1>1. CASE Step
    BY <1>1, PreflightStops, ProceedStops, wait_for_httpStops, wait_for_envoy_adminStops,
       RaiseStops, SpawnStops, RecordStops, SpawnGoFtwStops, GoFtwReturnsStops,
       ReadResultsStops, StoppedStops, SignalStops, CleanupStops, WriteDiagnosticsStops,
       JudgeStops, RaiseLateStops, WriteRawStops, WriteReportStops, ReturnStops
    DEF Step
<1>2. CASE WaitExpires \/ CleanupFails \/ InterruptStopping \/ Interrupt \/ Killed \/ NextRun
    BY <1>2, WaitExpiresStops, CleanupFailsStops, InterruptStoppingStops, InterruptStops,
       KilledStops, NextRunStops
<1>3. CASE \E r \in Runs : GoFtwExits(r) \/ GoFtwAborts(r)
    BY <1>3, GoFtwExitsStops, GoFtwAbortsStops
<1>4. CASE \E r \in Runs, p \in Servers : ServerReady(r, p) \/ ServerDies(r, p)
    BY <1>4, ServerReadyStops, ServerDiesStops
<1>5. CASE UNCHANGED vars
    <2>1. TypeOK'
        BY <1>5 DEF vars, processes, history, outputs, StoppingInv, TypeOK
    <2>2. Untouched' /\ EndsKnown' /\ GoFtwBounded' /\ DirectoryBounded'
        BY <1>5 DEF vars, processes, history, outputs, StoppingInv, RunsBounded, Untouched, EndsKnown, GoFtwBounded,
                    DirectoryBounded
    <2>3. NothingLeftBehind'
        BY <1>5 DEF vars, processes, history, outputs, StoppingInv, RunsBounded,
                    NothingLeftBehind, Alive, Escaped
    <2>4. ServersKnown' /\ ServersStopped'
        BY <1>5 DEF vars, processes, history, outputs, StoppingInv, ServersKnown, ServersStopped, Known, Begun, Unassigned,
                    Alive
    <2>5. QED
        BY <2>1, <2>2, <2>3, <2>4 DEF StoppingInv, RunsBounded
<1>6. QED
    BY <1>1, <1>2, <1>3, <1>4, <1>5 DEF Next

\* What the processes of a run are at each of its stages, always.
LEMMA StoppingInvariance == Spec => []StoppingInv
BY StopsInitially, StepStops, PTL DEF Spec

\* Whatever step of whatever run failed: a run with a verdict has left no process,
\* one that ended with 2 or by Ctrl+C before or after the finally clause none but
\* those that escaped it (one that outlived SIGKILL, the Albedo of such an Envoy, one
\* whose creation Ctrl+C interrupted), and no run but a killed one its directory.
THEOREM ProcessesStopped == Spec => []ProcessesAreStopped
<1>1. StoppingInv => ProcessesAreStopped
    BY DEF StoppingInv, RunsBounded, ProcessesAreStopped
<1>2. QED
    BY <1>1, StoppingInvariance, PTL

-----------------------------------------------------------------------------
(* The evidence *)

\* A step that reads and writes nothing only moves the script along.
MovesAlong ==
    /\ stage' \notin {"go_ftw", "read", "open_report", "write_report", "return", "0", "1"}
    /\ AfterReading' => AfterReading

\* Only the script of a run that was killed while it waited for go-ftw leaves one.
LEMMA OrphanStays ==
    ASSUME StoppingInv, stage \in Stages, stage' \in Ends, End(stage')
    PROVE  NoneOrphaned' => NoneOrphaned
<1>1. ended[run] = "no" /\ \A r \in Runs : r # run => ended'[r] = ended[r]
    BY Underway, EndEffect DEF StoppingInv
<1>2. QED
    BY <1>1 DEF NoneOrphaned

\* A script that goes on has not ended.
LEMMA GoesOn ==
    ASSUME ended' = ended
    PROVE  NoneOrphaned' <=> NoneOrphaned
BY DEF NoneOrphaned

\* A step that moves along keeps what has been read and the status of go-ftw.
LEMMA MovingIsHonest ==
    ASSUME EvidenceInv, MovesAlong, run' = run,
           script'.results = script.results, script'.returncode = script.returncode,
           AfterReading' => go_ftw'[run] = go_ftw[run],
           NoneOrphaned' => NoneOrphaned
    PROVE  EvidenceInv'
<1>1. ResultsOwn'
    BY DEF EvidenceInv, ResultsOwn, MovesAlong
<1>2. EvidenceIsHonest'
    BY DEF EvidenceIsHonest, EvidenceAgrees, ZeroIsEarned, MovesAlong
<1>3. QED
    BY <1>1, <1>2 DEF EvidenceInv

\* Steps that read, start and stop processes, or fail.
LEMMA MovingKeepsEvidence ==
    ASSUME StoppingInv, EvidenceInv,
           \/ Preflight \/ Proceed \/ wait_for_http \/ wait_for_envoy_admin \/ Raise
           \/ Spawn \/ Record \/ Stopped \/ Signal \/ Cleanup \/ WriteDiagnostics \/ Judge
           \/ RaiseLate \/ WaitExpires \/ CleanupFails \/ InterruptStopping \/ Killed
    PROVE  EvidenceInv'
<1>1. run' = run /\ UNCHANGED go_ftw
    BY DEF Preflight, Proceed, wait_for_http, wait_for_envoy_admin, Raise, Spawn, Record,
           Stopped, Signal, Cleanup, WriteDiagnostics, Judge, RaiseLate, WaitExpires,
           CleanupFails, InterruptStopping, Killed, Continue, End, processes
<1>2. script \in ScriptType
    BY DEF StoppingInv, TypeOK, ScriptType
<1>3. script'.results = script.results /\ script'.returncode = script.returncode
    BY <1>2
    DEF ScriptType, Preflight, Proceed, wait_for_http, wait_for_envoy_admin, Raise, Spawn,
        Record, Stopped, Signal, Cleanup, WriteDiagnostics, Judge, RaiseLate, WaitExpires,
        CleanupFails, InterruptStopping, Killed
<1>4. CASE Preflight \/ Proceed \/ wait_for_http \/ wait_for_envoy_admin \/ Raise \/ Spawn \/ Record
    <2>1. ~ AfterReading'
        BY <1>2, <1>4
        DEF ScriptType, Preflight, Proceed, wait_for_http, wait_for_envoy_admin, Raise, Spawn,
            Record, Continue, End, AfterReading, StopStages, LastStages
    <2>2. MovesAlong
        BY <1>4, <2>1
        DEF Preflight, Proceed, wait_for_http, wait_for_envoy_admin, Raise, Spawn, Record,
            Continue, End, MovesAlong
    <2>3. \/ ended' = ended
          \/ stage \in Stages /\ stage' \in Ends /\ End(stage')
        BY <1>4
        DEF Preflight, Proceed, wait_for_http, wait_for_envoy_admin, Raise, Spawn, Record,
            Continue, End, Stages, Ends
    <2>4. QED
        BY <1>1, <1>3, <2>2, <2>3, MovingIsHonest, GoesOn, OrphanStays
<1>5. CASE Stopped \/ Signal \/ Cleanup
    <2>1. script'.error = script.error /\ script'.interrupted = script.interrupted
        BY <1>2, <1>5 DEF ScriptType, Stopped, Signal, Cleanup
    <2>2. AfterReading' => AfterReading
        BY <1>5, <2>1
        DEF Stopped, NextStop, Signal, Cleanup, Continue, End, AfterReading, StopStages, LastStages
    <2>3. MovesAlong
        BY <1>5, <2>2
        DEF Stopped, NextStop, Signal, Cleanup, StopStages, Continue, End, MovesAlong
    <2>4. \/ ended' = ended
          \/ stage \in Stages /\ stage' \in Ends /\ End(stage')
        BY <1>5 DEF Stopped, Signal, Cleanup, Continue, End, Stages, Ends
    <2>5. QED
        BY <1>1, <1>3, <2>3, <2>4, MovingIsHonest, GoesOn, OrphanStays
<1>6. CASE WriteDiagnostics \/ Judge
    <2>1. AfterReading' => AfterReading
        BY <1>6 DEF WriteDiagnostics, Judge, Continue, End, AfterReading, StopStages, LastStages
    <2>2. MovesAlong
        BY <1>6, <2>1 DEF WriteDiagnostics, Judge, Continue, End, MovesAlong
    <2>3. \/ ended' = ended
          \/ stage \in Stages /\ stage' \in Ends /\ End(stage')
        BY <1>6 DEF WriteDiagnostics, Judge, Continue, End, Stages, LastStages, Ends
    <2>4. QED
        BY <1>1, <1>3, <2>2, <2>3, MovingIsHonest, GoesOn, OrphanStays
<1>7. CASE RaiseLate \/ WaitExpires \/ CleanupFails \/ InterruptStopping \/ Killed
    <2>1. stage' \in {"2", "cut", "killed", "orphaned"} /\ stage \in Stages /\ End(stage')
        BY <1>7 DEF RaiseLate, WaitExpires, CleanupFails, InterruptStopping, Killed, End, Stages
    <2>2. MovesAlong
        BY <2>1 DEF MovesAlong, AfterReading, StopStages, LastStages
    <2>3. stage' \in Ends
        BY <2>1 DEF Ends
    <2>4. QED
        BY <1>1, <1>3, <2>1, <2>2, <2>3, MovingIsHonest, OrphanStays
<1>8. QED
    BY <1>4, <1>5, <1>6, <1>7

\* Ctrl+C
LEMMA InterruptKeepsEvidence ==
    ASSUME StoppingInv, EvidenceInv, Interrupt
    PROVE  EvidenceInv'
<1>1. run' = run /\ script'.results = script.results /\ script'.returncode = script.returncode
    BY DEF Interrupt, Continue, End, StoppingInv, TypeOK
<1>2. ~ AfterReading'
    BY DEF Interrupt, Continue, End, StoppingInv, TypeOK, AfterReading, StopStages, LastStages
<1>3. MovesAlong
    BY <1>2 DEF Interrupt, Continue, End, MovesAlong
<1>4. NoneOrphaned' => NoneOrphaned
    <2>1. \/ ended' = ended
          \/ stage \in Stages /\ stage' \in Ends /\ End(stage')
        BY DEF Interrupt, Continue, End, Stages, Ends
    <2>2. QED
        BY <2>1, GoesOn, OrphanStays
<1>5. QED
    BY <1>1, <1>2, <1>3, <1>4, MovingIsHonest

\* go-ftw has not exited when it is started.
LEMMA SpawnGoFtwKeepsEvidence ==
    ASSUME StoppingInv, EvidenceInv, SpawnGoFtw
    PROVE  EvidenceInv'
<1>1. stage' = "go_ftw" /\ run' = run /\ go_ftw'[run] = "running"
    BY RunsAreNumbers DEF SpawnGoFtw, Continue, StoppingInv, TypeOK
<1>2. ResultsOwn'
    BY <1>1 DEF ResultsOwn, AfterReading, StopStages, LastStages
<1>3. EvidenceIsHonest'
    BY <1>1 DEF EvidenceIsHonest, EvidenceAgrees, ZeroIsEarned
<1>4. QED
    BY <1>2, <1>3 DEF EvidenceInv

\* Its status is known before its file is read.
LEMMA GoFtwReturnsKeepsEvidence ==
    ASSUME StoppingInv, EvidenceInv, GoFtwReturns
    PROVE  EvidenceInv'
<1>1. /\ stage = "go_ftw" /\ stage' = "read" /\ UNCHANGED <<run, ended, go_ftw, raw, report>>
      /\ script'.returncode = go_ftw[run]
    BY DEF GoFtwReturns, Continue, outputs, processes, StoppingInv, TypeOK
<1>2. ~ AfterReading'
    BY <1>1 DEF AfterReading, StopStages, LastStages
<1>3. ResultsOwn'
    BY <1>1, <1>2, GoesOn DEF EvidenceInv, ResultsOwn
<1>4. EvidenceIsHonest'
    BY <1>1 DEF EvidenceIsHonest, EvidenceAgrees, ZeroIsEarned
<1>5. QED
    BY <1>3, <1>4 DEF EvidenceInv

\* What is read after a zero is what this run's go-ftw has written.
LEMMA ReadResultsKeepsEvidence ==
    ASSUME StoppingInv, EvidenceInv, ReadResults
    PROVE  EvidenceInv'
<1>1. /\ stage = "read" /\ stage' = "stop_envoy" /\ UNCHANGED <<run, ended, go_ftw, raw, report>>
      /\ script'.returncode = script.returncode
      /\ raw.state = "results" => script'.results = raw.results
    BY DEF ReadResults, Continue, outputs, processes, StoppingInv, TypeOK
<1>2. /\ script.returncode = go_ftw[run]
      /\ NoneOrphaned /\ go_ftw[run] = "zero" => raw.state = "results" /\ raw.results.of = run
    BY <1>1 DEF EvidenceInv, ResultsOwn
<1>3. ResultsOwn'
    BY <1>1, <1>2, GoesOn DEF ResultsOwn
<1>4. EvidenceIsHonest'
    BY <1>1 DEF EvidenceIsHonest, EvidenceAgrees, ZeroIsEarned
<1>5. QED
    BY <1>3, <1>4 DEF EvidenceInv

\* The JSON tells of what was read.
LEMMA WriteRawKeepsEvidence ==
    ASSUME StoppingInv, EvidenceInv, WriteRaw
    PROVE  EvidenceInv'
<1>1. /\ \/ stage = "open_raw" /\ stage' = "write_raw"
         \/ stage = "write_raw" /\ stage' = "open_report" /\ raw' = Payload
      /\ UNCHANGED <<run, ended, script, go_ftw, report>>
    BY DEF WriteRaw, Continue, processes
<1>2. Payload' = Payload
    BY <1>1 DEF Payload, Qualifies
<1>3. AfterReading
    BY <1>1 DEF AfterReading, LastStages
<1>4. ResultsOwn'
    BY <1>1, <1>2, <1>3, GoesOn DEF EvidenceInv, ResultsOwn
<1>5. EvidenceIsHonest'
    BY <1>1 DEF EvidenceIsHonest, EvidenceAgrees, ZeroIsEarned
<1>6. QED
    BY <1>4, <1>5 DEF EvidenceInv

\* So does the report.
LEMMA WriteReportKeepsEvidence ==
    ASSUME StoppingInv, EvidenceInv, WriteReport
    PROVE  EvidenceInv'
<1>1. /\ \/ stage = "open_report" /\ stage' = "write_report"
         \/ stage = "write_report" /\ stage' = "return" /\ report' = Markdown
      /\ UNCHANGED <<run, ended, script, go_ftw, raw>>
    BY DEF WriteReport, Continue, processes
<1>2. Payload' = Payload /\ Markdown' = Markdown
    BY <1>1 DEF Payload, Markdown, Qualifies
<1>3. AfterReading
    BY <1>1 DEF AfterReading, LastStages
<1>4. ResultsOwn'
    BY <1>1, <1>2, <1>3, GoesOn DEF EvidenceInv, ResultsOwn
<1>5. EvidenceIsHonest'
    BY <1>1 DEF EvidenceIsHonest, EvidenceAgrees, ZeroIsEarned
<1>6. QED
    BY <1>4, <1>5 DEF EvidenceInv

\* And so does the exit status.
LEMMA ReturnKeepsEvidence ==
    ASSUME StoppingInv, EvidenceInv, Return
    PROVE  EvidenceInv'
<1>1. /\ stage = "return" /\ stage \in Stages /\ stage' = IF Qualifies THEN "0" ELSE "1"
      /\ stage' \in Ends /\ End(stage') /\ UNCHANGED <<run, script, go_ftw, raw, report>>
    BY DEF Return, End, Stages, LastStages, Ends, processes, outputs
<1>2. NoneOrphaned' => NoneOrphaned
    BY <1>1, OrphanStays
<1>3. AfterReading
    BY <1>1 DEF AfterReading, LastStages
<1>4. /\ script.returncode = go_ftw[run] /\ report = Markdown
      /\ NoneOrphaned => raw = Payload
      /\ NoneOrphaned /\ script.returncode = "zero" => script.results.of = run
    BY <1>1, <1>3 DEF EvidenceInv, ResultsOwn
<1>5. ResultsOwn'
    <2>1. ~ AfterReading' /\ stage' \in {"0", "1"}
        BY <1>1 DEF AfterReading, StopStages, LastStages
    <2>2. QED
        BY <2>1 DEF ResultsOwn
<1>6. Qualifies \in BOOLEAN /\ (Qualifies => script.returncode = "zero") /\ (Qualifies <=> stage' = "0")
      /\ script.returncode \in {"zero", "not zero"}
    BY <1>1 DEF Qualifies, StoppingInv, TypeOK, Results
<1>7. /\ Payload.state = "written" /\ Payload.of = run /\ Payload.returncode = script.returncode
      /\ Payload.results.of = script.results.of /\ Payload.results.good = Qualifies
      /\ Markdown.state = "written" /\ Markdown.of = run
      /\ Markdown.results_of = script.results.of /\ Markdown.returncode = script.returncode
    BY DEF Payload, Markdown
<1>8. EvidenceAgrees'
    <2>1. raw.results.good = Qualifies => raw.results.good = (stage' = "0")
        BY <1>6
    <2>2. QED
        BY <1>1, <1>2, <1>4, <1>7, <2>1 DEF EvidenceAgrees
<1>9. ZeroIsEarned'
    BY <1>1, <1>2, <1>4, <1>6, <1>7 DEF ZeroIsEarned
<1>10. QED
    BY <1>5, <1>8, <1>9 DEF EvidenceInv, EvidenceIsHonest

\* Another run has read nothing yet.
LEMMA NextRunKeepsEvidence ==
    ASSUME StoppingInv, EvidenceInv, NextRun
    PROVE  EvidenceInv'
<1>1. stage' = "preflight"
    BY DEF NextRun
<1>2. QED
    BY <1>1
    DEF EvidenceInv, ResultsOwn, AfterReading, StopStages, LastStages, EvidenceIsHonest,
        EvidenceAgrees, ZeroIsEarned

\* The only go-ftw to end while there are no orphans is the one that is waited for.
LEMMA GoFtwKeepsEvidence ==
    ASSUME StoppingInv, EvidenceInv, NEW r \in Runs, go_ftw[r] = "running",
           NEW status \in {"zero", "not zero"}, go_ftw' = [go_ftw EXCEPT ![r] = status],
           status = "zero" => raw'.state = "results" /\ raw'.results.of = r,
           UNCHANGED <<run, stage, ended, script, report>>
    PROVE  EvidenceInv'
<1>1. ended[r] = "orphaned" \/ (r = run /\ stage = "go_ftw")
    BY DEF StoppingInv, RunsBounded, GoFtwBounded
<1>2. r = run => stage \in {"go_ftw", "orphaned"}
    BY <1>1 DEF StoppingInv, RunsBounded, EndsKnown
<1>3. NoneOrphaned => r = run /\ stage = "go_ftw"
    BY <1>1 DEF NoneOrphaned
<1>4. /\ go_ftw'[run] = IF r = run THEN status ELSE go_ftw[run]
      /\ NoneOrphaned' <=> NoneOrphaned
    BY RunsAreNumbers DEF StoppingInv, TypeOK, NoneOrphaned
<1>5. AfterReading' <=> AfterReading
    BY DEF AfterReading
<1>6. AfterReading \/ stage \in {"read", "0", "1"} => go_ftw'[run] = go_ftw[run]
    BY <1>2, <1>4 DEF AfterReading, StopStages, LastStages
<1>7. Markdown' = Markdown
    BY DEF Markdown
<1>8. ResultsOwn'
    <2>1. AfterReading' \/ stage' = "read" => script'.returncode = go_ftw'[run']
        BY <1>5, <1>6 DEF EvidenceInv, ResultsOwn
    <2>2. stage' = "return" => report' = Markdown'
        BY <1>7 DEF EvidenceInv, ResultsOwn
    <2>3. ASSUME NoneOrphaned
          PROVE  ~ AfterReading /\ stage = "go_ftw"
                 /\ (go_ftw'[run] = "zero" => raw'.state = "results" /\ raw'.results.of = run)
        BY <1>3, <1>4, <2>3 DEF AfterReading, StopStages, LastStages
    <2>4. QED
        BY <1>4, <1>5, <2>1, <2>2, <2>3 DEF ResultsOwn
<1>9. EvidenceIsHonest'
    <2>1. stage \in {"0", "1"} => ~ NoneOrphaned
        BY <1>3
    <2>2. EvidenceAgrees'
        BY <1>4, <1>6, <2>1 DEF EvidenceInv, EvidenceIsHonest, EvidenceAgrees
    <2>3. ZeroIsEarned'
        BY <1>4, <1>6, <2>1 DEF EvidenceInv, EvidenceIsHonest, ZeroIsEarned
    <2>4. QED
        BY <2>2, <2>3 DEF EvidenceIsHonest
<1>10. QED
    BY <1>8, <1>9 DEF EvidenceInv

\* The results a go-ftw that exits has written are those of its run.
LEMMA GoFtwExitsKeepsEvidence ==
    ASSUME StoppingInv, EvidenceInv, NEW r \in Runs, GoFtwExits(r)
    PROVE  EvidenceInv'
<1>1. PICK good \in BOOLEAN, state \in {"results", "partial"} :
        /\ raw' = [state |-> state, of |-> r, results |-> [of |-> r, good |-> good],
                   returncode |-> "none"]
        /\ \/ go_ftw' = [go_ftw EXCEPT ![r] = "not zero"]
           \/ state = "results" /\ go_ftw' = [go_ftw EXCEPT ![r] = "zero"]
    BY DEF GoFtwExits
<1>2. go_ftw[r] = "running" /\ UNCHANGED <<run, stage, ended, script, report>>
    BY DEF GoFtwExits
<1>3. CASE go_ftw' = [go_ftw EXCEPT ![r] = "not zero"]
    BY <1>2, <1>3, GoFtwKeepsEvidence
<1>4. CASE state = "results" /\ go_ftw' = [go_ftw EXCEPT ![r] = "zero"]
    <2>1. raw'.state = "results" /\ raw'.results.of = r
        BY <1>1, <1>4
    <2>2. QED
        BY <1>2, <1>4, <2>1, GoFtwKeepsEvidence
<1>5. QED
    BY <1>1, <1>3, <1>4

\* A go-ftw that exits without results has not exited with zero.
LEMMA GoFtwAbortsKeepsEvidence ==
    ASSUME StoppingInv, EvidenceInv, NEW r \in Runs, GoFtwAborts(r)
    PROVE  EvidenceInv'
BY GoFtwKeepsEvidence DEF GoFtwAborts, outputs

\* No evidence changes.
LEMMA EvidenceUntouched ==
    ASSUME EvidenceInv, UNCHANGED <<run, stage, ended, script, go_ftw, raw, report>>
    PROVE  EvidenceInv'
<1>1. Payload' = Payload /\ Markdown' = Markdown /\ (NoneOrphaned' <=> NoneOrphaned)
      /\ (AfterReading' <=> AfterReading)
    BY DEF Payload, Markdown, Qualifies, NoneOrphaned, AfterReading
<1>2. ResultsOwn'
    BY <1>1 DEF EvidenceInv, ResultsOwn
<1>3. EvidenceIsHonest'
    BY <1>1 DEF EvidenceInv, EvidenceIsHonest, EvidenceAgrees, ZeroIsEarned
<1>4. QED
    BY <1>2, <1>3 DEF EvidenceInv

\* Initially nothing has been read.
LEMMA EvidenceInitially == Init => EvidenceInv
BY DEF Init, EvidenceInv, ResultsOwn, AfterReading, StopStages, LastStages, EvidenceIsHonest,
       EvidenceAgrees, ZeroIsEarned

\* No step mixes the evidence of runs.
LEMMA StepKeepsEvidence == StoppingInv /\ EvidenceInv /\ [Next]_vars => EvidenceInv'
<1> SUFFICES ASSUME StoppingInv, EvidenceInv, [Next]_vars PROVE EvidenceInv'
    OBVIOUS
<1>1. CASE Step
    BY <1>1, MovingKeepsEvidence, SpawnGoFtwKeepsEvidence, GoFtwReturnsKeepsEvidence,
       ReadResultsKeepsEvidence, WriteRawKeepsEvidence, WriteReportKeepsEvidence,
       ReturnKeepsEvidence
    DEF Step
<1>2. CASE WaitExpires \/ CleanupFails \/ InterruptStopping \/ Interrupt \/ Killed \/ NextRun
    BY <1>2, MovingKeepsEvidence, InterruptKeepsEvidence, NextRunKeepsEvidence
<1>3. CASE \E r \in Runs : GoFtwExits(r) \/ GoFtwAborts(r)
    BY <1>3, GoFtwExitsKeepsEvidence, GoFtwAbortsKeepsEvidence
<1>4. CASE \E r \in Runs, p \in Servers : ServerReady(r, p) \/ ServerDies(r, p)
    BY <1>4, EvidenceUntouched DEF ServerReady, ServerDies, outputs
<1>5. CASE UNCHANGED vars
    BY <1>5, EvidenceUntouched DEF vars, processes, outputs
<1>6. QED
    BY <1>1, <1>2, <1>3, <1>4, <1>5 DEF Next

\* A run that exits with a verdict leaves a whole report of its own with its own
\* go-ftw's status, and zero is the status of a go-ftw that exited with zero.  Unless
\* a killed run's go-ftw is about, its JSON agrees with the report and with the exit
\* status, and results of an earlier run are reported only with exit status 1 and a
\* go-ftw that did not exit with zero.
THEOREM EvidenceHonest == Spec => []EvidenceIsHonest
<1>1. Spec => []EvidenceInv
    BY StoppingInvariance, EvidenceInitially, StepKeepsEvidence, PTL DEF Spec
<1>2. EvidenceInv => EvidenceIsHonest
    BY DEF EvidenceInv
<1>3. QED
    BY <1>1, <1>2, PTL
=============================================================================
