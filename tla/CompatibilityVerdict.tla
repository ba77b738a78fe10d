------------------------ MODULE CompatibilityVerdict ------------------------
(***************************************************************************)
(* What tools/crs-compatibility-report.py makes of the results of go-ftw:  *)
(* qualification_failures, result_rows, classify_failures and the counts   *)
(* of write_report.                                                        *)
(*                                                                         *)
(* go-ftw is external.  It lists the identifiers of tests under six        *)
(* statuses, any test any number of times, with the rules each triggered,  *)
(* and exits with any status.  The corpus is what the script read from the *)
(* test files, which may be more or less than was pinned.                  *)
(***************************************************************************)
EXTENDS Naturals, Sequences, FiniteSets, FiniteSetsExt

CONSTANTS
    Tests,              \* every test identifier that go-ftw may list
    Rules,              \* rules of a test's assertions
    Corpora,            \* sets of tests the script may have read
    EXPECTED_CRS_TEST_COUNT,
    REVIEWED_PLATFORM_IGNORES,
    TestMetadata,       \* what a file says of each test it has
    RuleOf,             \* the rule of each test
    Side,               \* traffic side by rule file
    MaxEntries          \* bound: entries in the results

RESULT_STATUS_KEYS == {"success", "failed", "skipped", "ignored", "forced-pass", "forced-fail"}

Categories == DOMAIN Side

ASSUME CorporaAssumption == \A c \in Corpora : c \subseteq Tests /\ IsFiniteSet(c)
ASSUME ReviewedAssumption == REVIEWED_PLATFORM_IGNORES \subseteq Tests
ASSUME CountAssumption == EXPECTED_CRS_TEST_COUNT \in Nat
ASSUME MetadataAssumption ==
    TestMetadata \in
        [Tests -> [category : Categories, expected_ids : SUBSET Rules,
                   forbidden_ids : SUBSET Rules, has_log_regex : BOOLEAN,
                   has_status_assertion : BOOLEAN, expects_error : BOOLEAN]]
\* The tests of a rule are in one directory, and none is called UNMAPPED.
ASSUME DirectoryAssumption ==
    /\ \A s, t \in Tests :
        RuleOf[s] = RuleOf[t] => TestMetadata[s].category = TestMetadata[t].category
    /\ \A t \in Tests : TestMetadata[t].category # "UNMAPPED"
    /\ "UNMAPPED" \in Categories
ASSUME SideAssumption == Side \in [Categories -> {"request", "response", "other"}]

VARIABLES
    options,    \* the arguments of the script
    corpus,     \* the keys of test_metadata
    results,    \* the lists in go-ftw's JSON
    triggered,  \* triggered-rules in go-ftw's JSON
    returncode  \* go-ftw's exit status

verdictVars == <<options, corpus, results, triggered, returncode>>

-----------------------------------------------------------------------------
(* Results *)

\* The entries of the lists under some statuses.
EntriesUnder(statuses) ==
    UNION {{<<status, i>> : i \in DOMAIN results[status]} : status \in statuses}

all_results == EntriesUnder(RESULT_STATUS_KEYS)

TestOf(e) == results[e[1]][e[2]]

TestsUnder(statuses) == {TestOf(e) : e \in EntriesUnder(statuses)}

\* Fault: only a test listed twice under one status is a duplicate.
duplicate_ids_by_status ==
    {t \in TestsUnder(RESULT_STATUS_KEYS) :
        \E d, e \in all_results : d # e /\ d[1] = e[1] /\ TestOf(d) = t /\ TestOf(e) = t}

duplicate_ids ==
    {t \in TestsUnder(RESULT_STATUS_KEYS) :
        \E d, e \in all_results : d # e /\ TestOf(d) = t /\ TestOf(e) = t}

-----------------------------------------------------------------------------
(* qualification_failures *)

\* Fault: an ignored test need only be reviewed.
MatchesReviewedLoosely ==
    TestsUnder({"ignored"}) \subseteq REVIEWED_PLATFORM_IGNORES

\* A full run ignores every reviewed test.
MatchesReviewed ==
    options.full_run => TestsUnder({"ignored"}) = REVIEWED_PLATFORM_IGNORES

ResultSetFailures ==
    {why \in {"corpus count", "result count", "missing", "unexpected"} :
        \/ why = "corpus count" /\ Cardinality(corpus) # EXPECTED_CRS_TEST_COUNT
        \/ why = "result count" /\ Cardinality(all_results) # EXPECTED_CRS_TEST_COUNT
        \/ why = "missing" /\ ~ corpus \subseteq TestsUnder(RESULT_STATUS_KEYS)
        \/ why = "unexpected" /\ ~ TestsUnder(RESULT_STATUS_KEYS) \subseteq corpus}

IgnoreFailures ==
    {why \in {"unreviewed", "not the reviewed", "ignored"} :
        \/ why = "unreviewed" /\ ~ TestsUnder({"ignored"}) \subseteq REVIEWED_PLATFORM_IGNORES
        \/ why = "not the reviewed" /\ options.apply_platform_overrides /\ ~ MatchesReviewed
        \/ why = "ignored" /\ ~ options.apply_platform_overrides /\ TestsUnder({"ignored"}) # {}}

qualification_failures ==
    {why \in {"exit status", "skipped", "duplicate", "failed or forced"} :
        \/ why = "exit status" /\ returncode # "zero"
        \/ why = "skipped" /\ TestsUnder({"skipped"}) # {}
        \/ why = "duplicate" /\ duplicate_ids # {}
        \/ why = "failed or forced" /\ options.fail_on_test_failure
           /\ TestsUnder({"failed", "forced-pass", "forced-fail"}) # {}}
    \cup IgnoreFailures
    \cup (IF options.full_run THEN ResultSetFailures ELSE {})

-----------------------------------------------------------------------------
(* result_rows, classify_failures and write_report *)

\* The directory of a rule of which the corpus has a test.
rule_index(t) ==
    IF \E s \in corpus : RuleOf[s] = RuleOf[t] THEN TestMetadata[t].category ELSE "UNMAPPED"

\* Fault: a test of no known rule file has no row.
row_categories_mapped == {rule_index(TestOf(e)) : e \in all_results} \ {"UNMAPPED"}

row_categories == {rule_index(TestOf(e)) : e \in all_results}

\* The row of a rule file: how many entries it has under each status.
result_rows ==
    [category \in row_categories |->
        [status \in RESULT_STATUS_KEYS |->
            Cardinality({e \in EntriesUnder({status}) : rule_index(TestOf(e)) = category})]]

traffic_side_counts ==
    [side \in {Side[category] : category \in DOMAIN result_rows} |->
        [status \in RESULT_STATUS_KEYS |->
            LET count(category) == result_rows[category][status] IN
            MapThenSumSet(count, {c \in DOMAIN result_rows : Side[c] = side})]]

metadata(t) ==
    IF t \in corpus
    THEN TestMetadata[t]
    ELSE [category |-> "UNMAPPED", expected_ids |-> {}, forbidden_ids |-> {},
          has_log_regex |-> FALSE, has_status_assertion |-> FALSE, expects_error |-> FALSE]

classification(missing, unexpected, m) ==
    CASE missing # {} /\ unexpected # {} -> "missing-and-unexpected-rule-ids"
      [] missing # {} /\ unexpected = {} -> "missing-expected-rule-id"
      [] missing = {} /\ unexpected # {} -> "unexpected-forbidden-rule-id"
      [] OTHER -> IF m.has_log_regex THEN "log-regex-mismatch"
                  ELSE IF m.has_status_assertion THEN "status-or-response-mismatch"
                  ELSE IF m.expects_error THEN "transport-error-mismatch"
                  ELSE "unclassified-assertion-mismatch"

failure_detail(t) ==
    LET m == metadata(t)
        missing == m.expected_ids \ triggered[t]
        unexpected == m.forbidden_ids \cap triggered[t]
    IN  [category |-> m.category, missing_ids |-> missing, unexpected_ids |-> unexpected,
         classification |-> classification(missing, unexpected, m)]

classify_failures == [i \in DOMAIN results["failed"] |-> failure_detail(results["failed"][i])]

-----------------------------------------------------------------------------
(* go-ftw *)

VerdictInit ==
    /\ options \in [full_run : BOOLEAN, apply_platform_overrides : BOOLEAN,
                    fail_on_test_failure : BOOLEAN]
    /\ corpus \in Corpora
    /\ results = [status \in RESULT_STATUS_KEYS |-> <<>>]
    /\ triggered = [t \in Tests |-> {}]
    /\ returncode = "running"

\* A test ends; what a test that failed triggered is of interest.
List(t, status) ==
    /\ returncode = "running" /\ Cardinality(all_results) < MaxEntries
    /\ results' = [results EXCEPT ![status] = Append(@, t)]
    /\ \E ids \in SUBSET (IF status = "failed" THEN Rules ELSE {}) :
        triggered' = [triggered EXCEPT ![t] = @ \cup ids]
    /\ UNCHANGED <<options, corpus, returncode>>

Exit ==
    /\ returncode = "running"
    /\ returncode' \in {"zero", "not zero"}
    /\ UNCHANGED <<options, corpus, results, triggered>>

VerdictNext == Exit \/ \E t \in Tests, status \in RESULT_STATUS_KEYS : List(t, status)

VerdictSpec == VerdictInit /\ [][VerdictNext]_verdictVars

-----------------------------------------------------------------------------
(* Properties *)

VerdictTypeOK ==
    /\ options \in [full_run : BOOLEAN, apply_platform_overrides : BOOLEAN,
                    fail_on_test_failure : BOOLEAN]
    /\ corpus \in Corpora
    /\ results \in [RESULT_STATUS_KEYS -> Seq(Tests)]
    /\ triggered \in [Tests -> SUBSET Rules]
    /\ returncode \in {"running", "zero", "not zero"}

\* The run CI requires: the whole corpus, overrides applied, failures counted.
Required == options.full_run /\ options.apply_platform_overrides /\ options.fail_on_test_failure

ListedOnce(t) ==
    \E e \in all_results : TestOf(e) = t /\ \A d \in all_results : TestOf(d) = t => d = e

\* docs/development.md: a non-zero exit, a skipped test, an incomplete or
\* duplicate result set, a failed test or a forced result fails CI, and so does
\* an ignored set that is not the reviewed one.  No run that qualifies lists a
\* test twice, and a required one accounts for every pinned test: as passed,
\* or as ignored exactly if it is reviewed.
QualifiedIsComplete ==
    returncode # "running" /\ qualification_failures = {} =>
        /\ returncode = "zero"
        /\ \A t \in TestsUnder(RESULT_STATUS_KEYS) : ListedOnce(t)
        /\ Required =>
            /\ Cardinality(corpus) = EXPECTED_CRS_TEST_COUNT
            /\ TestsUnder({"ignored"}) = REVIEWED_PLATFORM_IGNORES
            /\ TestsUnder({"success"}) = corpus \ REVIEWED_PLATFORM_IGNORES
            /\ TestsUnder(RESULT_STATUS_KEYS) = corpus

\* A required run that passes every pinned test but the reviewed ones, which
\* it ignores, qualifies: no check fails a good run.
CompleteQualifies ==
    /\ returncode = "zero" /\ Required
    /\ Cardinality(corpus) = EXPECTED_CRS_TEST_COUNT
    /\ REVIEWED_PLATFORM_IGNORES \subseteq corpus
    /\ \A t \in corpus : ListedOnce(t)
    /\ TestsUnder({"ignored"}) = REVIEWED_PLATFORM_IGNORES
    /\ TestsUnder({"success"}) = corpus \ REVIEWED_PLATFORM_IGNORES
    /\ TestsUnder(RESULT_STATUS_KEYS \ {"ignored", "success"}) = {}
    => qualification_failures = {}

\* A required run qualifies exactly when it is complete.
QualifiesExactly == QualifiedIsComplete /\ CompleteQualifies

\* "Passed, failed, skipped, ignored, and forced results remain separate in the
\* report": both tables of the report add up to its totals under each status,
\* for tests of unknown rules and duplicates too.
NothingDisappears ==
    \A status \in RESULT_STATUS_KEYS :
        LET row(category) == result_rows[category][status]
            side(s) == traffic_side_counts[s][status]
        IN  /\ MapThenSumSet(row, DOMAIN result_rows) = Len(results[status])
            /\ MapThenSumSet(side, DOMAIN traffic_side_counts) = Len(results[status])

\* A failure is put down to rule identifiers exactly if an expected rule of the
\* test was not triggered or a forbidden one was, and the failures the analysis
\* counts for a rule file are those in its row, as far as the tests of the file
\* that failed are in the corpus.
FailuresExplained ==
    /\ \A i \in DOMAIN results["failed"] :
        LET t == results["failed"][i]
            ids_hold == /\ metadata(t).expected_ids \subseteq triggered[t]
                        /\ metadata(t).forbidden_ids \cap triggered[t] = {}
        IN  classify_failures[i].classification \in
                (IF ids_hold
                 THEN {"log-regex-mismatch", "status-or-response-mismatch",
                       "transport-error-mismatch", "unclassified-assertion-mismatch"}
                 ELSE {"missing-and-unexpected-rule-ids", "missing-expected-rule-id",
                       "unexpected-forbidden-rule-id"})
    /\ \A category \in DOMAIN result_rows :
        /\ category # "UNMAPPED"
        /\ {t \in TestsUnder({"failed"}) : rule_index(t) = category} \subseteq corpus
        =>
            result_rows[category]["failed"] =
                Cardinality({i \in DOMAIN classify_failures :
                                classify_failures[i].category = category})

\* The report shows every entry, and why each failed.
ReportIsComplete == NothingDisappears /\ FailuresExplained
=============================================================================
