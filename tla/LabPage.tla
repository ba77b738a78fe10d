------------------------------- MODULE LabPage -------------------------------
(***************************************************************************)
(* The script of the page of the OWASP CRS lab (tools/owasp-crs-lab.py):   *)
(* the request form, the panel that shows a result, and the history.       *)
(*                                                                         *)
(* "Run inspection" is disabled while its request is under way, but Ctrl + *)
(* Enter sends another all the same, so several requests may be in flight  *)
(* and their results may come in any order.  The script runs one callback  *)
(* at a time, from one await to the next.                                  *)
(***************************************************************************)
EXTENDS Naturals, Sequences

CONSTANTS
    Requests,       \* bound: the requests sent from one page
    Presets,
    Clean,          \* the preset the page is loaded with
    HistoryLimit    \* 12 in the code

\* A request is none of the words the panel shows when it has no result.
ASSUME RequestsAssumption == {"NOT_RUN", "ERROR"} \cap Requests = {}
ASSUME CleanAssumption == Clean \in Presets
ASSUME HistoryLimitAssumption == HistoryLimit \in Nat \ {0}

\* What the fields for method, path, headers and body hold.
Fields == Presets \cup {"edited", "invalid_headers"}

VARIABLES
    select,     \* the test case selected
    fields,     \* what the request fields hold
    request,    \* each call of sendRequest
    disabled,   \* the button
    panel,      \* where the parts of the result panel are from
    runHistory,
    results     \* every result received, newest first

page == <<select, fields, request, disabled, panel, runHistory, results>>

form == <<select, fields>>

Set(s) == {s[i] : i \in DOMAIN s}

-----------------------------------------------------------------------------
(* The form *)

ApplyPreset(name) ==
    /\ select' = name
    /\ fields' = name

\* Choosing "custom" leaves the fields as they are.
SelectTestCase(name) ==
    /\ name # select
    /\ IF name \in Presets THEN ApplyPreset(name) ELSE select' = name /\ UNCHANGED fields
    /\ UNCHANGED <<request, disabled, panel, runHistory, results>>

Edit ==
    /\ fields' \in {"edited", "invalid_headers"}
    /\ select' = "custom"
    /\ UNCHANGED <<request, disabled, panel, runHistory, results>>

-----------------------------------------------------------------------------
(* Results *)

\* renderResult, which ends with every part written, renderRules' among them.
renderResult(r) == panel' = [decision |-> r, rules |-> r, detail |-> r, rest |-> r]

\* Scores, status, upstream, event and response stay as they were.
ShowError == panel' = [panel EXCEPT !.decision = "ERROR", !.rules = "error", !.detail = "error"]

\* Fault: the newest entry is the one dropped.
addHistoryDropsNewest(r) ==
    runHistory' = IF Len(runHistory) = HistoryLimit THEN runHistory ELSE <<r>> \o runHistory

\* unshift, and pop beyond the limit.
addHistory(r) ==
    runHistory' = SubSeq(<<r>> \o runHistory, 1,
                         IF Len(runHistory) >= HistoryLimit THEN HistoryLimit
                                                            ELSE Len(runHistory) + 1)

\* The click on an entry of the history.
Replay(i) ==
    /\ i \in DOMAIN runHistory
    /\ select' = "custom"
    /\ fields' = request[runHistory[i]].payload
    /\ renderResult(runHistory[i])
    /\ UNCHANGED <<request, disabled, runHistory, results>>

-----------------------------------------------------------------------------
(* sendRequest *)

\* A header line without a name is found before anything is sent.
SendInvalid(r) ==
    /\ request[r].state = "new" /\ fields = "invalid_headers"
    /\ request' = [request EXCEPT ![r] = [state |-> "failed", payload |-> fields]]
    /\ ShowError
    /\ disabled' = FALSE
    /\ UNCHANGED <<form, runHistory, results>>

\* By the button if it is enabled, by the keys in any case.
SendRequest(r) ==
    /\ request[r].state = "new" /\ fields # "invalid_headers"
    /\ request' = [request EXCEPT ![r] = [state |-> "fetching", payload |-> fields]]
    /\ disabled' = TRUE
    /\ UNCHANGED <<form, panel, runHistory, results>>

ReceiveResult(r) ==
    /\ request[r].state = "fetching"
    /\ request' = [request EXCEPT ![r].state = "completed"]
    /\ results' = <<r>> \o results
    /\ renderResult(r)
    /\ addHistory(r)
    /\ disabled' = FALSE
    /\ UNCHANGED form

\* No answer, an answer that is not JSON, or one with an error status.
Fail(r) ==
    /\ request[r].state = "fetching"
    /\ request' = [request EXCEPT ![r].state = "failed"]
    /\ ShowError
    /\ disabled' = FALSE
    /\ UNCHANGED <<form, runHistory, results>>

-----------------------------------------------------------------------------

PageInit ==
    /\ select = Clean
    /\ fields = Clean
    /\ request = [r \in Requests |-> [state |-> "new", payload |-> Clean]]
    /\ disabled = FALSE
    /\ panel = [decision |-> "NOT_RUN", rules |-> "none", detail |-> "none", rest |-> "none"]
    /\ runHistory = <<>>
    /\ results = <<>>

PageNext ==
    \/ \E name \in Presets \cup {"custom"} : SelectTestCase(name)
    \/ Edit
    \/ \E i \in 1..HistoryLimit : Replay(i)
    \/ \E r \in Requests : SendInvalid(r) \/ SendRequest(r) \/ ReceiveResult(r) \/ Fail(r)

PageSpec == PageInit /\ [][PageNext]_page

-----------------------------------------------------------------------------
(* Properties *)

PageTypeOK ==
    /\ select \in Presets \cup {"custom"}
    /\ fields \in Fields
    /\ request \in [Requests -> [state : {"new", "fetching", "completed", "failed"},
                                 payload : Fields]]
    /\ disabled \in BOOLEAN
    /\ panel \in [decision : Requests \cup {"NOT_RUN", "ERROR"},
                  rules : Requests \cup {"none", "error"},
                  detail : Requests \cup {"none", "error"},
                  rest : Requests \cup {"none"}]
    /\ runHistory \in Seq(Requests) /\ Len(runHistory) <= HistoryLimit
    /\ results \in Seq(Requests)

\* The history is the latest results, newest first, in whatever order they
\* came: none twice, none missing, and no error among them.
HistoryIsLatest ==
    /\ runHistory = SubSeq(results, 1, Len(runHistory))
    /\ Len(runHistory) < HistoryLimit => runHistory = results
    /\ Set(results) = {r \in Requests : request[r].state = "completed"}
    /\ \A i, j \in DOMAIN results : results[i] = results[j] => i = j

\* A panel with a decision shows one result in all its parts, also when it
\* replaces an error or another result that was shown while it was under way.
PanelIsWhole ==
    panel.decision \in Requests =>
        /\ panel.rules = panel.decision /\ panel.detail = panel.decision
        /\ panel.rest = panel.decision

\* A disabled button waits for a request that is still under way, so that it
\* is enabled again whatever becomes of the requests.
ButtonNotStuck == disabled => \E r \in Requests : request[r].state = "fetching"

\* A test case named in the form is the one its fields hold.
FormIsTestCase == select # "custom" => fields = select

\* What the page shows belongs together: the history and the results that have
\* come, the parts of the panel, the button and the requests it waits for, the
\* form and the test case it names.
PageAgrees ==
    PageTypeOK /\ HistoryIsLatest /\ PanelIsWhole /\ ButtonNotStuck /\ FormIsTestCase
=============================================================================
