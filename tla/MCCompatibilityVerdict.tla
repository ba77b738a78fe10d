----------------------- MODULE MCCompatibilityVerdict -----------------------
(* A pinned corpus of two tests, one of them reviewed; a corpus that has a   *)
(* test too many; and one in which a test of a known rule was replaced.      *)
EXTENDS CompatibilityVerdict

MCTests == {"920430-1", "920430-5", "950100-1"}

MCCorpora == {{"920430-1", "920430-5"}, MCTests, {"920430-5", "950100-1"}}

MCRules == [t \in MCTests |-> IF t = "950100-1" THEN "950100" ELSE "920430"]

MCSide ==
    [c \in {"REQUEST-920", "RESPONSE-950", "UNMAPPED"} |->
        CASE c = "REQUEST-920" -> "request"
          [] c = "RESPONSE-950" -> "response"
          [] c = "UNMAPPED" -> "other"]

MCMetadata ==
    [t \in MCTests |->
        [category |-> IF t = "950100-1" THEN "RESPONSE-950" ELSE "REQUEST-920",
         expected_ids |-> IF t = "920430-5" THEN {} ELSE {920430},
         forbidden_ids |-> IF t = "920430-1" THEN {} ELSE {920440},
         has_log_regex |-> t = "920430-1",
         has_status_assertion |-> t = "950100-1",
         expects_error |-> FALSE]]
=============================================================================
