---------------------------- MODULE MCLabRequests ----------------------------
(* Two calls: each check of do_POST and validate_request failing alone, the *)
(* lab's own header set by the client in either case, and good requests.    *)
EXTENDS LabRequests

GoodPost ==
    [path |-> TRUE, token |-> TRUE, length |-> "good", json |-> TRUE, fields |-> "good",
     lab_id |-> NoCall, lab_id_lower_case |-> TRUE]

MCPosts ==
    {GoodPost,
     [GoodPost EXCEPT !.path = FALSE, !.token = FALSE],
     [GoodPost EXCEPT !.token = FALSE, !.length = "not a number"],
     [GoodPost EXCEPT !.length = "not a number"],
     [GoodPost EXCEPT !.length = "out of range"],
     [GoodPost EXCEPT !.json = FALSE],
     [GoodPost EXCEPT !.fields = "rejected"],
     [GoodPost EXCEPT !.fields = "not encodable"]}
    \cup {[GoodPost EXCEPT !.lab_id = c, !.lab_id_lower_case = lower] :
            c \in Calls, lower \in BOOLEAN}
=============================================================================
