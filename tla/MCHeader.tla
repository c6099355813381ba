------------------------------ MODULE MCHeader ------------------------------
(***************************************************************************)
(* Instantiates Header for TLC.  The composition runs use a few profiles   *)
(* of response_headers: a 200 with a Location (a marked buffer), a 206 with *)
(* a Content-Range (a marked buffer) and a 304.                            *)
(***************************************************************************)
EXTENDS Header

CONSTANTS c1, c2

Base == [status |-> 200, last_modified |-> TRUE, connection |-> 0,
         keepalive |-> TRUE, conn_len |-> TRUE, http11 |-> FALSE,
         location |-> FALSE, allow |-> FALSE, content_type |-> TRUE,
         te |-> "none", content_encoding |-> FALSE, content_length |-> 10,
         ranges |-> <<-1, -1>>, resume |-> TRUE, cgi |-> FALSE,
         breakline |-> FALSE, extra_rows |-> FALSE]

MCProfiles == { [Base EXCEPT !.location = TRUE, !.last_modified = FALSE],
                [Base EXCEPT !.ranges = <<0, 5>>, !.keepalive = FALSE],
                [Base EXCEPT !.status = 304, !.content_length = -1,
                             !.content_type = FALSE] }

\* The same, and a 200 to which a plugin added one row (mk_plugin_header_add).
MCProfilesRows == MCProfiles \cup {[Base EXCEPT !.extra_rows = TRUE]}

=============================================================================
