---------------------------- MODULE MCServerLoop ----------------------------
(* Traffic for ServerLoop: every way initialize may go, updates of two lib *)
(* paths, and the other methods.                                           *)
EXTENDS ServerLoop

CONSTANTS p1, p2
TwoPaths == {p1, p2}

AnySetup == {[notif |-> FALSE, method |-> m] :
               m \in [op : {"initialize"}, options : Settings \cup Unread, paths : {p1}]}

Update(options, p) == [op |-> "configure", options |-> options, paths |-> p]
Query == [op |-> "query"]

MCTraffic ==
    AnySetup
    \cup {[notif |-> FALSE, method |-> m] :
            m \in {Update("paths", p1), Update("paths", p2), Update("mixed", p2),
                   Update("wrong", p2)} \cup Plain}
    \cup {[notif |-> TRUE, method |-> m] : m \in {Update("paths", p2), Query}}
=============================================================================
