---------------------------- MODULE LookupService ----------------------------
(***************************************************************************)
(* What a DNS lookup promises to its user, whatever packets are lost,      *)
(* delayed, duplicated or meant for an earlier request: a request ends at  *)
(* most once, in a cancel() or in a callback; callbacks come one at a      *)
(* time; and what a callback reports follows from the records of the host. *)
(***************************************************************************)
EXTENDS Naturals

CONSTANTS
    Resolvers,  \* dns_resolver objects of the application
    Hosts,      \* host names
    Zone,       \* what the DNS server says of each record of a host
    Null

RecordTypes == {"AAAA", "A"}

\* An IP address is known by the record it comes from.
Ip(h, type) == [host |-> h, type |-> type]

\* What may be reported for host h: what the server says of its AAAA record or, if there
\* is none, of its A record; that no answer came in time; or that the socket failed.
Answers(h) ==
    LET type == IF Zone[h]["AAAA"] = "not_found" THEN "A" ELSE "AAAA"
    IN  {[result |-> "timeout", ip |-> Null],
         [result |-> "error", ip |-> Null],
         [result |-> Zone[h][type], ip |-> IF Zone[h][type] = "ok" THEN Ip(h, type) ELSE Null]}

VARIABLES
    wanted,     \* host each resolver is looking up
    reported    \* what the running callback was given

vars == <<wanted, reported>>

Init ==
    /\ wanted = [r \in Resolvers |-> Null]
    /\ reported = Null

Ask(r, h) ==
    /\ wanted[r] = Null
    /\ wanted' = [wanted EXCEPT ![r] = h]
    /\ UNCHANGED reported

Cancel(r) ==
    /\ wanted[r] # Null
    /\ wanted' = [wanted EXCEPT ![r] = Null]
    /\ UNCHANGED reported

\* A callback with that answer, whether it is the right one or not.
Report(r, answer) ==
    /\ wanted[r] # Null
    /\ reported = Null
    /\ reported' = [to |-> r, answer |-> answer]
    /\ wanted' = [wanted EXCEPT ![r] = Null]

Reported ==
    /\ reported # Null
    /\ reported' = Null
    /\ UNCHANGED wanted

Next ==
    \/ \E r \in Resolvers, h \in Hosts : Ask(r, h)
    \/ \E r \in Resolvers : Cancel(r)
    \/ \E r \in Resolvers : wanted[r] # Null /\ \E answer \in Answers(wanted[r]) : Report(r, answer)
    \/ Reported

Spec == Init /\ [][Next]_vars
=============================================================================
