----------------------------- MODULE DnsPackets -----------------------------
(***************************************************************************)
(* The packets of dns_resolver.cpp: the question SendRequestToDNS() writes *)
(* and the walk of ParseReplyFromDNS() through a reply.                    *)
(*                                                                         *)
(* A host name is the sequence of the lengths of its labels: what its dots *)
(* delimit, <<0>> being the empty text and <<1, 0>> one like "a.".  Of a   *)
(* reply only what the walk tests is kept, and the place of each part:     *)
(* octets is how many bytes of it were received.                           *)
(***************************************************************************)
EXTENDS Integers, SequencesExt, FiniteSetsExt

CONSTANT Null     \* no address

HeaderSize == 12
ReceiveBuffer == 512

Total(s) == LET sum[i \in 0 .. Len(s)] == IF i = 0 THEN 0 ELSE sum[i - 1] + s[i] IN sum[Len(s)]
Octets(labels) == Total(labels) + Len(labels)

\* std::string::size() of a host name: its labels and the dots between them.
Size(name) == Octets(name) - 1

-----------------------------------------------------------------------------
(* The question                                                            *)

\* Mutant of WriteName: the loop ends at the last dot.
WriteNameToLastDot(name) == Append(Front(name), 0)

\* The loop over the dots: a label for each, none after a dot that ends the name.
WriteName(name) == Append(IF Last(name) = 0 THEN Front(name) ELSE name, 0)

Question(name, recordType) ==
    [labels |-> WriteName(name), type |-> recordType,
     size |-> HeaderSize + Size(name) + 2 + 4]

\* ParseHostNameFromDNSPacket(): the name ends at the first empty label.
ReadName(labels) ==
    LET end == SelectInSeq(labels, LAMBDA l : l = 0)
    IN  IF end = 1 THEN <<0>> ELSE SubSeq(labels, 1, end - 1)

-----------------------------------------------------------------------------
(* The reply                                                               *)

\* An owner that is spelled has octets bytes with the zero at its end, a "pointer" is
\* two bytes.  After labels that end in a pointer ("mixed") the walk takes the high byte
\* of the type for the end of the name, unless the pointer holds a zero byte (not modelled).
OwnerSize(owner) == IF owner.kind = "pointer" THEN 2 ELSE owner.octets

AnswerSize(a) == OwnerSize(a.owner) + 10 + a.len

\* What the fields of a packet are: counts, lengths, and a sequence of answers.  After a
\* mixed owner data whose length is 0 or 1 in its low byte is not modelled.
IsReply(reply) ==
    /\ reply.count \in Nat /\ reply.labels \in Seq(Nat)
    /\ Len(reply.answers) \in Nat /\ DOMAIN reply.answers = 1 .. Len(reply.answers)
    /\ \A i \in DOMAIN reply.answers :
           LET a == reply.answers[i]
           IN  /\ a.owner.octets \in Nat /\ a.len \in Nat
               /\ a.owner.kind = "mixed" => a.len % 256 >= 2

QuestionEnd(reply) == HeaderSize + Octets(reply.labels) + 4

\* Where the first n answers end in the complete reply.
AnswersEnd(reply, n) ==
    LET end[i \in 0 .. n] ==
            IF i = 0 THEN QuestionEnd(reply) ELSE end[i - 1] + AnswerSize(reply.answers[i])
    IN  end[n]
FullSize(reply) == AnswersEnd(reply, Len(reply.answers))

\* Is the name of the question in what was received?
NameReceived(reply) == HeaderSize + Octets(reply.labels) <= reply.octets

DataSize(recordType) == IF recordType = "AAAA" THEN 16 ELSE 4

Result(verdict) == [result |-> verdict, ip |-> Null]
Error == Result("dns_error")

\* Mutant of ParseAnswers: an address is taken from data that was not received.
ParseAnswersUnbounded(reply, recordType) ==
    LET answers == reply.answers
        from[n \in 1 .. Len(answers) + 1] ==
            IF n > reply.count \/ n > Len(answers) THEN Error
            ELSE LET a == answers[n]
                 IN  IF AnswersEnd(reply, n) - a.len > reply.octets \/ a.owner.kind = "mixed"
                     THEN Error
                     ELSE IF a.type = recordType
                     THEN IF a.len < DataSize(recordType)
                          THEN Error ELSE [result |-> "ok", ip |-> a.ip]
                     ELSE from[n + 1]
    IN  from[1]

\* The loop over the answers, from answer n on.  Every check against the end of the
\* packet comes before what it guards, and the last one implies the others.
\* After a "mixed" owner one byte is taken for the next: the length that is read has the
\* low byte of the real one for its high byte, and is beyond the end of the buffer.
ParseAnswers(reply, recordType) ==
    LET answers == reply.answers
        from[n \in 1 .. Len(answers) + 1] ==
            IF n > reply.count \/ n > Len(answers) THEN Error
            ELSE LET a == answers[n]
                 IN  IF AnswersEnd(reply, n) > reply.octets \/ a.owner.kind = "mixed"
                     THEN Error
                     ELSE IF a.type = recordType
                     THEN IF a.len < DataSize(recordType)
                          THEN Error ELSE [result |-> "ok", ip |-> a.ip]
                     ELSE from[n + 1]
    IN  from[1]

\* ParseReplyFromDNS() for a reply of at least 13 bytes.  The type and the class of the
\* question are read unchecked: when they were cut off, the first answer is missing too.
\* It is not for the empty host and a name that was cut: that is read as "" as well.
ParseReply(reply, host, recordType) ==
    LET understood == reply.response /\ reply.rcode = 0 /\ reply.questions = 1
        asked == /\ NameReceived(reply) /\ ReadName(reply.labels) = host
                 /\ reply.type = recordType /\ reply.class = 1
    IN  CASE reply.response /\ reply.rcode = 3 -> Result("not_found")
          [] understood /\ reply.count = 0 -> Result("not_found")
          [] understood /\ reply.count # 0 /\ asked -> ParseAnswers(reply, recordType)
          [] OTHER -> Error
=============================================================================
