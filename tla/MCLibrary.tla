------------------------------ MODULE MCLibrary ------------------------------
(* Instance of Library for TLC: host names, address texts, resolv.conf files *)
(* and replies that make the cases of the code happen.                       *)
EXTENDS Library, TLC

CONSTANT h1

OneHandler == {h1}

Short == <<1, 2>>
Rooted == <<1, 0>>
Long == <<63, 63, 63, 61>>
SomeHosts == {Short, Rooted, Long, NoHost}

\* 10.0.0.1, 1.2.3.4, 256.1.1.1 and 0.0.0.0.
Private == V4Text(<<10, 0, 0, 1>>)
Public == V4Text(<<1, 2, 3, 4>>)
TooBig == V4Text(<<256, 1, 1, 1>>)
Unset == V4Text(<<0, 0, 0, 0>>)
\* 2001::1, 2001::1a, fe80::1, 2001::, and eight groups that end in a letter.
Six == V6Text(<<8193, 1>>, 1)
SixHex == V6Text(<<8193, 26>>, 1)
SixLocal == V6Text(<<65152, 1>>, 1)
SixNet == V6Text(<<8193>>, 1)
SixFull == V6Text(<<1, 2, 3, 4, 5, 6, 7, 26>>, 0)

SomeTexts ==
    {AddressText(FALSE, Private, FALSE, <<>>, FALSE),
     AddressText(FALSE, Private, TRUE, <<5, 3>>, FALSE),
     AddressText(FALSE, Private, TRUE, <<0, 0, 0, 5, 3>>, TRUE),
     AddressText(FALSE, Private, TRUE, <<6, 5, 5, 3, 5>>, FALSE),
     AddressText(FALSE, Private, TRUE, <<6, 5, 5, 3, 6>>, FALSE),
     AddressText(FALSE, Private, TRUE, <<1, 0, 0, 0, 5, 3>>, FALSE),
     AddressText(FALSE, Private, TRUE, <<>>, FALSE),
     AddressText(FALSE, Private, FALSE, <<>>, TRUE),
     AddressText(FALSE, TooBig, TRUE, <<5, 3>>, FALSE),
     AddressText(FALSE, Unset, TRUE, <<5, 3>>, FALSE),
     AddressText(FALSE, Six, FALSE, <<>>, FALSE),
     AddressText(TRUE, Six, TRUE, <<5, 3>>, FALSE),
     AddressText(TRUE, SixNet, TRUE, <<5, 3>>, FALSE),
     AddressText(TRUE, Private, TRUE, <<5, 3>>, FALSE)}

Line(text) == [keyword |-> TRUE, text |-> text]
Other == [keyword |-> FALSE, text |-> Private]

SomeFiles ==
    {<<Other>>, <<Line(BadText)>>, <<Other, Line(Public)>>, <<Line(TooBig), Line(Public)>>,
     <<Line(Unset), Line(Public)>>, <<Line(Six)>>, <<Line(SixHex)>>, <<Line(SixFull)>>,
     <<Line(SixLocal), Line(Six), Line(Public)>>, <<Line(SixNet)>>}

Lookup(h, t, f) == [host |-> h, named |-> t, file |-> f]

\* Every text and every file with the short name, and the other names.
SomeLookups ==
    {Lookup(Short, t, <<Line(Public)>>) : t \in SomeTexts}
        \cup {Lookup(Short, t, f) : f \in SomeFiles,
                  t \in {Null, AddressText(TRUE, SixNet, TRUE, <<5, 3>>, FALSE)}}
        \cup {Lookup(h, Null, <<Line(Public)>>) : h \in SomeHosts}

Pointer == [kind |-> "pointer", octets |-> 2]
Spelled == [kind |-> "spelled", octets |-> 6]
Mixed == [kind |-> "mixed", octets |-> 4]

Record(owner, type, len, ip) == [owner |-> owner, type |-> type, len |-> len, ip |-> ip]
Address4 == V4(<<2561, 515>>)
Address6 == Ip(<<8193, 3512>>, Zero, Zero, <<0, 1>>)
Mapped6 == V4(<<1, 1>>)

Alias == Record(Pointer, "CNAME", 10, Null)
Good4 == Record(Pointer, "A", 4, Address4)
Good6 == Record(Spelled, "AAAA", 16, Address6)
SomeAnswers ==
    {Alias, Good4, Good6, Record(Pointer, "AAAA", 16, Mapped6), Record(Pointer, "A", 3, Address4),
     Record(Spelled, "AAAA", 4, Address4), Record(Mixed, "A", 4, Address4)}

AnswerLists == {<<>>} \cup {<<a>> : a \in SomeAnswers} \cup {<<a, b>> : a \in SomeAnswers, b \in SomeAnswers}

Least(a, b) == IF a < b THEN a ELSE b

\* A reply of which cut bytes at its end are missing.
Reply(labels, type, answers, cut) ==
    LET full == [response |-> TRUE, rcode |-> 0, questions |-> 1, count |-> Len(answers),
                 labels |-> labels, type |-> type, class |-> 1, answers |-> answers, octets |-> 0]
    IN  [full EXCEPT !.octets = Least(FullSize(full), ReceiveBuffer) - cut]

Labels == {WriteName(h) : h \in SomeHosts}

\* Header fields that are wrong, one at a time, and one count too many or too few.
Flawed(r) ==
    {[r EXCEPT !.response = FALSE], [r EXCEPT !.rcode = 2], [r EXCEPT !.rcode = 3],
     [r EXCEPT !.questions = 2], [r EXCEPT !.class = 3], [r EXCEPT !.count = @ + 1],
     [r EXCEPT !.count = 0], [r EXCEPT !.octets = HeaderSize + 1], [r EXCEPT !.octets = HeaderSize]}

SomeReplies ==
    LET plain == {Reply(l, t, as, 0) : l \in Labels, t \in RecordTypes, as \in AnswerLists}
        cut == {Reply(l, t, as, c) : l \in Labels, t \in RecordTypes,
                                     as \in {<<Good4>>, <<Good6>>, <<Alias, Good4>>}, c \in {1, 4, 16, 20}}
        short == {Reply(l, t, as, 0) : l \in Labels, t \in RecordTypes, as \in {<<>>, <<Good4>>, <<Good6>>}}
    IN  plain \cup cut \cup UNION {Flawed(r) : r \in short}
=============================================================================
