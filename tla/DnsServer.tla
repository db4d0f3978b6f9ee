------------------------------ MODULE DnsServer ------------------------------
(***************************************************************************)
(* Where dns_resolver.cpp sends its questions: LookupThread::InitDNS() on  *)
(* /etc/resolv.conf, and the choice between its result and the server the  *)
(* application named.                                                      *)
(*                                                                         *)
(* A line of the file is [keyword, text]: does it begin with "nameserver " *)
(* and what address text follows.  Hexadecimal digits are those of the     *)
(* numbers in a text, written without leading zeros.                       *)
(***************************************************************************)
EXTENDS Addresses, SequencesExt, FiniteSetsExt

DnsPort == 53
NoServer == [host |-> V4(Zero), port |-> 0]

\* Is every digit of group v one of 0..9?
IsDecimal(v) == {v \div 4096, (v \div 256) % 16, (v \div 16) % 16, v % 16} \subseteq 0 .. 9

\* What the first digits of group v spell, none of them first.
Heads(v) == {0, v \div 4096, v \div 256, v \div 16, v}

\* The decimal digits at the beginning of group v; 0 if it begins with a letter.
DecimalPart(v) == Max({p \in Heads(v) : IsDecimal(p)})

\* line.find_first_not_of(":.0123456789"): the text ends at the first letter.  What is
\* left is well-formed if "::" or the last of eight groups was reached.
Cut(t) ==
    LET k == IF t.form = "v6" THEN SelectInSeq(t.groups, LAMBDA v : ~IsDecimal(v)) ELSE 0
        before == SubSeq(t.groups, 1, k - 1)
        part == DecimalPart(t.groups[k])
        gapped == Len(t.groups) < 8
    IN  IF k = 0 THEN t
        ELSE IF part = 0 /\ gapped /\ t.gap = k - 1 THEN V6Text(before, t.gap)
        ELSE IF part # 0 /\ ((gapped /\ t.gap < k) \/ k = 8) THEN V6Text(Append(before, part), t.gap)
        ELSE BadText

\* Mutant of Usable: the keyword is not looked for.
UsableAnyLine(line) == Parse(Cut(line.text)) # {}

Usable(line) == line.keyword /\ Parse(Cut(line.text)) # {}

\* The first line with an address that can be parsed.
InitDNS(file) ==
    LET i == SelectInSeq(file, Usable)
    IN  IF i = 0 THEN NoServer
        ELSE [host |-> CHOOSE h \in Parse(Cut(file[i].text)) : TRUE, port |-> DnsPort]

\* run() replaces the server asked for if its last quad is zero.
Chosen(asked, dns) == IF GetV4(asked.host) = Zero THEN dns ELSE asked
=============================================================================
