------------------------------- MODULE DnsWire --------------------------------
(***************************************************************************)
(* The DNS message helpers of fake_dns.rs, on sequences of bytes.  Strings  *)
(* are byte sequences; the names considered are ASCII, and a byte above 127 *)
(* stands for text that is not UTF-8.                                       *)
(***************************************************************************)
EXTENDS Naturals, Sequences, SequencesExt

CONSTANT MaxName    \* the longest domain accepted (253)

NoQuery == [id |-> 0, domain |-> <<>>, qtype |-> 0, ok |-> FALSE]

U16(data, i) == 256 * data[i] + data[i + 1]
Be16(n)      == <<n \div 256, n % 256>>
utf8(text)   == \A i \in DOMAIN text : text[i] < 128

Dot == 46
Join(labels) == FlattenSeq([i \in DOMAIN labels |-> IF i = 1 THEN labels[i] ELSE <<Dot>> \o labels[i]])

Bug_LastByte(data) ==
    LET from[pos \in Nat] ==
            IF pos > Len(data) THEN [end |-> 0, labels |-> <<>>]
            ELSE IF data[pos] = 0 THEN [end |-> pos + 1, labels |-> <<>>]
            ELSE LET end  == pos + 1 + data[pos]
                     rest == from[end]
                 IN  IF data[pos] >= 64 \/ end > Len(data) + 1 \/ rest.end = 0
                     THEN [end |-> 0, labels |-> <<>>]
                     ELSE [rest EXCEPT !.labels = <<SubSeq(data, pos + 1, end - 2)>> \o @]
    IN  from[13]

(***************************************************************************)
(* parse_query's label loop: the labels from the end of the header on and   *)
(* the position after them, or end 0 where the loop returns None.           *)
(***************************************************************************)
QName(data) ==
    LET from[pos \in Nat] ==
            IF pos > Len(data) THEN [end |-> 0, labels |-> <<>>]
            ELSE IF data[pos] = 0 THEN [end |-> pos + 1, labels |-> <<>>]
            ELSE LET end   == pos + 1 + data[pos]
                     label == SubSeq(data, pos + 1, end - 1)
                     rest  == from[end]
                 IN  IF data[pos] >= 64 \/ end > Len(data) + 1 \/ ~utf8(label) \/ rest.end = 0
                     THEN [end |-> 0, labels |-> <<>>]
                     ELSE [rest EXCEPT !.labels = <<label>> \o @]
    IN  from[13]

parse_query(data) ==
    IF Len(data) < 12 \/ data[3] >= 128 \/ U16(data, 5) = 0 THEN NoQuery
    ELSE LET name   == QName(data)
             domain == Join(name.labels)
         IN  IF name.end = 0 \/ name.end + 3 > Len(data) \/ Len(domain) > MaxName THEN NoQuery
             ELSE [id |-> U16(data, 1), domain |-> domain,
                   qtype |-> U16(data, name.end), ok |-> TRUE]

(***************************************************************************)
(* encode_name: split('.') yields n + 1 labels for n dots, empty ones too.  *)
(***************************************************************************)
encode_name(domain) ==
    LET cuts     == SetToSortSeq({0, Len(domain) + 1} \cup {i \in DOMAIN domain : domain[i] = Dot}, <)
        label(k) == SubSeq(domain, cuts[k] + 1, cuts[k + 1] - 1)
    IN  (IF domain = <<>> THEN <<>>
         ELSE FlattenSeq([k \in 1..(Len(cuts) - 1) |-> <<Len(label(k))>> \o label(k)])) \o <<0>>

build_empty_response(id, domain, qtype) ==
    Be16(id) \o <<129, 128, 0, 1, 0, 0, 0, 0, 0, 0>> \o encode_name(domain) \o Be16(qtype) \o Be16(1)

build_a_response(id, domain, ip) ==
    [build_empty_response(id, domain, 1) EXCEPT ![7] = 0, ![8] = 1]
        \o <<192, 12, 0, 1, 0, 1, 0, 0, 1, 44, 0, 4>> \o ip
===============================================================================
