---------------------------- MODULE MCDnsEngine ----------------------------
(* Two hosted zones, ex.com and o.net, a delegation sub.ex.com with       *)
(* optional glue and DS, same-zone and cross-zone CNAMEs, a two-link      *)
(* chain d.ex.com -> y.o.net -> www.ex.com that goes back to ex.com, and  *)
(* a CNAME loop.                                                          *)
EXTENDS DnsEngine

EX == <<"ex", "com">>
ON == <<"o", "net">>
Rec(z, n, t, d) == [zone |-> z, name |-> n, type |-> t, data |-> d]

MCZones == {EX, ON}
MCZskZones == {EX}
MCBase ==
    { Rec(EX, <<"www">>, "ADDR", <<"v4", "1">>),
      Rec(EX, <<"a">>, "CNAME", <<"www">> \o EX),
      Rec(EX, <<"b">>, "CNAME", <<"x">> \o ON),
      Rec(EX, <<"d">>, "CNAME", <<"y">> \o ON),
      Rec(ON, <<"x">>, "ADDR", <<"v4", "2">>),
      Rec(EX, <<"sub">>, "NS", <<"ns", "sub">> \o EX) }
MCOptional ==
    { Rec(EX, <<"www">>, "ADDR", <<"v6", "1">>),
      Rec(EX, <<"www">>, "TXT", <<"t">>),
      Rec(EX, <<"@">>, "MX", <<"mx">> \o EX),
      Rec(EX, <<"ns", "sub">>, "ADDR", <<"v4", "3">>),
      Rec(EX, <<"sub">>, "DS", <<"d1">>),
      Rec(EX, <<"c">>, "CNAME", <<"c">> \o EX),
      Rec(ON, <<"y">>, "CNAME", <<"www">> \o EX),
      Rec(EX, <<"sub">>, "DS", <<>>),
      Rec(EX, <<"sub">>, "NS", <<"ns2", "sub">> \o EX) }
MCRecords == MCBase \cup MCOptional

MCQNames == { EX, <<"www">> \o EX, <<"a">> \o EX, <<"b">> \o EX, <<"c">> \o EX, <<"d">> \o EX,
              <<"h", "sub">> \o EX, <<"sub">> \o EX, <<"nope">> \o EX, <<"y">> \o ON,
              <<"foo", "org">> }
MCAutoNS == << <<"ns1", "as207960", "net">>, <<"ns2", "as207960", "net">> >>
=============================================================================
