---------------------------- MODULE MCReverseZone ----------------------------
(* Reverse zones of one v4 /24 with a /25 and a /32 inside it, a row whose *)
(* address has host bits set, and a v6 /32; PTR and auto-reverse records  *)
(* at addresses of several of them.                                        *)
EXTENDS ReverseZone

MCBad == 999
Pad6(s) == s \o [k \in 1..(32 - Len(s)) |-> 0]
V4(a, p) == [fam |-> "v4", addr |-> a, prefix |-> p]

Z24 == V4(<<203, 0, 113, 0>>, 24)
Z25 == V4(<<203, 0, 113, 128>>, 25)
Z32 == V4(<<203, 0, 113, 0>>, 32)
ZHost == V4(<<203, 0, 113, 5>>, 24)
Z6 == [fam |-> "v6", addr |-> Pad6(<<2, 0, 0, 1, 0, 13, 11, 8>>), prefix |-> 32]
H6 == [Pad6(<<2, 0, 0, 1, 0, 13, 11, 8>>) EXCEPT ![32] = 1]

EX == <<"ex", "com">>
MCRZones == {Z24, Z25, Z32, ZHost, Z6}
MCPtrRecords ==
    { [zone |-> Z24, addr |-> <<203, 0, 113, 130>>, target |-> <<"old">> \o EX],
      [zone |-> Z25, addr |-> <<203, 0, 113, 130>>, target |-> <<"new">> \o EX],
      [zone |-> Z24, addr |-> <<203, 0, 113, 5>>, target |-> <<"h5">> \o EX],
      [zone |-> Z6, addr |-> H6, target |-> <<"h6">> \o EX] }
MCAddrRecords ==
    { [zone |-> EX, name |-> "www", addr |-> <<203, 0, 113, 5>>, auto |-> TRUE],
      [zone |-> EX, name |-> "@", addr |-> <<203, 0, 113, 130>>, auto |-> TRUE],
      [zone |-> <<"o", "net">>, name |-> "x", addr |-> <<203, 0, 113, 5>>, auto |-> FALSE] }
MCQNames ==
    { [fam |-> "v4", labels |-> l] :
        l \in { <<5, 113, 0, 203>>, <<130, 113, 0, 203>>, <<113, 0, 203>>,
                <<128, 113, 0, 203>>, <<0, 113, 0, 203>>, <<0, 203>>,
                <<MCBad, 113, 0, 203>>, <<1, 5, 113, 0, 203>> } }
    \cup { [fam |-> "v6", labels |-> Reverse(H6)],
           [fam |-> "v6", labels |-> Reverse(SubSeq(Z6.addr, 1, 8))] }
MCAutoNS == {<<"ns1", "as207960", "net">>, <<"ns2", "as207960", "net">>}
=============================================================================
