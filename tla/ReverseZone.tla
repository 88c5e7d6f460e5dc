----------------------------- MODULE ReverseZone -----------------------------
(***************************************************************************)
(* The reverse-DNS path of DnsServiceServicer (grpc.py): find_rzone turns *)
(* an in-addr.arpa / ip6.arpa name into an address and picks the reverse  *)
(* zone with the longest prefix that contains it; network_to_apra gives a *)
(* zone's apex name; handle_query's reverse branch answers SOA, PTR       *)
(* (lookup_ptr with the auto-reverse fallback), DNSKEY, CDS, CDNSKEY and  *)
(* apex NS.  Requests here carry DO = 0, so sign_rrset adds nothing; the  *)
(* signer is modelled in DnsEngine.                                        *)
(*                                                                         *)
(* An address is a sequence of parts, most significant first: 4 octets    *)
(* (v4) or 32 nibbles (v6).  A reverse name is its family plus its labels *)
(* before the arpa suffix, most specific first, each label the number it  *)
(* spells or Bad when it does not parse as one part.                      *)
(***************************************************************************)
EXTENDS Naturals, Sequences, SequencesExt

CONSTANTS
    RZones,      \* reverse zones that may exist: [fam, addr, prefix]
    PtrRecords,  \* PTR records that may exist: [zone, addr, target]
    AddrRecords, \* A/AAAA records that may exist: [zone, name, addr, auto]
    QNames,      \* reverse query names: [fam, labels]
    QTypes,
    AutoNS,      \* NAMESERVERS, as label sequences
    Bad          \* a label that is not one address part

VARIABLES
    zones, ptrs, addrs,   \* the store
    req,                  \* the question being answered
    res,                  \* the reply: [rcode, an, zone]
    pc                    \* "idle" | "done"

vars == <<zones, ptrs, addrs, req, res, pc>>

Fam == [v4 |-> [parts |-> 4, bits |-> 8], v6 |-> [parts |-> 32, bits |-> 4]]
NoZone == [fam |-> "none", addr |-> <<>>, prefix |-> 0]

\* The first p bits of address a, the rest set to zero.
Mask(a, p, b) ==
    [k \in DOMAIN a |->
        LET keep == IF p >= k * b THEN b ELSE IF p <= (k - 1) * b THEN 0 ELSE p - (k - 1) * b
        IN (a[k] \div 2 ^ (b - keep)) * 2 ^ (b - keep)]

\* ipaddress.ip_network((address, prefix)) succeeds: no host bits set.
ValidNetwork(z) ==
    LET f == Fam[z.fam] IN z.prefix <= f.parts * f.bits /\ Mask(z.addr, z.prefix, f.bits) = z.addr

\* addr in zone_network
InNetwork(a, fam, z) == z.fam = fam /\ Mask(a, z.prefix, Fam[fam].bits) = z.addr

\* network_to_apra: the first ceil(prefix / bits) parts, reversed.
NetworkToApra(z) ==
    LET b == Fam[z.fam].bits
    IN [fam |-> z.fam, labels |-> Reverse(SubSeq(z.addr, 1, (z.prefix + b - 1) \div b))]

\* find_rzone, first half: reverse the labels, pad with "0" parts, parse.
Parses(q) ==
    LET f == Fam[q.fam]
    IN Len(q.labels) <= f.parts /\ \A k \in DOMAIN q.labels : q.labels[k] < 2 ^ f.bits
ParseAddress(q) ==
    LET parts == Reverse(q.labels)
    IN parts \o [k \in 1..(Fam[q.fam].parts - Len(parts)) |-> 0]

\* find_rzone, second half: zones by descending prefix, the first valid one
\* containing the address.  Rows with equal prefixes come in no set order.
ContainingZonesAllRows(a, fam) == {z \in RZones : ValidNetwork(z) /\ InNetwork(a, fam, z)}
ContainingZones(a, fam) == {z \in zones : ValidNetwork(z) /\ InNetwork(a, fam, z)}
FindRzonesAny(a, fam) == ContainingZones(a, fam)
FindRzones(a, fam) ==
    {z \in ContainingZones(a, fam) :
        \A y \in ContainingZones(a, fam) : y.prefix <= z.prefix}

\* f"{record.record_name}.{record.zone.zone_root}"
AutoTarget(r) == <<r.name>> \o r.zone

RR(o, t, d) == [owner |-> o, type |-> t, data |-> d]

\* lookup_ptr: the zone's PTR records for the address, else every
\* auto-reverse address record of that address in any zone, else NXDOMAIN.
LookupPtr(q, a, z) ==
    LET explicit == {p \in ptrs : p.zone = z /\ p.addr = a}
        auto == {r \in addrs : r.addr = a /\ r.auto}
    IN IF explicit # {} THEN [rcode |-> "NOERROR", an |-> {RR(q, "PTR", p.target) : p \in explicit}]
       ELSE IF auto # {} THEN [rcode |-> "NOERROR", an |-> {RR(q, "PTR", AutoTarget(r)) : r \in auto}]
       ELSE [rcode |-> "NXDOMAIN", an |-> {}]

\* handle_query, reverse branch, once the zone is found.
ReverseAnswer(q, t, a, z) ==
    LET network == NetworkToApra(z)
        apex == q = network
        keys == [DNSKEY |-> {<<"KSK">>, <<"ZSK">>}, CDS |-> {<<"KSK">>}, CDNSKEY |-> {<<"KSK">>}]
    IN CASE t = "SOA" -> [rcode |-> "NOERROR", an |-> {RR(network, "SOA", <<>>)}]
         [] t = "PTR" -> LookupPtr(q, a, z)
         [] t \in DOMAIN keys /\ apex -> [rcode |-> "NOERROR", an |-> {RR(q, t, k) : k \in keys[t]}]
         [] t = "NS" /\ apex -> [rcode |-> "NOERROR", an |-> {RR(q, "NS", ns) : ns \in AutoNS}]
         [] OTHER -> [rcode |-> "NOERROR", an |-> {}]

NoReq == [qname |-> [fam |-> "none", labels |-> <<>>], qtype |-> "none"]
NoRes == [rcode |-> "NOERROR", an |-> {}, zone |-> NoZone]

Init ==
    /\ zones \in SUBSET RZones
    /\ ptrs \in SUBSET {p \in PtrRecords : p.zone \in zones}
    /\ addrs \in SUBSET AddrRecords
    /\ req = NoReq
    /\ res = NoRes
    /\ pc = "idle"

\* handle_query for a reverse name: find_rzone, NXDOMAIN when it finds no
\* zone, otherwise the reverse branch.
Receive(q, t) ==
    /\ pc = "idle"
    /\ req' = [qname |-> q, qtype |-> t]
    /\ pc' = "done"
    /\ \/ /\ ~Parses(q)
          /\ res' = [rcode |-> "NXDOMAIN", an |-> {}, zone |-> NoZone]
       \/ /\ Parses(q)
          /\ FindRzones(ParseAddress(q), q.fam) = {}
          /\ res' = [rcode |-> "NXDOMAIN", an |-> {}, zone |-> NoZone]
       \/ /\ Parses(q)
          /\ \E z \in FindRzones(ParseAddress(q), q.fam) :
                LET r == ReverseAnswer(q, t, ParseAddress(q), z)
                IN res' = [rcode |-> r.rcode, an |-> r.an, zone |-> z]
    /\ UNCHANGED <<zones, ptrs, addrs>>

\* The servicer is stateless between requests.
Reset ==
    /\ pc = "done"
    /\ pc' = "idle"
    /\ req' = NoReq
    /\ res' = NoRes
    /\ UNCHANGED <<zones, ptrs, addrs>>

Next == (\E q \in QNames, t \in QTypes : Receive(q, t)) \/ Reset

Spec == Init /\ [][Next]_vars

-----------------------------------------------------------------------------
(* Properties *)

Names == [fam : {"v4", "v6"}, labels : Seq(Nat)]

TypeOK ==
    /\ zones \subseteq RZones /\ ptrs \subseteq PtrRecords /\ addrs \subseteq AddrRecords
    /\ \A p \in ptrs : p.zone \in zones
    /\ req \in [qname : QNames, qtype : QTypes] \cup {NoReq}
    /\ res.rcode \in {"NOERROR", "NXDOMAIN"}
    /\ res.zone \in zones \cup {NoZone}
    /\ \A rr \in res.an : rr.owner \in Names /\ rr.data \in Seq(STRING)
    /\ pc \in {"idle", "done"}

\* An independent reading of "the network contains the address": compare
\* the first prefix bits of the two bit strings.
BitsOf(v, b) == [j \in 1..b |-> (v \div 2 ^ (b - j)) % 2]
AddrBits(a, b) == FlattenSeq([k \in DOMAIN a |-> BitsOf(a[k], b)])
Owns(z, a, fam) ==
    LET b == Fam[fam].bits
        zb == AddrBits(z.addr, b)
    IN /\ z.fam = fam
       /\ z.prefix <= Len(zb)
       /\ \A j \in (z.prefix + 1)..Len(zb) : zb[j] = 0
       /\ SubSeq(AddrBits(a, b), 1, z.prefix) = SubSeq(zb, 1, z.prefix)
LongestOwners(a, fam) ==
    LET own == {z \in zones : Owns(z, a, fam)}
    IN {z \in own : \A y \in own : y.prefix <= z.prefix}

\* A reverse reply comes from the stored zone with the longest prefix that
\* contains the queried address (NXDOMAIN when none does), and a PTR reply
\* holds that zone's PTR records for the address, or failing those the
\* auto-reverse address records of every zone, NXDOMAIN when neither exists.
PtrAnswersFromOwnerZone ==
    (pc = "done" /\ Parses(req.qname)) =>
        LET a == ParseAddress(req.qname)
            explicit == {p.target : p \in {p \in ptrs : p.zone = res.zone /\ p.addr = a}}
            auto == {AutoTarget(r) : r \in {r \in addrs : r.auto /\ r.addr = a}}
            expect == IF explicit # {} THEN explicit ELSE auto
        IN /\ IF LongestOwners(a, req.qname.fam) = {} THEN res.zone = NoZone
              ELSE res.zone \in LongestOwners(a, req.qname.fam)
           /\ (req.qtype = "PTR" /\ res.zone # NoZone) =>
                 /\ {rr.data : rr \in res.an} = expect
                 /\ res.rcode = "NXDOMAIN" <=> expect = {}

=============================================================================
