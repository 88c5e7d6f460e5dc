------------------------------ MODULE DnsEngine ------------------------------
(***************************************************************************)
(* The query/answer engine of DnsServiceServicer (dns_grpc/grpc.py): one  *)
(* forward query at a time is dispatched by handle_query, answered by the *)
(* per-qtype lookup_* handlers, which chase CNAMEs by calling themselves  *)
(* recursively, and every handler invocation ends with sign_rrset, which  *)
(* adds the NSEC/SOA denial and an RRSIG per RRset of every section.      *)
(*                                                                         *)
(* The Python call stack of the CNAME chase is the variable `stack`: a    *)
(* frame is a handler invocation that has called its successor and still *)
(* owes its trailing sign_rrset.  The record store is `db`, a set of      *)
(* records read (never written) by the engine.                            *)
(*                                                                         *)
(* Names are sequences of labels, most specific label first, so that a    *)
(* zone root is a suffix of the names it owns.  Record names are relative *)
(* to their zone, the apex being the one-label name <<"@">> exactly as    *)
(* DNSLabel("@") is in the code.                                           *)
(***************************************************************************)
EXTENDS Naturals, Sequences, SequencesExt, FiniteSets

CONSTANTS
    Zones,      \* zone roots of the forward zones (DNSZone.zone_root)
    ZskZones,   \* the zones with a zsk_private key
    Records,    \* candidate records: [zone, name, type, data]
    BaseRecords,\* records present in every store the model starts from
    QNames,     \* query names a client may send
    QTypes,     \* query types a client may send
    Opcodes,    \* header opcodes a client may send, "QUERY" among them
    AutoNS,     \* NAMESERVERS, the sequence of built-in apex nameservers
    MaxDepth,   \* CNAME levels before the interpreter's recursion limit
    ArpaOnServicer \* whether self.IP4_APRA / self.IP6_APRA resolve (is_rdns)

ASSUME ZskZones \subseteq Zones /\ BaseRecords \subseteq Records
ASSUME MaxDepth \in Nat \ {0} /\ "QUERY" \in Opcodes /\ ArpaOnServicer \in BOOLEAN

VARIABLES
    db,     \* the records of all zones
    pc,     \* "idle" | "lookup" | "return" | "done"
    req,    \* the request: [qname, qtype, do, op]
    call,   \* the handler invocation to run: [rname, zone, qname]
    stack,  \* frames [zone, qname] still owing their sign_rrset
    res     \* the reply under construction: [rcode, an, ns, ar]

vars == <<db, pc, req, call, stack, res>>

Apex == <<"@">>
NoZone == <<>>
KSK == <<"KSK">>                     \* self.priv_key, the engine-wide key
ZSKOf(z) == <<"ZSK">> \o z           \* the key in zone.zsk_private
NoKey == <<>>
ChaseTypes == {"A", "AAAA", "MX", "NS", "TXT", "SRV", "CAA", "NAPTR",
               "SSHFP", "DS"}
\* The record tables any_records consults.
AnyTables == {"ADDR", "CNAME", "MX", "NS", "TXT", "SRV"}
\* The type bitmap sign_rrset puts in a NODATA NSEC.
NodataBitmap == {"A", "NS", "SOA", "MX", "TXT", "AAAA", "SRV", "SSHFP",
                 "RRSIG", "NSEC", "DNSKEY", "HIP", "CDS", "CDNSKEY"}

-----------------------------------------------------------------------------
(* Resource records of the reply; one shape for all types.                *)

RR(o, t, d) == [owner |-> o, type |-> t, data |-> d, types |-> {},
                covered |-> "", signer |-> NoZone, key |-> NoKey]
NSEC(o, next, bits) == [RR(o, "NSEC", next) EXCEPT !.types = bits]
RRSIG(o, t, z, k) == [RR(o, "RRSIG", <<>>) EXCEPT !.covered = t,
                                               !.signer = z, !.key = k]
SOA(z) == RR(z, "SOA", <<>>)

\* An address record's data is <<family, value>>; its RR type by family.
Family(d) == IF d[1] = "v4" THEN "A" ELSE "AAAA"

EmptyReply == [rcode |-> "NOERROR", an |-> <<>>, ns |-> <<>>, ar |-> <<>>]

-----------------------------------------------------------------------------
(* Zone location and the record-store façade.                             *)

\* find_zone: zones by descending root length, the first that is a suffix
\* of the name.  Roots that are suffixes of one name are nested, so the
\* longest string is the one with most labels.
FindZone(q) ==
    LET owning == {z \in Zones : IsSuffix(z, q)}
    IN IF owning = {} THEN NoZone
       ELSE CHOOSE z \in owning : \A y \in owning : Len(y) <= Len(z)

\* is_rdns: the name lies under in-addr.arpa or ip6.arpa.  Such names take
\* find_rzone and the reverse branch, modelled in ReverseZone, so the query
\* names here are forward names.
ArpaSuffixes == {<<"in-addr", "arpa">>, <<"ip6", "arpa">>}
IsRdns(q) == \E a \in ArpaSuffixes : IsSuffix(a, q)
ASSUME \A q \in QNames : ~IsRdns(q)

\* stripSuffix, and "@" when nothing is left.
RecordName(q, z) == IF Len(q) = Len(z) THEN Apex ELSE SubSeq(q, 1, Len(q) - Len(z))

FindRecords(t, rn, z) == {r \in db : r.type = t /\ r.name = rn /\ r.zone = z}

AnyRecords(rn, z) == \E t \in AnyTables : FindRecords(t, rn, z) # {}

-----------------------------------------------------------------------------
(* sign_rrset(zone, query_name, is_dnssec, priv_key): the denial of an    *)
(* empty reply, then one RRSIG per (type, owner) of every section.        *)

Dedup(s) == FoldLeft(LAMBDA acc, x : IF Contains(acc, x) THEN acc ELSE Append(acc, x),
                     <<>>, s)

\* sign_section: RRsets grouped by type in order of first appearance, then
\* by owner; NS skipped unless sign_ns.  RRSIGs already in the section are
\* an RRset like any other.
SectionSigs(sec, z, k, signNS) ==
    LET types  == SelectSeq(Dedup([i \in 1..Len(sec) |-> sec[i].type]),
                            LAMBDA t : t # "NS" \/ signNS)
        Owners(t) == LET of == SelectSeq(sec, LAMBDA r : r.type = t)
                     IN Dedup([i \in 1..Len(of) |-> of[i].owner])
    IN FlattenSeq([i \in 1..Len(types) |->
                    LET os == Owners(types[i])
                    IN [j \in 1..Len(os) |-> RRSIG(os[j], types[i], z, k)]])

\* The NSEC next name: a \x00 label before the query name.
NsecNext(q) == <<"\\000">> \o q

\* Fault variant of Denial: the NODATA NSEC branch forgotten.
DenialNxOnly(r, z, q, do) ==
    IF r.an = <<>> /\ r.ns = <<>>
    THEN LET nx == r.rcode = "NXDOMAIN"
         IN [r EXCEPT !.rcode = IF do /\ nx THEN "NOERROR" ELSE @,
                      !.ns = (IF do /\ nx THEN <<NSEC(q, NsecNext(q), {"RRSIG", "NSEC"})>>
                              ELSE <<>>) \o <<SOA(z)>>]
    ELSE r

Denial(r, z, q, do) ==
    IF r.an = <<>> /\ r.ns = <<>>
    THEN LET nx   == r.rcode = "NXDOMAIN"
             nsec == NSEC(q, NsecNext(q),
                          IF nx THEN {"RRSIG", "NSEC"} ELSE NodataBitmap)
         IN [r EXCEPT !.rcode = IF do /\ nx THEN "NOERROR" ELSE @,
                      !.ns    = (IF do THEN <<nsec>> ELSE <<>>) \o <<SOA(z)>>]
    ELSE r

SigningKey(z, override) ==
    IF override THEN KSK ELSE IF z \in ZskZones THEN ZSKOf(z) ELSE NoKey

SignRRset(r, z, q, do, override) ==
    LET d == Denial(r, z, q, do)
        k == SigningKey(z, override)
    IN IF do /\ k # NoKey
       THEN [d EXCEPT !.an = @ \o SectionSigs(@, z, k, TRUE),
                      !.ns = @ \o SectionSigs(@, z, k, FALSE),
                      !.ar = @ \o SectionSigs(@, z, k, FALSE)]
       ELSE d

-----------------------------------------------------------------------------
(* lookup_referral and lookup_additional_addr.                            *)

\* lookup_additional_addr: every address record of the nameserver's name.
Glue(r, ns) ==
    LET z == FindZone(ns)
    IN IF z = NoZone THEN r
       ELSE [r EXCEPT !.ar = @ \o SetToSeq({RR(ns, Family(a.data), a.data) :
                                   a \in FindRecords("ADDR", RecordName(ns, z), z)})]

\* f"{record_name}\x00.{zone_root}", the next name of a referral's NSEC.
ReferralNext(n, z) == [n EXCEPT ![Len(n)] = @ \o "\\000"] \o z

\* One iteration of the loop over the matching NS records, in order; an
\* empty DS digest sets SERVFAIL and returns from lookup_referral.
\* Fault variant of ReferralLoop: no NSEC for a delegation without DS.
RECURSIVE ReferralLoopNoNsec(_, _, _, _)
ReferralLoopNoNsec(r, nss, z, do) ==
    IF nss = <<>> THEN r
    ELSE LET ns    == Head(nss)
             owner == ns.name \o z
             r1    == [r EXCEPT !.ns = Append(@, RR(owner, "NS", ns.data))]
             dss   == SetToSeq(FindRecords("DS", ns.name, z))
             bad   == {i \in 1..Len(dss) : dss[i].data = <<>>}
             DSes(n) == [i \in 1..n |-> RR(owner, "DS", dss[i].data)]
         IN IF do /\ bad # {}
            THEN [r1 EXCEPT !.rcode = "SERVFAIL", !.ns = @ \o DSes(Min(bad) - 1)]
            ELSE LET r2 == IF ~do THEN r1 ELSE [r1 EXCEPT !.ns = @ \o DSes(Len(dss))]
                 IN ReferralLoopNoNsec(Glue(r2, ns.data), Tail(nss), z, do)

RECURSIVE ReferralLoop(_, _, _, _)
ReferralLoop(r, nss, z, do) ==
    IF nss = <<>> THEN r
    ELSE LET ns    == Head(nss)
             owner == ns.name \o z
             r1    == [r EXCEPT !.ns = Append(@, RR(owner, "NS", ns.data))]
             dss   == SetToSeq(FindRecords("DS", ns.name, z))
             bad   == {i \in 1..Len(dss) : dss[i].data = <<>>}
             DSes(n) == [i \in 1..n |-> RR(owner, "DS", dss[i].data)]
         IN IF do /\ bad # {}
            THEN [r1 EXCEPT !.rcode = "SERVFAIL", !.ns = @ \o DSes(Min(bad) - 1)]
            ELSE LET r2 == IF ~do THEN r1
                           ELSE IF dss = <<>>
                           THEN [r1 EXCEPT !.ns = Append(@, NSEC(owner,
                                     ReferralNext(ns.name, z), {"NS", "RRSIG", "NSEC"}))]
                           ELSE [r1 EXCEPT !.ns = @ \o DSes(Len(dss))]
                 IN ReferralLoop(Glue(r2, ns.data), Tail(nss), z, do)

\* Every NS record of the zone whose name is a suffix of the record name,
\* longest name first; none and no record at the name means NXDOMAIN.
Referral(r, c, do) ==
    LET matching == {n \in db : n.type = "NS" /\ n.zone = c.zone /\ IsSuffix(n.name, c.rname)}
    IN IF matching = {}
       THEN IF AnyRecords(c.rname, c.zone) THEN r ELSE [r EXCEPT !.rcode = "NXDOMAIN"]
       ELSE ReferralLoop(r, SetToSortSeq(matching, LAMBDA a, b : Len(a.name) > Len(b.name)),
                         c.zone, do)

-----------------------------------------------------------------------------
(* What a lookup_* handler finds at its own name.                         *)

SSHFPAlgorithm(kt) ==
    CASE kt = "ssh-rsa" -> "1" [] kt = "ssh-dsa" -> "2" [] kt = "ecdsa-sha2" -> "3"
      [] kt = "ssh-ed25519" -> "4" [] OTHER -> "0"

\* The table a qtype is looked up in.
Table(t) == IF t \in {"A", "AAAA"} THEN "ADDR" ELSE t

\* Fault variant of HandlerAnswers: lookup_addr without its family test.
HandlerAnswersAnyFamily(t, c) ==
    LET recs == FindRecords(Table(t), c.rname, c.zone)
    IN IF t = "SSHFP"
       THEN {RR(c.qname, t, <<SSHFPAlgorithm(r.data[1]), fp>>) :
                r \in {x \in recs : SSHFPAlgorithm(x.data[1]) # "0"}, fp \in {"1", "2"}}
       ELSE {RR(c.qname, t, r.data) : r \in recs}

\* The answers the handler's loop appends (before any CNAME chase).
HandlerAnswers(t, c) ==
    LET recs == FindRecords(Table(t), c.rname, c.zone)
    IN CASE t \in {"A", "AAAA"} ->
              {RR(c.qname, t, r.data) : r \in {x \in recs : Family(x.data) = t}}
         [] t = "SSHFP" ->
              {RR(c.qname, t, <<SSHFPAlgorithm(r.data[1]), fp>>) :
                  r \in {x \in recs : SSHFPAlgorithm(x.data[1]) # "0"}, fp \in {"1", "2"}}
         [] OTHER -> {RR(c.qname, t, r.data) : r \in recs}

\* addr_found for addresses, len(records) for the other tables.
Found(t, c) ==
    IF t \in {"A", "AAAA"} THEN HandlerAnswers(t, c) # {}
    ELSE FindRecords(Table(t), c.rname, c.zone) # {}

\* lookup_ns also lists NAMESERVERS at the apex, found or not.
AutoAnswers(t, c) ==
    IF t = "NS" /\ c.rname = Apex
    THEN [i \in 1..Len(AutoNS) |-> RR(c.qname, "NS", AutoNS[i])] ELSE <<>>

-----------------------------------------------------------------------------
(* Actions.                                                               *)

\* lookup_dnskey: at the apex the KSK (flags 257) and, when the zone has a
\* zsk_private, its ZSK (flags 256), signed with the KSK; below the apex
\* nothing, and no sign_rrset.
LookupDnskey(z, rn, q, do) ==
    IF rn # Apex THEN EmptyReply
    ELSE SignRRset([EmptyReply EXCEPT !.an =
                        <<RR(q, "DNSKEY", KSK)>> \o
                        (IF z \in ZskZones THEN <<RR(q, "DNSKEY", ZSKOf(z))>> ELSE <<>>)],
                   z, q, do, TRUE)

\* lookup_cds at the apex of a forward zone hands DNSLabel((zone.zone_root,))
\* to DNSBuffer.encode_name: a label tuple whose one label is the root as
\* a str.  dnslib joins and packs labels as bytes, so the encoding raises
\* TypeError before the CDS is added, and Query replies SERVFAIL.  Below
\* the apex nothing is added and sign_rrset is not called.
LookupCds(z, rn, q, do) ==
    IF rn # Apex THEN EmptyReply ELSE [EmptyReply EXCEPT !.rcode = "SERVFAIL"]

\* lookup_cdnskey: the KSK at the apex, signed with the zone's key.
LookupCdnskey(z, rn, q, do) ==
    IF rn # Apex THEN EmptyReply
    ELSE SignRRset([EmptyReply EXCEPT !.an = <<RR(q, "CDNSKEY", KSK)>>], z, q, do, FALSE)

Init ==
    /\ db \in {BaseRecords \cup s : s \in SUBSET (Records \ BaseRecords)}
    /\ pc = "idle"
    /\ req = [qname |-> <<>>, qtype |-> "", do |-> FALSE, op |-> "QUERY"]
    /\ call = [rname |-> <<>>, zone |-> NoZone, qname |-> <<>>]
    /\ stack = <<>>
    /\ res = EmptyReply

\* Query and handle_query up to the per-qtype handler: the opcode check,
\* find_zone, and the branches that do not chase CNAMEs.
Receive(q, t, do, op) ==
    /\ pc = "idle"
    /\ req' = [qname |-> q, qtype |-> t, do |-> do, op |-> op]
    /\ LET z  == FindZone(q)
           rn == RecordName(q, z)
           c  == [rname |-> rn, zone |-> z, qname |-> q]
           Sign(r, override) == SignRRset(r, z, q, do, override)
       IN CASE op # "QUERY" ->
                 /\ res' = [EmptyReply EXCEPT !.rcode = "REFUSED"]
                 /\ pc' = "done" /\ call' = call
            [] ~ArpaOnServicer ->
                 \* is_rdns reads IP4_APRA through self: AttributeError,
                 \* caught by Query, which replies SERVFAIL.
                 /\ res' = [EmptyReply EXCEPT !.rcode = "SERVFAIL"]
                 /\ pc' = "done" /\ call' = call
            [] z = NoZone ->
                 /\ res' = [EmptyReply EXCEPT !.rcode = "NXDOMAIN"]
                 /\ pc' = "done" /\ call' = call
            [] t = "SOA" ->
                 /\ res' = Sign([EmptyReply EXCEPT !.an = <<SOA(z)>>], FALSE)
                 /\ pc' = "done" /\ call' = call
            [] t \in ChaseTypes ->
                 /\ res' = EmptyReply
                 /\ pc' = "lookup" /\ call' = c
            [] t = "DNSKEY" ->
                 /\ res' = LookupDnskey(z, rn, q, do)
                 /\ pc' = "done" /\ call' = call
            [] t = "CDS" ->
                 /\ res' = LookupCds(z, rn, q, do)
                 /\ pc' = "done" /\ call' = call
            [] t = "CDNSKEY" ->
                 /\ res' = LookupCdnskey(z, rn, q, do)
                 /\ pc' = "done" /\ call' = call
            [] t = "CNAME" ->
                 /\ \/ /\ FindRecords("CNAME", rn, z) = {}
                       /\ res' = EmptyReply
                    \/ \E r \in FindRecords("CNAME", rn, z) :
                          res' = [EmptyReply EXCEPT !.an = <<RR(q, "CNAME", r.data)>>]
                 /\ pc' = "done" /\ call' = call
            [] OTHER ->
                 /\ res' = Sign(EmptyReply, FALSE)
                 /\ pc' = "done" /\ call' = call
    /\ UNCHANGED <<db, stack>>

\* A lookup_* handler at call = [rname, zone, qname]: the records it finds,
\* and the sign_rrset it ends with.
SignHere(r) == SignRRset(r, call.zone, call.qname, req.do, FALSE)
Answered(r) == [r EXCEPT !.an = @ \o SetToSeq(HandlerAnswers(req.qtype, call))
                                  \o AutoAnswers(req.qtype, call)]
BadDS == LET dss == SetToSeq(FindRecords("DS", call.rname, call.zone))
         IN {i \in 1..Len(dss) : dss[i].data = <<>>}

\* The handler found records of the asked type: append them, sign, return.
LookupFound ==
    /\ pc = "lookup"
    /\ Found(req.qtype, call)
    /\ req.qtype = "DS" => BadDS = {}
    /\ res' = SignHere(Answered(res))
    /\ pc' = "return"
    /\ UNCHANGED <<db, req, call, stack>>

\* lookup_ds meets a record with an empty digest: SERVFAIL and return,
\* keeping the DS records appended before it and skipping sign_rrset.
LookupBadDigest ==
    /\ pc = "lookup"
    /\ req.qtype = "DS"
    /\ BadDS # {}
    /\ LET dss == SetToSeq(FindRecords("DS", call.rname, call.zone))
       IN res' = [res EXCEPT !.rcode = "SERVFAIL",
                    !.an = @ \o [i \in 1..Min(BadDS) - 1 |-> RR(call.qname, "DS", dss[i].data)]]
    /\ pc' = "return"
    /\ UNCHANGED <<db, req, call, stack>>

\* Nothing found and no CNAME: lookup_cname falls back to lookup_referral.
LookupReferral ==
    /\ pc = "lookup"
    /\ ~Found(req.qtype, call)
    /\ FindRecords("CNAME", call.rname, call.zone) = {}
    /\ res' = SignHere(Referral(Answered(res), call, req.do))
    /\ pc' = "return"
    /\ UNCHANGED <<db, req, call, stack>>

\* Fault variant of LookupChase: a chase that is never cut off.
LookupChaseUnbounded ==
    /\ pc = "lookup"
    /\ ~Found(req.qtype, call)
    /\ \E cn \in FindRecords("CNAME", call.rname, call.zone) :
          LET z2 == FindZone(cn.data)
              r1 == [Answered(res) EXCEPT !.an = Append(@, RR(call.qname, "CNAME", cn.data))]
          IN \/ /\ z2 = NoZone
                /\ res' = SignHere(r1)
                /\ pc' = "return"
                /\ UNCHANGED <<call, stack>>
             \/ /\ z2 # NoZone
                /\ res' = r1
                /\ stack' = Append(stack, [zone |-> call.zone, qname |-> call.qname])
                /\ call' = [rname |-> RecordName(cn.data, z2), zone |-> z2, qname |-> cn.data]
                /\ UNCHANGED pc
    /\ UNCHANGED <<db, req>>

\* lookup_cname appends the CNAME (first() of the table, in no order) and,
\* when the alias lies in a zone of ours, calls the same handler on it.
LookupChase ==
    /\ pc = "lookup"
    /\ ~Found(req.qtype, call)
    /\ \E cn \in FindRecords("CNAME", call.rname, call.zone) :
          LET z2 == FindZone(cn.data)
              r1 == [Answered(res) EXCEPT !.an = Append(@, RR(call.qname, "CNAME", cn.data))]
          IN \/ /\ z2 = NoZone
                /\ res' = SignHere(r1)
                /\ pc' = "return"
                /\ UNCHANGED <<call, stack>>
             \/ /\ z2 # NoZone
                /\ Len(stack) < MaxDepth
                /\ res' = r1
                /\ stack' = Append(stack, [zone |-> call.zone, qname |-> call.qname])
                /\ call' = [rname |-> RecordName(cn.data, z2), zone |-> z2, qname |-> cn.data]
                /\ UNCHANGED pc
             \/ /\ z2 # NoZone
                /\ Len(stack) = MaxDepth
                \* RecursionError, caught by Query: a fresh reply with SERVFAIL.
                /\ res' = [EmptyReply EXCEPT !.rcode = "SERVFAIL"]
                /\ pc' = "done"
                /\ UNCHANGED <<call, stack>>
    /\ UNCHANGED <<db, req>>

\* Fault variant of ReturnToCaller: the caller's sign_rrset left out.
ReturnWithoutSign ==
    /\ pc = "return"
    /\ stack # <<>>
    /\ stack' = Front(stack)
    /\ UNCHANGED <<db, pc, req, call, res>>

\* The callee returned: the caller, back from lookup_cname, runs its own
\* sign_rrset with its zone and query name over the whole reply.
ReturnToCaller ==
    /\ pc = "return"
    /\ stack # <<>>
    /\ LET f == Last(stack)
       IN res' = SignRRset(res, f.zone, f.qname, req.do, FALSE)
    /\ stack' = Front(stack)
    /\ UNCHANGED <<db, pc, req, call>>

\* The outermost handler returned: handle_query hands the reply to Query.
Reply ==
    /\ pc = "return"
    /\ stack = <<>>
    /\ pc' = "done"
    /\ UNCHANGED <<db, req, call, stack, res>>

\* make_resp has sent the reply; nothing of the request outlives it.
Reset ==
    /\ pc = "done"
    /\ pc' = "idle"
    /\ req' = [qname |-> <<>>, qtype |-> "", do |-> FALSE, op |-> "QUERY"]
    /\ call' = [rname |-> <<>>, zone |-> NoZone, qname |-> <<>>]
    /\ stack' = <<>>
    /\ res' = EmptyReply
    /\ UNCHANGED db

Next ==
    \/ \E q \in QNames, t \in QTypes, do \in BOOLEAN, op \in Opcodes : Receive(q, t, do, op)
    \/ LookupFound \/ LookupBadDigest \/ LookupReferral \/ LookupChase
    \/ ReturnToCaller \/ Reply \/ Reset

Spec == Init /\ [][Next]_vars

-----------------------------------------------------------------------------
(* Properties.                                                            *)

Names == Seq(STRING)
RRTypes == {"A", "AAAA", "MX", "NS", "TXT", "SRV", "CAA", "NAPTR", "SSHFP",
           "DS", "SOA", "CNAME", "DNSKEY", "CDS", "CDNSKEY", "NSEC", "RRSIG"}

TypeOK ==
    /\ db \subseteq Records
    /\ pc \in {"idle", "lookup", "return", "done"}
    /\ req.qname \in QNames \cup {<<>>} /\ req.do \in BOOLEAN
    /\ stack \in Seq([zone : Zones, qname : Names]) /\ Len(stack) <= MaxDepth
    /\ res.rcode \in {"NOERROR", "NXDOMAIN", "SERVFAIL", "REFUSED"}
    /\ \A sec \in {res.an, res.ns, res.ar} :
          \A i \in 1..Len(sec) : sec[i].type \in RRTypes /\ sec[i].owner \in Names

\* A completed reply to an authoritative query.
Answering == pc = "done" /\ req.op = "QUERY" /\ FindZone(req.qname) # NoZone

\* Zone contents as RFC 1034 requires them: a CNAME owner has no other
\* data and one CNAME, and the apex is no alias.
WellFormed ==
    \A r \in db : r.type = "CNAME" =>
        /\ r.name # Apex
        /\ \A o \in db : (o.zone = r.zone /\ o.name = r.name) => o = r

\* The answer of RFC 1034 4.3.2 step 3: at an alias, the CNAME and the
\* answer for its target when we are authoritative for it; elsewhere the
\* records of the asked type.
\* The RRset of type t at name n: address records by their family, the
\* built-in nameservers with the apex NS, SSHFP as two fingerprints.
RecordRRType(r) == IF r.type = "ADDR" THEN Family(r.data) ELSE r.type
RRsetAt(n, t, rn, z) ==
    LET here == {r \in db : r.zone = z /\ r.name = rn /\ RecordRRType(r) = t}
    IN IF t = "SSHFP"
       THEN {RR(n, t, <<SSHFPAlgorithm(r.data[1]), fp>>) :
                r \in {x \in here : SSHFPAlgorithm(x.data[1]) # "0"}, fp \in {"1", "2"}}
       ELSE {RR(n, t, r.data) : r \in here}
            \cup {RR(n, t, a) : a \in IF t = "NS" /\ rn = Apex THEN Range(AutoNS) ELSE {}}

RECURSIVE Resolve(_, _, _)
Resolve(n, t, d) ==
    LET z  == FindZone(n)
        rn == RecordName(n, z)
        cn == FindRecords("CNAME", rn, z)
    IN IF z = NoZone \/ d = 0 THEN {}
       ELSE IF cn # {}
       THEN LET a == (CHOOSE x \in cn : TRUE).data
            IN {RR(n, "CNAME", a)} \cup Resolve(a, t, d - 1)
       ELSE RRsetAt(n, t, rn, z)

DataOf(sec) == SelectSeq(sec, LAMBDA r : r.type # "RRSIG")
CnamesOf(sec) == SelectSeq(sec, LAMBDA r : r.type = "CNAME")

(***************************************************************************)
(* The answer section of a CNAME-chasing query holds exactly the RFC 1034 *)
(* resolution of the query name over well-formed zone data, its CNAMEs in *)
(* chain order from the query name: lookup_cname's recursion across zones *)
(* with find_zone, the per-handler record filters, and the referral that  *)
(* must add nothing to the answer.                                        *)
(***************************************************************************)
AnswerFollowsCnameChain ==
    (Answering /\ req.qtype \in ChaseTypes /\ res.rcode # "SERVFAIL" /\ WellFormed)
    => /\ Range(DataOf(res.an)) = Resolve(req.qname, req.qtype, MaxDepth + 1)
       /\ LET cs == CnamesOf(res.an)
          IN \A i \in 1..Len(cs) :
                cs[i].owner = IF i = 1 THEN req.qname ELSE cs[i - 1].data

\* The zone a name belongs to, which must sign its RRsets.
ExpectedKey(rr) ==
    IF rr.type = "DNSKEY" THEN KSK ELSE ZSKOf(FindZone(rr.owner))

SignedIn(sec, rr) ==
    \E i \in 1..Len(sec) :
        /\ sec[i].type = "RRSIG" /\ sec[i].owner = rr.owner
        /\ sec[i].covered = rr.type
        /\ sec[i].signer = FindZone(rr.owner) /\ sec[i].key = ExpectedKey(rr)

(***************************************************************************)
(* With DO set, every RRset of the answer and authority sections (but the *)
(* unsigned delegation NS) whose zone has a ZSK, and every DNSKEY RRset,  *)
(* carries an RRSIG by its own zone and the right key: sign_rrset runs    *)
(* once per level of the CNAME chase with that level's zone, and a        *)
(* cross-zone chase must still leave each RRset signed by its owner zone. *)
(* The CNAME-qtype branch, which never signs, is the subject of its own   *)
(* run.                                                                   *)
(***************************************************************************)
SignedByOwnZone ==
    (Answering /\ req.do /\ req.qtype # "CNAME" /\ res.rcode # "SERVFAIL")
    => \A s \in {"an", "ns"} :
         LET sec == res[s] IN
         \A i \in 1..Len(sec) :
            LET rr == sec[i] IN
            (/\ rr.type # "RRSIG"
             /\ ~(s = "ns" /\ rr.type = "NS")
             /\ (FindZone(rr.owner) \in ZskZones \/ rr.type = "DNSKEY"))
            => SignedIn(sec, rr)

\* The branches of handle_query that do not go through a chasing handler
\* or the default sign_rrset.
SpecialTypes == {"CNAME", "DNSKEY", "CDS", "CDNSKEY"}

(***************************************************************************)
(* A DNSSEC reply that is NOERROR with an empty answer and no referral    *)
(* proves it: the authority section holds an NSEC for the query name and  *)
(* the SOA of its zone.  sign_rrset must add them in whichever handler or *)
(* level of the chase the reply ends empty, after lookup_referral has     *)
(* decided between referral, NODATA and NXDOMAIN.                         *)
(***************************************************************************)
DenialProof ==
    (/\ Answering /\ req.do /\ req.qtype \notin SpecialTypes
     /\ res.rcode = "NOERROR" /\ res.an = <<>>
     /\ \A i \in 1..Len(res.ns) : res.ns[i].type # "NS")
    => /\ \E i \in 1..Len(res.ns) : res.ns[i].type = "NSEC" /\ res.ns[i].owner = req.qname
       /\ \E i \in 1..Len(res.ns) : res.ns[i] = SOA(FindZone(req.qname))

\* The DS records stored for the delegation point o (name and zone of the
\* parent's NS record).
StoredDS(o) == {r.data : r \in {x \in db : x.type = "DS" /\ x.name \o x.zone = o}}

(***************************************************************************)
(* The spec (delegation and referral): with DO, a referral proves the      *)
(* child's security status: for every delegation NS RRset in the           *)
(* authority section, the reply carries exactly the stored DS RRset of     *)
(* that owner, or, when none is stored, an NSEC at the owner that denies   *)
(* DS.  lookup_referral finds the DS per NS record inside its loop, by the *)
(* NS record's own name, and the chase may reach the referral in a zone    *)
(* other than the query's.                                                 *)
(***************************************************************************)
DelegationProof ==
    (Answering /\ req.do /\ res.rcode = "NOERROR") =>
        \A i \in 1..Len(res.ns) :
            LET o == res.ns[i].owner IN
            res.ns[i].type = "NS" =>
                IF StoredDS(o) # {}
                THEN {rr.data : rr \in {x \in Range(res.ns) : x.type = "DS" /\ x.owner = o}}
                        = StoredDS(o)
                ELSE \E rr \in Range(res.ns) :
                        rr.type = "NSEC" /\ rr.owner = o /\ "DS" \notin rr.types

-----------------------------------------------------------------------------
(* What the spec says of replies, checked against the code in runs that   *)
(* expect a violation.                                                    *)

(***************************************************************************)
(* Spec 8: every RRset of a DNSSEC reply is followed by exactly one RRSIG,*)
(* so no (owner, type) RRset of a section is covered by two RRSIGs.  The  *)
(* CNAME chase calls sign_rrset once per level over the whole reply.      *)
(***************************************************************************)
OneRRSIGPerRRset ==
    (Answering /\ req.do) =>
        \A s \in {"an", "ns", "ar"} :
            LET sec == res[s] IN
            \A i, j \in 1..Len(sec) :
                (/\ i < j /\ sec[i].type = "RRSIG" /\ sec[j].type = "RRSIG"
                 /\ sec[i].owner = sec[j].owner) => sec[i].covered # sec[j].covered

(***************************************************************************)
(* Spec 8: a CNAME pointing to itself returns NODATA, not SERVFAIL: the   *)
(* chase of lookup_cname has no depth limit of its own.                   *)
(***************************************************************************)
SelfCnameIsNodata ==
    (/\ Answering /\ req.qtype \in ChaseTypes
     /\ \E r \in FindRecords("CNAME", RecordName(req.qname, FindZone(req.qname)),
                              FindZone(req.qname)) : r.data = req.qname)
    => res.rcode = "NOERROR"

(***************************************************************************)
(* Spec 8, scenario 3: the NSEC of a NODATA reply denies the asked type,  *)
(* so its bitmap does not list it.  sign_rrset uses one fixed bitmap.     *)
(***************************************************************************)
NodataNsecDeniesQtype ==
    \A i \in 1..Len(res.ns) :
        (Answering /\ res.an = <<>> /\ res.ns[i].type = "NSEC"
         /\ res.ns[i].owner = req.qname) => req.qtype \notin res.ns[i].types

(***************************************************************************)
(* Spec 8: a query for a name under no hosted zone gets NXDOMAIN and an   *)
(* empty answer.  is_rdns reads the module constants through self.        *)
(***************************************************************************)
OutOfZoneIsNxdomain ==
    (pc = "done" /\ req.op = "QUERY" /\ FindZone(req.qname) = NoZone)
    => res.rcode = "NXDOMAIN" /\ res.an = <<>>

=============================================================================
