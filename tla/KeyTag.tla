------------------------------- MODULE KeyTag -------------------------------
(***************************************************************************)
(* The DNSSEC key tag of grpc.py: make_key_tag packs a DNSKEY RDATA        *)
(* (flags, protocol 3, algorithm 13, public key) into a buffer and folds  *)
(* it into a 16-bit tag, one loop iteration per step.  Three call sites   *)
(* use it: sign_rrset over the apex DNSKEY RRset (KSK, flags=257 passed), *)
(* sign_rrset with a zone's ZSK (default flags=256) and lookup_cds (KSK,  *)
(* default flags=256).  The DNSKEY RRset publishes the KSK with flags 257 *)
(* and the ZSK with flags 256.  A public key is a short byte sequence     *)
(* standing for the 64 bytes of x || y.                                    *)
(***************************************************************************)
EXTENDS Naturals, Sequences

CONSTANTS
    Bytes,      \* byte values the public keys are drawn from
    KeyLens     \* lengths of the public keys

VARIABLES
    ksk,        \* public key of self.priv_key
    zsk,        \* public key of zone.zsk_private
    site,       \* the call site currently computing a tag
    buf,        \* buffer.data after rd.pack(buffer)
    i,          \* loop index of the word loop
    tag,        \* the accumulator
    pc,         \* "pack" | "words" | "fold" | "done"
    emitted     \* tags handed out so far: [site, tag]

vars == <<ksk, zsk, site, buf, i, tag, pc, emitted>>

Keys == UNION {[1..n -> Bytes] : n \in KeyLens}

\* The call sites of make_key_tag and what each passes.
CallSites == {"dnskey_rrsig", "zsk_rrsig", "cds"}
FlagsDefault(s) == 256
FlagsAt(s) == IF s = "dnskey_rrsig" THEN 257 ELSE 256
KeyAtCdsZsk(s) == IF s = "dnskey_rrsig" THEN ksk ELSE zsk
KeyAt(s) == IF s = "zsk_rrsig" THEN zsk ELSE ksk

\* The flags a key is published with in the apex DNSKEY RRset.
PublishedFlags(s) == IF s = "zsk_rrsig" THEN 256 ELSE 257

DnskeyRdataByteFlags(flags, key) == <<flags, 3, 13>> \o key

\* dnslib.DNSKEY(flags, 3, 13, key).pack: flags big-endian, protocol, algorithm, key.
DnskeyRdata(flags, key) == <<flags \div 256, flags % 256, 3, 13>> \o key

\* (buffer.data[2 * i] << 8) + buffer.data[2 * i + 1], with i counted from 0.
Word(b, k) == b[2 * k + 1] * 256 + b[2 * k + 2]

Init ==
    /\ ksk \in Keys
    /\ zsk \in Keys
    /\ site \in CallSites
    /\ buf = <<>>
    /\ i = 0
    /\ tag = 0
    /\ pc = "pack"
    /\ emitted = {}

Pack ==
    /\ pc = "pack"
    /\ buf' = DnskeyRdata(FlagsAt(site), KeyAt(site))
    /\ pc' = "words"
    /\ UNCHANGED <<ksk, zsk, site, i, tag, emitted>>

AddWord ==
    /\ pc = "words"
    /\ i < Len(buf) \div 2
    /\ tag' = tag + Word(buf, i)
    /\ i' = i + 1
    /\ UNCHANGED <<ksk, zsk, site, buf, pc, emitted>>

AddOddByte ==
    /\ pc = "words"
    /\ i = Len(buf) \div 2
    /\ Len(buf) % 2 # 0
    /\ tag' = tag + buf[Len(buf)] * 256
    /\ pc' = "fold"
    /\ UNCHANGED <<ksk, zsk, site, buf, i, emitted>>

EvenLength ==
    /\ pc = "words"
    /\ i = Len(buf) \div 2
    /\ Len(buf) % 2 = 0
    /\ pc' = "fold"
    /\ UNCHANGED <<ksk, zsk, site, buf, i, tag, emitted>>

FoldNoCarry ==
    /\ pc = "fold"
    /\ tag' = tag % 65536
    /\ pc' = "done"
    /\ UNCHANGED <<ksk, zsk, site, buf, i, emitted>>

\* tag += (tag >> 16) & 0xFFFF; tag = tag & 0xFFFF
Fold ==
    /\ pc = "fold"
    /\ tag' = (tag + ((tag \div 65536) % 65536)) % 65536
    /\ pc' = "done"
    /\ UNCHANGED <<ksk, zsk, site, buf, i, emitted>>

\* The caller puts the tag into its RRSIG or CDS record; the next call follows.
Return ==
    /\ pc = "done"
    /\ emitted' = emitted \cup {[site |-> site, tag |-> tag]}
    /\ site' \in CallSites
    /\ buf' = <<>>
    /\ i' = 0
    /\ tag' = 0
    /\ pc' = "pack"
    /\ UNCHANGED <<ksk, zsk>>

Next == Pack \/ AddWord \/ AddOddByte \/ EvenLength \/ Fold \/ Return

Spec == Init /\ [][Next]_vars

-----------------------------------------------------------------------------
(* Properties *)

TypeOK ==
    /\ ksk \in Keys /\ zsk \in Keys
    /\ site \in CallSites
    /\ buf \in Seq(0..255)
    /\ i \in 0..(Len(buf) \div 2)
    /\ tag \in Nat
    /\ pc \in {"pack", "words", "fold", "done"}
    /\ emitted \subseteq [site : CallSites, tag : 0..65535]

\* The abstract specification of make_key_tag and its callers: the detailed
\* loop is the abstract Call step at Return and stutters before it.
Abs == INSTANCE KeyTagSpec WITH
         FlagsOf <- FlagsAt,
         KeyOf <- LAMBDA s, k, z : IF s = "zsk_rrsig" THEN z ELSE k

\* make_key_tag's packing, word loop, odd trailing byte and single carry
\* fold hand every caller the RFC 4034 key tag of the RDATA built from the
\* flags it passes and its key.
KeyTagImplementsSpec == Abs!Spec

\* Every RRSIG that sign_rrset emits carries the key tag of the DNSKEY
\* record that publishes its signing key (KSK with 257, ZSK with 256), so
\* validators can find the key.
RrsigTagsIdentifyDnskey ==
    \A e \in emitted :
        e.site # "cds" =>
            e.tag = Abs!RfcKeyTag(DnskeyRdata(PublishedFlags(e.site), KeyAt(e.site)))

\* RFC 7344: the CDS record's key tag identifies the published KSK DNSKEY,
\* whose flags are 257; lookup_cds computes it with make_key_tag's default.
CdsTagIdentifiesDnskey ==
    \A e \in emitted :
        e.site = "cds" =>
            e.tag = Abs!RfcKeyTag(DnskeyRdata(PublishedFlags(e.site), KeyAt(e.site)))

=============================================================================
