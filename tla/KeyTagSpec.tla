------------------------------ MODULE KeyTagSpec ------------------------------
(***************************************************************************)
(* What make_key_tag promises its callers, in one step: each call returns *)
(* the RFC 4034 Appendix B key tag of the DNSKEY RDATA built from the     *)
(* flags the caller passes and the key it signs with.  The RDATA layout   *)
(* (RFC 4034 2.1: flags in two octets, protocol 3, algorithm, public key) *)
(* and the checksum are written from the RFC, not from grpc.py.           *)
(***************************************************************************)
EXTENDS Naturals, Sequences

CONSTANTS
    Keys,         \* the public keys a zone may have
    CallSites,    \* the callers of make_key_tag
    FlagsOf(_),   \* the flags a call site passes
    KeyOf(_, _, _) \* the key a call site uses, given the KSK and the ZSK

VARIABLES ksk, zsk, site, emitted

RdataWire(flags, alg, key) == <<flags \div 256, flags % 256, 3, alg>> \o key

\* RFC 4034 Appendix B: ac += (i & 1) ? key[i] : key[i] << 8, then
\* ac += (ac >> 16) & 0xFFFF, and the low 16 bits.
RECURSIVE RfcSum(_, _)
RfcSum(b, n) ==
    IF n = 0 THEN 0
    ELSE RfcSum(b, n - 1) + (IF (n - 1) % 2 = 1 THEN b[n] ELSE b[n] * 256)

RfcKeyTag(b) ==
    LET ac == RfcSum(b, Len(b)) IN (ac + ((ac \div 65536) % 65536)) % 65536

Init ==
    /\ ksk \in Keys /\ zsk \in Keys
    /\ site \in CallSites
    /\ emitted = {}

\* One call: the tag for the pending call site is handed out, the next
\* call site is any.
Call ==
    /\ emitted' = emitted \cup
         {[site |-> site, tag |-> RfcKeyTag(RdataWire(FlagsOf(site), 13, KeyOf(site, ksk, zsk)))]}
    /\ site' \in CallSites
    /\ UNCHANGED <<ksk, zsk>>

Spec == Init /\ [][Call]_<<ksk, zsk, site, emitted>>

=============================================================================
