CONSTANTS
    RZones <- MCRZones
    PtrRecords <- MCPtrRecords
    AddrRecords <- MCAddrRecords
    QNames <- MCQNames
    QTypes = {"SOA", "PTR", "NS", "DNSKEY", "CDS", "CDNSKEY", "A"}
    AutoNS <- MCAutoNS
    Bad <- MCBad
SPECIFICATION Spec
INVARIANTS
    TypeOK
    PtrAnswersFromOwnerZone
