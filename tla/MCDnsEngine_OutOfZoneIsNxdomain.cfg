CONSTANTS
    Zones <- MCZones
    ZskZones <- MCZskZones
    Records <- MCRecords
    BaseRecords <- MCBase
    QNames <- MCQNames
    QTypes = {"A", "AAAA", "MX", "NS", "TXT", "DS", "SOA", "DNSKEY", "CDS", "CDNSKEY", "CNAME", "HINFO"}
    Opcodes = {"QUERY", "NOTIFY"}
    AutoNS <- MCAutoNS
    MaxDepth = 3
    ArpaOnServicer = FALSE
SPECIFICATION Spec
INVARIANT OutOfZoneIsNxdomain
