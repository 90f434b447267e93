CONSTANTS
    Exchanges <- MCExchanges
    Names <- MCNames
    Trailers <- MCTrailers
    Listed <- MCListed
SPECIFICATION Spec
INVARIANTS GzipAsAccepted BackendAskedFor HopHeadersStop EndToEndHeadersKept TrailersArrive
