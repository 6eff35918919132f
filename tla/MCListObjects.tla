---------------------------- MODULE MCListObjects ---------------------------
EXTENDS ListObjects

CONSTANTS MaxLength   \* bound on the length of a response

MCResponses == UNION {[1..n -> MuseumObject] : n \in 0..MaxLength}

=============================================================================
