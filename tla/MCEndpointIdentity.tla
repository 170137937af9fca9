------------------------- MODULE MCEndpointIdentity -------------------------
EXTENDS EndpointIdentity, TLC

\* Request slots and endpoint ids are interchangeable.
Symmetry == Permutations(Requests) \cup Permutations(Endpoints)
=============================================================================
