-------------------------- MODULE MCTenantRegistry --------------------------
\* Three callers miss together and two versions of a row overtake each other.
\* No symmetry: the run checks a liveness property.
EXTENDS TenantRegistry
=============================================================================
