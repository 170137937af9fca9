-------------------------- MODULE MCIngestPipeline --------------------------
EXTENDS IngestPipeline, TLC

CONSTANTS r1, r2, e1, e2, e3

\* A batch of two and a single event.
BatchAndSingle == r1 :> <<e1, e2>> @@ r2 :> <<e3>>

Pair == r1 :> <<e1, e2>>

AllStartups == [dbManager : BOOLEAN, dlq : {"absent", "running"}]

WithClickHouse == [dbManager : {TRUE}, dlq : {"absent", "running"}]
=============================================================================
