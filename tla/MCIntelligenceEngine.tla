------------------------ MODULE MCIntelligenceEngine ------------------------
EXTENDS IntelligenceEngine

Mixed == {<<"CRITICAL">>, <<"WARNING", "WARNING">>, <<"INFO", "CRITICAL">>}
=============================================================================
