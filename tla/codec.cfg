SPECIFICATION Spec
CONSTANT Programs <- Sample
INVARIANTS RowsTileCode RoundTrip RexIsLastPrefix
