SPECIFICATION ChangeSpec
CONSTANTS
  Schemas <- MCSchemas
  Compared = {"avro", "json", "proto"}
  Documents <- MCDocuments
  Depth = 3
INVARIANTS
  AvroSound
  AvroComplete
  CanonicalText
  DefaultsSurvive
  JsonSound
  MatchingIsMaximum
  ProtoSound
  ReadsItself
CHECK_DEADLOCK FALSE
