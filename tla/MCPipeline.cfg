SPECIFICATION FairSpec
CONSTANTS
  Workers = {w1, w2, w3, w4}
  d1 = d1
  d2 = d2
  known = known
  unknown = unknown
  Data = {d1, d2}
  Types = {known, unknown}
  TypeOf <- MCTypeOf
  NoData = NoData
INVARIANTS StateTells OneExitPerPass
PROPERTIES WQSpec NobodyLeavesDuringJoin Served StopReleasesAWorker
