SPECIFICATION TestSpec
CONSTANTS
  Names = {"A-Show", "show", "add"}
  Types = {}
  Signatures = {"void(A, string)", "void(string)", "int(int, int, int)"}
  Places = {}
INVARIANT RunsAsRegistered
CHECK_DEADLOCK FALSE
