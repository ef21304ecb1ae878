SPECIFICATION Spec
CONSTANTS
  Configs = {d, c1, c2}
  Default = d
  Blank = blank
  Torn = torn
PROPERTIES AtomicSpec
