CONSTANTS
  Program <- SmallProgram
  Stale <- StaleWords
  Lines = {"SEI"}
  None = None
SPECIFICATION Spec
INVARIANT SoftwareBitsAsAsked
PROPERTY TrapsWhereTheyBelong ReturnRestores NoReentry NoStaleInterrupt MachineStateProtected
