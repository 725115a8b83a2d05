SPECIFICATION ReferenceSpec
CONSTANTS
  MaxSlaves = 1
  Products = {"servo", "drive"}
  Outputs = {"servo", "drive"}
INVARIANT OldReferencesRefused
