SPECIFICATION ConfigSpec
CONSTANTS
  Numbers = {0, 1, 45}
  EditCap = 1
INVARIANT MalformedIsRefused
