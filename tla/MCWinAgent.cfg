\* A child that writes up to three bytes.
SPECIFICATION AgentSpec
CONSTANTS
  Width = 4
  BufferSize = 5
  MaxOutput = 3
INVARIANT
  ReadFinds
CHECK_DEADLOCK FALSE
