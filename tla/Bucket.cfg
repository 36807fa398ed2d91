\* Intervals of up to five ticks, requests of one to three tokens.
SPECIFICATION Spec
CONSTANTS
  Rate = 2
  Capacity = 5
  MaxTokens = 3
  MaxElapsed = 5
INVARIANTS
  Envelope
