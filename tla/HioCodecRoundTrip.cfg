\* Every hio-group request the host can pack and every response or
\* indication the device can send, with exact argument counts.
SPECIFICATION Spec
CONSTANTS
  ArgCountSlack = 0
  Extra <- NoStrayBytes
INVARIANT TypeOK FrameRoundTrip
\* One frame per behaviour: the decoded state is final.
CHECK_DEADLOCK FALSE
