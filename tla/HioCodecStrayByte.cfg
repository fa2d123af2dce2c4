\* Device frames that carry one byte more than their fields: an odd byte
\* after hio.query's uint16 nmsg array, or a byte after a fixed layout.
SPECIFICATION Spec
CONSTANTS
  ArgCountSlack = 0
  Extra <- OneStrayByte
INVARIANT DecodeAccountsForFrame
CHECK_DEADLOCK FALSE
