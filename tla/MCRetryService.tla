-------------------------- MODULE MCRetryService ---------------------------
EXTENDS RetryService

CONSTANTS m1, r1, r2

OneMsg == {m1}
MCRecips == {r1, r2}

\* A message to nobody, to one recipient, and to two.
MCRecipientSets == {{}, {r1}, {r1, r2}}
=============================================================================
