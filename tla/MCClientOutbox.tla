--------------------------- MODULE MCClientOutbox ---------------------------
(***************************************************************************)
(* An instance of ClientOutbox for TLC: a prompt and two status probes.    *)
(***************************************************************************)
EXTENDS ClientOutbox

CONSTANTS keyPrompt, keyProbe, keyProbeAgain

SomeKeys == {keyPrompt, keyProbe, keyProbeAgain}
SomeProbes == {keyProbe, keyProbeAgain}

=============================================================================
