------------------------- MODULE MCExtractionQueue -------------------------
(* Three items in a queue of two reach every way of dropping one.  Three   *)
(* background tasks let two run at once: one that a stop overlapping the   *)
(* next start has forgotten, and the one started after the next stop; two  *)
(* calls of stop_processing can wait for different tasks.                  *)
EXTENDS ExtractionQueue

\* While processing goes on every item settles, and when it is stopped every loop ends.
QueueIsLive == EveryItemSettles /\ LoopsEnd
=============================================================================
