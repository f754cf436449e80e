--------------------------- MODULE MCCoapObserver ---------------------------
(* CoapObserver with a small counter that wraps around while observed.       *)
EXTENDS CoapObserver

\* Two observed resources: observe_resource treats every URI alike.
MCUris == {"line1", "line2"}
MCOneUri == {"line1"}
=============================================================================
