----------------------------- MODULE MCRainfall -----------------------------
EXTENDS Rainfall

\* The rain of each tick is twice that of the one before, so that two sums of the
\* rain of different ticks differ.
MCWeather == {[t \in 0..LastTick |-> 2^t - 1]}
=============================================================================
