----------------------------- MODULE MCGameOfLife -----------------------------
\* The smallest board the pattern does not fit on, the smallest it fits on,
\* where it wraps around at once, and the default one; no generation, three, and
\* the default ten.
EXTENDS GameOfLife
===============================================================================
