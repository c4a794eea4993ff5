---------------------------- MODULE MCBehaviours ----------------------------
\* Two regions and two workers; a loop of three iterations with a collection
\* in iterations 0 and 2.
EXTENDS Behaviours
=============================================================================
