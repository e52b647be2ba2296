---------------------------- MODULE MCHullTracker ----------------------------
EXTENDS HullTracker

MCArea == [c \in Cars |-> 2]
=============================================================================
