-------------------------- MODULE MCSegmentTracker --------------------------
(* Small playlists for TLC.                                                *)
EXTENDS SegmentTracker
=============================================================================
