------------------------------ MODULE MCTorrent ------------------------------
(* Instances of TorrentTask for TLC. *)
EXTENDS TorrentTask
=============================================================================
