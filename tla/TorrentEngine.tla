---------------------------- MODULE TorrentEngine ----------------------------
(***************************************************************************)
(* The libtorrent adapter (integrations/libtorrent-engine): the torrent of *)
(* one task inside libtorrent, the alerts libtorrent has posted, the map   *)
(* of senders, and the polling future that turns alerts into events.       *)
(*                                                                         *)
(* Each step below holds the mutex of EngineState.  The events of a poll   *)
(* are sent after the mutex is released, through clones of the senders:    *)
(* for the receivers this is the same as a listener that takes its time,   *)
(* so that sending is part of the poll.  Another task shares the adapter;  *)
(* of it only the sender is kept.                                          *)
(***************************************************************************)
EXTENDS Naturals, Sequences

CONSTANTS
  MaxRuns,      \* bound: start_session calls, each with a channel of its own
  MaxData,      \* bound: resume data saved by libtorrent
  MaxAlerts,    \* bound: alerts that wait to be polled
  MaxWaiting    \* bound: events in a channel

Runs == 1 .. MaxRuns

VARIABLES
  torrent,      \* in libtorrent: none, meta (no metadata yet), down, half, done
  paused,       \* its paused flag
  dirty,        \* its status changed since the last state update
  saving, data, \* resume data asked for; how often it was saved
  alerts,       \* alerts posted and not popped
  sender,       \* the run whose channel is in senders, 0 for none
  other,        \* another task's sender is in senders
  polling,      \* EngineState::polling: a future polls
  chan,         \* of each run: events sent and not received
  missed,       \* history: alerts were popped while nobody was registered, or a pause
                \* was told to the listener of an earlier run during a start
  reused        \* history: a start was given a torrent that was there already, and
                \* paused or done

native == <<torrent, paused, dirty, saving, data>>
adapter == <<sender, other, polling>>
histories == <<missed, reused>>
engine == <<native, alerts, adapter, chan, histories>>

States == {"resolving", "downloading", "paused", "completed"}
Alerts == [kind : {"metadata", "piece", "finished", "error"} \cup States, data : {0}]
            \cup [kind : {"data"}, data : 1 .. MaxData]
Alert(kind) == [kind |-> kind, data |-> 0]

EngineTypeOK ==
  /\ torrent \in {"none", "meta", "down", "half", "done"}
  /\ {paused, dirty, saving, other, polling, missed, reused} \subseteq BOOLEAN
  /\ data \in 0 .. MaxData
  /\ alerts \in Seq(Alerts)
  /\ sender \in 0 .. MaxRuns
  /\ chan \in [Runs -> Seq(Alerts)]

EngineInit ==
  /\ torrent = "none" /\ paused = FALSE /\ dirty = FALSE /\ saving = FALSE
  /\ alerts = <<>> /\ sender = 0 /\ other = FALSE /\ polling = FALSE
  /\ chan = [k \in Runs |-> <<>>] /\ missed = FALSE /\ reused = FALSE

-----------------------------------------------------------------------------
(* libtorrent *)

Post(alert) == Len(alerts) < MaxAlerts /\ alerts' = Append(alerts, alert)

(* map_state *)
MappedState ==
  IF paused THEN "paused"
  ELSE CASE torrent = "meta" -> "resolving"
         [] torrent \in {"down", "half"} -> "downloading"
         [] torrent = "done" -> "completed"

NativeMetadata ==
  /\ torrent = "meta" /\ ~paused
  /\ torrent' = "down" /\ dirty' = TRUE
  /\ Post(Alert("metadata"))
  /\ UNCHANGED <<paused, saving, data, adapter, chan, histories>>

NativePiece ==
  /\ torrent = "down" /\ ~paused
  /\ torrent' = "half" /\ dirty' = TRUE
  /\ Post(Alert("piece"))
  /\ UNCHANGED <<paused, saving, data, adapter, chan, histories>>

NativeFinish ==
  /\ torrent \in {"down", "half"} /\ ~paused
  /\ torrent' = "done" /\ dirty' = TRUE
  /\ Post(Alert("finished"))
  /\ UNCHANGED <<paused, saving, data, adapter, chan, histories>>

(* The status of a torrent that changed, asked for by post_torrent_updates *)
NativeUpdate ==
  /\ torrent # "none" /\ dirty /\ polling
  /\ dirty' = FALSE
  /\ Post(Alert(MappedState))
  /\ UNCHANGED <<torrent, paused, saving, data, adapter, chan, histories>>

NativeSaved ==
  /\ saving /\ data < MaxData
  /\ saving' = FALSE /\ data' = data + 1
  /\ Post([kind |-> "data", data |-> data + 1])
  /\ UNCHANGED <<torrent, paused, dirty, adapter, chan, histories>>

(* torrent_error_alert or save_resume_data_failed_alert *)
NativeError ==
  /\ torrent # "none"
  /\ saving' = FALSE
  /\ Post(Alert("error"))
  /\ UNCHANGED <<torrent, paused, dirty, data, adapter, chan, histories>>

(* The queue of libtorrent pauses an auto_managed torrent, or resumes it:  *)
(* pause_torrent leaves the flag set.                                      *)
NativeQueue ==
  /\ torrent # "none"
  /\ paused' = ~paused /\ dirty' = TRUE
  /\ UNCHANGED <<torrent, saving, data, alerts, adapter, chan, histories>>

-----------------------------------------------------------------------------
(* The calls of the adapter *)

(* add_magnet and add_torrent_file; libtorrent returns a torrent it has    *)
(* already as it is, and nobody resumes it.  An add_torrent_alert is a     *)
(* state without effect.                                                   *)
AddTorrent(metadata) ==
  /\ IF torrent = "none"
     THEN /\ torrent' = IF metadata THEN "down" ELSE "meta"
          /\ paused' = FALSE /\ dirty' = TRUE /\ saving' = FALSE
     ELSE UNCHANGED <<torrent, paused, dirty, saving>>
  /\ reused' = (reused \/ paused \/ torrent = "done")
  /\ UNCHANGED <<data, alerts, adapter, chan, missed>>

Register(k) ==
  /\ sender' = k
  /\ UNCHANGED <<native, alerts, other, polling, chan, histories>>

(* Mutated form of EnsurePolling: the flag is looked at, no future spawned. *)
EnsurePollingIfIdle == UNCHANGED engine

EnsurePolling ==
  /\ polling' = TRUE
  /\ UNCHANGED <<native, alerts, sender, other, chan, histories>>

(* pause_session and resume_session fail for a handle that is not there. *)
PauseSession ==
  /\ torrent # "none"
  /\ paused' = TRUE /\ dirty' = TRUE /\ saving' = (data < MaxData)
  /\ UNCHANGED <<torrent, data, alerts, adapter, chan, histories>>

ResumeSession ==
  /\ torrent # "none"
  /\ paused' = FALSE /\ dirty' = TRUE
  /\ UNCHANGED <<torrent, saving, data, alerts, adapter, chan, histories>>

(* cancel_session and remove_session *)
RemoveSession ==
  /\ torrent' = "none" /\ paused' = FALSE /\ dirty' = FALSE /\ saving' = FALSE
  /\ sender' = 0
  /\ UNCHANGED <<data, alerts, other, polling, chan, histories>>

(* The other task starts and ends its session. *)
OtherTask ==
  /\ other' = ~other
  /\ polling' = (polling \/ other')
  /\ UNCHANGED <<native, alerts, sender, chan, histories>>

-----------------------------------------------------------------------------
(* poll_libtorrent_alerts, translate_event and dispatch.  The state and    *)
(* the progress of an update are two events that are handled in one step. *)

Poll ==
  /\ polling
  /\ alerts # <<>> \/ (sender = 0 /\ ~other)
  /\ sender # 0 => Len(chan[sender] \o alerts) <= MaxWaiting
  /\ alerts' = <<>>
  /\ chan' = IF sender = 0 THEN chan ELSE [chan EXCEPT ![sender] = @ \o alerts]
  /\ missed' = (missed \/ (sender = 0 /\ torrent # "none" /\ alerts # <<>>))
  /\ polling' = (sender # 0 \/ other)
  /\ UNCHANGED <<native, sender, other, reused>>

PollFails ==
  /\ polling /\ polling' = FALSE
  /\ sender # 0 => Len(chan[sender]) < MaxWaiting
  /\ chan' = IF sender = 0 THEN chan ELSE [chan EXCEPT ![sender] = Append(@, Alert("error"))]
  /\ UNCHANGED <<native, alerts, sender, other, histories>>
=============================================================================
