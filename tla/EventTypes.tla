----------------------------- MODULE EventTypes -----------------------------
(***************************************************************************)
(* The nine event kinds a compositor plugin can report, and the two        *)
(* classes interval measurement distinguishes: kinds that close a focus    *)
(* interval and kinds it does not look at.  (crates/core/event_types.rs)   *)
(***************************************************************************)

EventType == {"Focus", "Unfocus", "Idle", "Resume", "Suspend", "ShutDown",
              "Locked", "LoggedOut", "Block"}

\* EventType::CLOSE
Close == {"Unfocus", "Idle", "Suspend", "ShutDown", "Locked", "LoggedOut",
          "Block"}

\* EventType::IGNORED_BY_MEASUREMENT
Ignored == {"Resume"}

\* The kinds whose payload names a window (an app class and a title).
Windowed == {"Focus", "Block"}
=============================================================================
