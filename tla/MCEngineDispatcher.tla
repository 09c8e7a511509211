------------------------- MODULE MCEngineDispatcher -------------------------
(* The engine's own dependency plan (lifecycle.rs) for EngineDispatcher.    *)
EXTENDS EngineDispatcher

MCRank == [shared_state |-> 0, projects |-> 1, devices |-> 2,
           playback |-> 3, rendering |-> 4, export |-> 5]
MCSubsystem == DOMAIN MCRank
MCDependencies ==
  [shared_state |-> {}, projects |-> {"shared_state"}, devices |-> {"shared_state"},
   playback |-> {"projects", "devices"}, rendering |-> {"projects", "devices"},
   export |-> {"projects", "rendering"}]
MCParticipates == MCSubsystem \ {"shared_state"}
MCRetains == {"shared_state", "projects"}
MCRequired ==
  LET base == {"shared_state", "projects", "devices"}
  IN [playback |-> base \cup {"playback"}, rendering |-> base \cup {"rendering"},
      export |-> base \cup {"rendering", "export"}]
=============================================================================
