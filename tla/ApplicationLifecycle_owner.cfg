\* One client asks while another is in its request.  Nine revisions: start, tear
\* down, start again, fail and recover.
\* CHECK_DEADLOCK FALSE: an engine thread that has exited and a client that is
\* refused for lack of revisions have nothing left to do.
SPECIFICATION FairSpec
CONSTANTS
  Engine = engine
  NoFailure = NoFailure
  NoOne = NoOne
  Client = {c1, c2}
  MaxRevision = 9
PROPERTIES
  StartsOnlyIfAsked
  EngineSettles
CHECK_DEADLOCK FALSE
