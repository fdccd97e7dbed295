--------------------------- MODULE MCNewsSentiment ---------------------------
(* Small instances of NewsSentiment: one path for each try of each task,   *)
(* and one for the other users of the client.                              *)
EXTENDS NewsSentiment

MCClients == Tasks \cup Tools
MCPaths == (Tasks \X (1..MaxTries)) \cup {ToolPath}
MCBlobs == {Blob}
=============================================================================
