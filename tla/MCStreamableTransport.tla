------------------------ MODULE MCStreamableTransport ------------------------
(* Instances of StreamableTransport for TLC.  Each configuration lets some    *)
(* kinds of requests occur, with the limits low enough to be met.             *)
EXTENDS StreamableTransport, TLC

CONSTANTS c1, c2,      \* connections
          s1, s2,      \* session tokens
          tools,       \* a topic a filter can name
          progress     \* a topic of request-scoped notifications only

\* Connections are interchangeable; used by runs without liveness properties.
SymmetricConns == Permutations({c1, c2})
SymmetricAll   == SymmetricConns \cup Permutations({s1, s2})

\* Only the part of the graph before Stop is of interest to a counterexample.
StaysUp == phase = "running"

OneConn      == {c1}
TwoConns     == {c1, c2}
NoSession    == {}
OneSession   == {s1}
TwoSessions  == {s1, s2}
JustTools    == {tools}
JustProgress == {progress}
NoTopic      == {}

PostsOnly      == {"json", "sse"}
PostsAndListen == {"json", "sse", "listen"}
Streaming      == {"initialize", "get", "delete", "notification"}
Listening      == {"listen"}
GetAndJson     == {"initialize", "get", "json"}
==============================================================================
