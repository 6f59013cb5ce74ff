--------------------------- MODULE MCRemoteLaunch ---------------------------
(* RemoteLaunch for TLC.                                                   *)
EXTENDS RemoteLaunch, TLC, FiniteSets

CONSTANTS l1, l2, l3

Slash == 47
At(user, host, port, file) == [user |-> user, host |-> host, port |-> port, file |-> file]
Path   == At(<<>>, <<>>, <<>>, <<Slash>>)
H      == <<104>>
OnHost == At(<<>>, H, <<>>, <<Slash>>)       \* h:/

A(mode, to, source, served) ==
  [mode |-> mode, to |-> to, source |-> source, served |-> served, skip |-> FALSE]
Three(x, y, z) == (l1 :> x) @@ (l2 :> y) @@ (l3 :> z)

Up    == A("upload", OnHost, TRUE, "good")
Down  == A("download", OnHost, TRUE, "good")
Local == [Up EXCEPT !.to = Path]
To(user, host, port, file) == A("upload", At(user, host, port, file), TRUE, "bad")

\* Three uploads to one host; one without a source, one to an empty and one to a bad file; one with
\* -s; with downloads; uploads and a download locally; and what becomes of -t: h:/@ names no place,
\* and ":" a local file that has no name.
MCJobs ==
  {Three(Up, Up, Up),
   Three(Up, Up, [Up EXCEPT !.source = FALSE]),
   Three(Up, [Up EXCEPT !.served = "bad"], [Up EXCEPT !.served = "empty"]),
   Three(Up, Up, [Up EXCEPT !.skip = TRUE]),
   Three(Up, Up, Down),
   Three(Up, Down, [Down EXCEPT !.served = "empty"]),
   Three(Local, [Local EXCEPT !.source = FALSE], Local),
   Three(Local, Up, [Down EXCEPT !.to = Path]),
   Three(Local, To(<<>>, H, <<>>, <<Slash, Arroba>>), To(<<>>, <<>>, <<>>, <<Colon>>))}

\* One download by itself.
MCDownloadJob == {l1 :> Down}
=============================================================================
