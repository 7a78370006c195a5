-------------------------------- MODULE MCLog --------------------------------
(* Log with a few configuration files: a usual one, one without root, one     *)
(* with mistakes in it, and one whose logs directory cannot be made.          *)
EXTENDS Log, TLC

CONSTANT t1

MCThreads == {t1}
A == <<"a">>
AB == <<"a", "b">>
MCFilters == {Root, A, AB, Server, GM}
MCLevels == {Disabled, Fatal, Error, Info, Debug}

Logs(l, cs) == [level |-> l, channels |-> cs]
Shows(l, bad) == [level |-> l, throws |-> bad]

Usual ==
    [dirOk |-> TRUE,
     loggers |-> (Root :> Logs(Error, <<"Console">>)) @@ (A :> Logs(Debug, <<"File", "Console">>)),
     channels |-> ("Console" :> Shows(Debug, FALSE)) @@ ("File" :> Shows(Info, FALSE))]
NoRoot ==
    [dirOk |-> TRUE,
     loggers |-> (AB :> Logs(Info, <<"Console">>)) @@ (Server :> Logs(Disabled, <<"Console">>)),
     channels |-> "Console" :> Shows(Info, FALSE)]
Mistakes ==
    [dirOk |-> TRUE,
     loggers |-> (Root :> Logs(Info, <<"File", "Gone", "Console">>)) @@ (A :> Logs(MaxLevel, <<"Console">>)),
     channels |-> ("Console" :> Shows(Error, FALSE)) @@ ("File" :> Shows(Debug, TRUE))]
NoDir == [Usual EXCEPT !.dirOk = FALSE]

MCConfigs == {Usual, NoRoot, Mistakes, NoDir}
=============================================================================
