------------------------------- MODULE MCIpc -------------------------------
(* Instance of Ipc for TLC: the tray's windows, which give two commands, with *)
(* its status thread; or, giving one command, with the command line.          *)
EXTENDS Ipc

OneSessionAtATime == {Lane \cup {"tray"}, Lane \cup {"cli"}}
ClickBound == [p \in OneSessionAtATime |-> IF "tray" \in p THEN 2 ELSE 1]
=============================================================================
