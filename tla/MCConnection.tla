---------------------------- MODULE MCConnection ----------------------------
(***************************************************************************)
(* Topologies and bounds for model checking Connection.  "uw" is the UI     *)
(* process's end of its connection with the web process and "wu" the web    *)
(* process's; "wp" and "pw" are the ends of the web process's connection    *)
(* with a plug-in process.                                                  *)
(***************************************************************************)
EXTENDS Connection

CONSTANTS ui, web, plugin

TwoEnds == {"uw", "wu"}
ThreeEnds == TwoEnds \cup {"wp", "pw"}

loopOf == [uw |-> ui, wu |-> web, wp |-> web, pw |-> plugin]
peerOf == [uw |-> "wu", wu |-> "uw", wp |-> "pw", pw |-> "wp"]

TwoLoopOf == [e \in TwoEnds |-> loopOf[e]]
TwoPeerOf == [e \in TwoEnds |-> peerOf[e]]
ThreeLoopOf == [e \in ThreeEnds |-> loopOf[e]]
ThreePeerOf == [e \in ThreeEnds |-> peerOf[e]]

(* How many synchronous requests or asynchronous messages each end sends. *)
OneEach == [e \in Ends |-> 1]
None == [e \in Ends |-> 0]
FromUI == [e \in Ends |-> IF e = "uw" THEN 1 ELSE 0]
FromWeb == [e \in Ends |-> IF e = "wu" THEN 1 ELSE 0]
NotFromUI == [e \in Ends |-> IF e = "uw" THEN 0 ELSE 1]
TwoFromUI == [e \in Ends |-> IF e = "uw" THEN 2 ELSE 1]

(* A worker thread of the web process sends to the UI process. *)
WorkerEnd == [t \in SecondaryThreads |-> "wu"]
=============================================================================
