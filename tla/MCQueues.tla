------------------------------ MODULE MCQueues ------------------------------
(***************************************************************************)
(* Two queues between tasks of the agent: the pipe of the scheduler, and   *)
(* the tables that the data manager gives to the server connector.  They   *)
(* are independent: an initial state chooses one of them (part).  The data *)
(* manager has a table of two rows at most and a record table of PData.    *)
(***************************************************************************)
EXTENDS DataManager, Pipe

CONSTANTS tbl, rec

TwoTables == {tbl, rec}
OneRecord == {rec}
TwoRows == [t \in TwoTables |-> IF t = tbl THEN 2 ELSE 0]

VARIABLE part

MCvars == <<part, vars, pipeVars>>

MCInit ==
  /\ Init /\ PipeInit
  /\ \/ part = "pipe"
     \/ part = "datamanager" /\ maxlength = 0

InPipe == part = "pipe" /\ UNCHANGED <<part, vars>>
InData == part = "datamanager" /\ UNCHANGED <<part, pipeVars>>

MCNext == (InPipe /\ PipeNext) \/ (InData /\ Next)

\* The fairness of each part, as its module states and explains it.
MCSpec ==
  /\ MCInit /\ [][MCNext]_MCvars
  /\ \A r \in Readers : WF_MCvars(InPipe /\ (ReceiveTakes(r) \/ ReceiveWaits(r)))
  /\ \A w \in Writers : WF_MCvars(InPipe /\ Resent(w))
  /\ WF_MCvars(InData /\ WaiterStarts) /\ WF_MCvars(InData /\ SessionStep)
  /\ WF_MCvars(InData /\ Connect)
  /\ WF_MCvars(InData /\ \E ok \in BOOLEAN : ServerAnswers(ok)) /\ WF_MCvars(InData /\ Answer)
=============================================================================
