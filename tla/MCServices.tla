------------------------------ MODULE MCServices ------------------------------
(***************************************************************************)
(* One instance of the two services whose progress is checked: the TCP     *)
(* server and the infrared transmitter.  They share no state; as in        *)
(* MCParts a behaviour runs one of them, its `focus', under its fairness.  *)
(***************************************************************************)
EXTENDS TcpServer, IrSend

VARIABLE focus

MCInit == focus \in {"server", "infrared"} /\ SrvInit /\ IrInit

MCNext ==
    \/ focus = "server" /\ SrvNext /\ UNCHANGED <<focus, ir_vars>>
    \/ focus = "infrared" /\ IrNext /\ UNCHANGED <<focus, srv_vars>>

\* The fairness of SrvSpec and IrSpec, for the service that runs.
ServerFairness ==
    /\ WF_srv_vars(focus = "server" /\ TaskRuns)
    /\ \A c \in Stoppers : WF_srv_vars(focus = "server" /\ StopLocked(c))

InfraredFairness ==
    LET Sends(t) == Lock(t) \/ Encode(t) \/ Grab(t) \/ SendOk(t)
    IN  /\ WF_ir_vars(focus = "infrared" /\ Sends("Ble"))
        /\ SF_ir_vars(focus = "infrared" /\ Sends("Main"))
        /\ SF_ir_vars(focus = "infrared" /\ (TxTake \/ TxFinish))

MCSpec ==
    /\ MCInit /\ [][MCNext]_<<focus, srv_vars, ir_vars>>
    /\ ServerFairness /\ InfraredFairness
=============================================================================
