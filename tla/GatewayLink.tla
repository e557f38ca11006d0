---------------------------- MODULE GatewayLink ----------------------------
(***************************************************************************)
(* The TCP link between the ROS2 side of a robot (simulator, odometry,     *)
(* controller) and the ROS1 side (RACER).                                  *)
(*                                                                         *)
(* The ROS2 gateway is the client.  Its executor sends a frame for every   *)
(* message it bridges, its network thread connects, reads, and connects    *)
(* again after an error.  The ROS1 gateway accepts one connection at a     *)
(* time and reads it to its end; its command callback sends on the same    *)
(* connection.  ROS1 runs on the clock that comes over the link: without   *)
(* clock frames no setpoint is sampled.                                    *)
(*                                                                         *)
(* A connection that breaks is broken for both ends, each of which learns  *)
(* of it when it reads or, perhaps, when it sends; what was on its way is  *)
(* read or lost.  A full socket blocks its sender.  Scans and odometry are *)
(* left out: the link treats them like the clock.                          *)
(***************************************************************************)
EXTENDS Integers, Sequences

CONSTANTS
  MaxConn,    \* bound on connections made, and so on faults
  MaxQueue    \* frames a socket takes before it blocks

VARIABLES
  made,      \* connections made so far, numbered from 1; 0 stands for None
  client,    \* connection of the ROS2 gateway
  reader,    \* the connection its network thread reads
  accepted,  \* connections the ROS1 gateway has accepted
  server,    \* connection of the ROS1 gateway, the one it reads
  cut,       \* connections that an end closed or that broke
  up,        \* frames on their way to ROS1
  down,      \* frames on their way to ROS2
  clockDue,  \* simulated time went on since the last clock frame
  cmdDue,    \* the ROS1 clock went on since the last setpoint
  told       \* the last report on the ROS1 topic /racer/bot/execution_blocked

ends == <<client, reader, accepted, server>>
queues == <<up, down>>
linkVars == <<made, ends, cut, queues, clockDue, cmdDue, told>>

Conn == 1 .. MaxConn
Reports == {"held", "free"}

(* One type invariant.                                                      *)
TypeOK ==
  /\ made \in 0 .. MaxConn
  /\ client \in 0 .. made /\ reader \in 0 .. made
  /\ accepted \in 0 .. made /\ server \in 0 .. accepted
  /\ cut \subseteq 1 .. made
  /\ up \in [Conn -> Seq(Reports \cup {"clock"})]
  /\ down \in [Conn -> Seq({"setpoint"})]
  /\ \A c \in Conn : Len(up[c]) <= MaxQueue /\ Len(down[c]) <= MaxQueue
  /\ clockDue \in BOOLEAN /\ cmdDue \in BOOLEAN
  /\ told \in Reports

Init ==
  /\ made = 0 /\ client = 0 /\ reader = 0 /\ accepted = 0 /\ server = 0
  /\ cut = {}
  /\ up = [c \in Conn |-> <<>>] /\ down = [c \in Conn |-> <<>>]
  /\ clockDue = FALSE /\ cmdDue = FALSE /\ told = "free"

-----------------------------------------------------------------------------
(* The ROS2 gateway *)

(* send: without a connection the frame is dropped; on a broken one it is   *)
(* lost, or the error closes the connection.                                *)
Send(frame) ==
  \/ client = 0 /\ UNCHANGED <<client, up>>
  \/ client \in cut /\ client' \in {client, 0} /\ UNCHANGED up
  \/ /\ client \notin cut \cup {0} /\ Len(up[client]) < MaxQueue
     /\ up' = [up EXCEPT ![client] = Append(@, frame)]
     /\ UNCHANGED client

(* on_clock, behind its throttle.                                           *)
OnClock ==
  /\ clockDue /\ clockDue' = FALSE
  /\ Send("clock")
  /\ UNCHANGED <<made, reader, accepted, server, cut, down, cmdDue, told>>

(* on_execution_blocked *)
OnBlocked(value) ==
  /\ Send(value)
  /\ UNCHANGED <<made, reader, accepted, server, cut, down, clockDue, cmdDue,
                 told>>

(* network_loop: create_connection                                          *)
Connect ==
  /\ client = 0 /\ reader = 0 /\ made < MaxConn
  /\ made' = made + 1 /\ client' = made + 1 /\ reader' = made + 1
  /\ UNCHANGED <<accepted, server, cut, queues, clockDue, cmdDue, told>>

(* network_loop: recv_frame and handle_command                              *)
ClientRecv ==
  /\ reader # 0 /\ client = reader /\ down[reader] # <<>>
  /\ down' = [down EXCEPT ![reader] = Tail(@)]
  /\ UNCHANGED <<made, ends, cut, up, clockDue, cmdDue, told>>

(* Mutant of ClientFail: the network thread ends its loop only.             *)
ClientFailKeeps ==
  /\ reader # 0 /\ (reader \in cut \/ client = 0)
  /\ reader' = 0
  /\ down' = [down EXCEPT ![reader] = <<>>]
  /\ UNCHANGED <<made, client, accepted, server, cut, up, clockDue, cmdDue,
                 told>>

(* network_loop: the error ends the connection.                             *)
ClientFail ==
  /\ reader # 0 /\ (reader \in cut \/ client = 0)
  /\ reader' = 0 /\ client' = 0
  /\ down' = [down EXCEPT ![reader] = <<>>]
  /\ UNCHANGED <<made, accepted, server, cut, up, clockDue, cmdDue, told>>

-----------------------------------------------------------------------------
(* The ROS1 gateway *)

(* server_loop: accept                                                      *)
Accept ==
  /\ server = 0 /\ accepted < made
  /\ accepted' = accepted + 1 /\ server' = accepted + 1
  /\ UNCHANGED <<made, client, reader, cut, queues, clockDue, cmdDue, told>>

(* handle_connection: handle_clock, handle_execution_blocked                *)
ServerRecv ==
  /\ server # 0 /\ up[server] # <<>>
  /\ up' = [up EXCEPT ![server] = Tail(@)]
  /\ \/ Head(up[server]) = "clock" /\ cmdDue' = TRUE /\ UNCHANGED told
     \/ /\ Head(up[server]) \in Reports
        /\ told' = Head(up[server]) /\ UNCHANGED cmdDue
  /\ UNCHANGED <<made, ends, cut, down, clockDue>>

(* server_loop: the error ends the connection.                              *)
ServerFail ==
  /\ server \in cut
  /\ server' = 0
  /\ up' = [up EXCEPT ![server] = <<>>]
  /\ UNCHANGED <<made, client, reader, accepted, cut, down, clockDue, cmdDue,
                 told>>

(* on_command: a setpoint of the trajectory server.  An error is logged and  *)
(* nothing else.                                                             *)
OnCommand ==
  /\ cmdDue /\ cmdDue' = FALSE
  /\ \/ server \in cut \cup {0} /\ UNCHANGED down
     \/ /\ server \notin cut \cup {0} /\ Len(down[server]) < MaxQueue
        /\ down' = [down EXCEPT ![server] = Append(@, "setpoint")]
  /\ UNCHANGED <<made, ends, cut, up, clockDue, told>>

-----------------------------------------------------------------------------
(* Faults; a connection can always be made afterwards.                      *)

Break(c) ==
  /\ made < MaxConn /\ c \in 1 .. made /\ c \notin cut
  /\ cut' = cut \cup {c}
  /\ UNCHANGED <<made, ends, queues, clockDue, cmdDue, told>>

RestartRos1 ==
  /\ made < MaxConn
  /\ cut' = 1 .. made
  /\ server' = 0 /\ accepted' = made
  /\ up' = [c \in Conn |-> <<>>]
  /\ UNCHANGED <<made, client, reader, down, clockDue, cmdDue, told>>

RestartRos2 ==
  /\ made < MaxConn
  /\ cut' = 1 .. made
  /\ client' = 0 /\ reader' = 0
  /\ down' = [c \in Conn |-> <<>>]
  /\ UNCHANGED <<made, accepted, server, up, clockDue, cmdDue, told>>

Fault == RestartRos1 \/ RestartRos2 \/ \E c \in Conn : Break(c)
=============================================================================
