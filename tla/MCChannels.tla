----------------------------- MODULE MCChannels -----------------------------
(* The way of a command: the queue of an IPC thread, then the pipes of its *)
(* worker.  The two share no state, so that a behaviour needs to use but   *)
(* one of them, and leaves the other as it was created.                    *)
EXTENDS MsgQueue, Framing

CONSTANTS scan1, scan2, stop, batch, finish, beat

ScriptOf ==
  [ipc |-> <<scan1, scan2>>, master |-> <<stop>>,
   main |-> <<beat>>, scanner |-> <<batch, finish>>]

PipeIs == [m \in Messages |->
             CASE m \in {scan1, scan2, stop} -> "cmd" [] m = batch -> "data" [] OTHER -> "ctrl"]

\* Two cells of header; only a batch is larger than PIPE_BUF.
SizeIs == [m \in Messages |->
             CASE m \in {stop, beat} -> 2 [] m = batch -> 5 [] OTHER -> 3]

-----------------------------------------------------------------------------
both == <<queueVars, vars>>

BothInit == QueueInit /\ Init

\* As they were created.
QueueUntouched == accepted = <<>> /\ ipcPc = "top"
PipesUntouched ==
  todo = Script /\ written = [t \in Threads |-> 0] /\ up /\ serving /\ drain = NoDrain

InQueue(Step) == Step /\ PipesUntouched /\ UNCHANGED vars
InPipes(Step) == Step /\ QueueUntouched /\ UNCHANGED queueVars

\* The fairness of the two, as QueueFairness and Fairness have it.
BothFair ==
  /\ \A t \in Senders : WF_both(InQueue(Notify(t)))
  /\ WF_both(InQueue(IpcStep))
  /\ \A t \in Threads : WF_both(InPipes(Send(t) \/ GiveUpSend(t)))
  /\ \A t \in Readers : WF_both(InPipes(Receive(t) \/ GiveUpReceive(t)))

ChannelsSpec ==
  /\ BothInit /\ [][InQueue(QueueNext) \/ InPipes(Next)]_both
  /\ BothFair
=============================================================================
