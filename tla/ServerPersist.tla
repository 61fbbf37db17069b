--------------------------- MODULE ServerPersist ---------------------------
(***************************************************************************)
(* Labrpc with servers that persist what they acknowledge: the life of a   *)
(* server in src/src/tester1/group.go and srv.go, and its Persisters.      *)
(*                                                                         *)
(* A handler saves its update in the Persister that its server was started *)
(* with and then returns.  ShutdownServer and StartServer run in the       *)
(* tester's goroutine while processReq goroutines and handlers go on, so   *)
(* each call they make on the network or on a Persister is a step.         *)
(***************************************************************************)
EXTENDS Labrpc

VARIABLES
    phase,      \* where the tester is in a server's life
    heap,       \* the content of every Persister: the updates saved in it
    saved,      \* Server.saved: the Persister the tester keeps for a name
    holds,      \* the Persister that a started server writes to
    copies      \* the number of Persisters made so far

persistVars == <<phase, heap, saved, holds, copies>>

\* Each server takes one Persister to start and one to shut down.
Persisters == 1..2 * MaxServers

InitP ==
    /\ Init
    /\ phase = [s \in Names |-> "down"]
    /\ heap = [p \in Persisters |-> {}]
    /\ saved = [s \in Names |-> Nil]
    /\ holds = [o \in Objects |-> Nil]
    /\ copies = 0

Content(s) == IF saved[s] = Nil THEN {} ELSE heap[saved[s]]

\* MakePersister, or Copy of s.saved: a fresh Persister with the same content.
FreshCopy(s) ==
    /\ copies < 2 * MaxServers
    /\ copies' = copies + 1
    /\ heap' = [heap EXCEPT ![copies + 1] = Content(s)]
    /\ saved' = [saved EXCEPT ![s] = copies + 1]

\* StartServer up to AddServer: startServer copies the Persister, mks starts the
\* services with the copy.
StartServer(s) ==
    /\ phase[s] = "down" /\ made < MaxServers
    /\ phase' = [phase EXCEPT ![s] = "starting"]
    /\ FreshCopy(s)
    /\ UNCHANGED <<vars, holds>>

\* The end of StartServer.
RegisterServer(s) ==
    /\ phase[s] = "starting"
    /\ AddServer(s)
    /\ phase' = [phase EXCEPT ![s] = "up"]
    /\ holds' = [holds EXCEPT ![made + 1] = saved[s]]
    /\ UNCHANGED <<heap, saved, copies>>

\* ShutdownServer up to shutdownServer.  The peers' ends it disables first are
\* among the ends that Enable may disable at any time.
UnregisterServer(s) ==
    /\ phase[s] = "up"
    /\ DeleteServer(s)
    /\ phase' = [phase EXCEPT ![s] = "stopping"]
    /\ UNCHANGED <<heap, saved, holds, copies>>

\* Mutant: shutdownServer keeps the Persister that the old services write to.
ShutdownServerNoCopy(s) ==
    /\ phase[s] = "stopping"
    /\ phase' = [phase EXCEPT ![s] = "down"]
    /\ UNCHANGED <<vars, heap, saved, holds, copies>>

\* shutdownServer.  Kill() only asks the services to stop: their handlers go on.
ShutdownServer(s) ==
    /\ phase[s] = "stopping"
    /\ phase' = [phase EXCEPT ![s] = "down"]
    /\ FreshCopy(s)
    /\ UNCHANGED <<vars, holds>>

\* A handler saves its update and returns.
HandleAndSave(c) ==
    /\ Handle(c)
    /\ heap' = [heap EXCEPT ![holds[req[c].server]] = @ \cup {c}]
    /\ UNCHANGED <<phase, saved, holds, copies>>

NextP ==
    \/ Configure /\ UNCHANGED persistVars
    \/ \E s \in Names : \/ StartServer(s) \/ RegisterServer(s)
                        \/ UnregisterServer(s) \/ ShutdownServer(s)
    \/ LoopExits /\ UNCHANGED persistVars
    \/ \E c \in Calls : \/ (\E e \in Ends : Call(c, e)) /\ UNCHANGED persistVars
                        \/ CallStep(c) /\ UNCHANGED persistVars
                        \/ HandleAndSave(c)

SpecP == InitP /\ [][NextP]_<<vars, persistVars>>

-----------------------------------------------------------------------------
(* Properties *)

\* An update whose caller got (or will get, its reply being delayed) a positive reply
\* is in the Persister from which the server's next instance starts: what the second
\* isServerDead in processReq, and DeleteServer before the copy in ShutdownServer,
\* are for.
AcknowledgedSurvives ==
    \A c \in Calls : pc[c] \in {"true", "delayed"} => c \in Content(req[c].name)

\* While a server is down, what its next instance will start from does not change,
\* although handlers of the old instance still run and save.
FrozenWhileDown ==
    [][\A s \in Names : phase[s] = "down" /\ phase'[s] = "down"
                          => Content(s)' = Content(s)]_<<vars, persistVars>>
=============================================================================
