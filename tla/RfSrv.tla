------------------------------- MODULE RfSrv -------------------------------
(***************************************************************************)
(* The servers of the Raft tests, which read what a Raft peer applies and  *)
(* compare it with what the others have applied: src/src/raft1/server.go,  *)
(* with mksrv, checkLogs and nCommitted of src/src/raft1/test.go.          *)
(*                                                                         *)
(* The Raft that is tested is behind raftapi.Raft and is external: honest, *)
(* it applies one committed log in order, at a restart from its snapshot   *)
(* on; otherwise it applies any command.  It sends nothing more once it is *)
(* killed.  The applier of an instance takes a message from the channel    *)
(* and processes it later, and goes on to do so when the instance has been *)
(* killed and replaced.  Index 0 of the logs, always nil, is left out.     *)
(***************************************************************************)
EXTENDS Naturals, Sequences, FiniteSets

CONSTANTS
    Servers,
    Cmds,               \* the commands that are committed
    None,               \* no message, and no entry
    SnapShotInterval,
    MaxIndex,           \* bound: the length of the committed log
    MaxStarts           \* bound: the rfsrvs that are made

ASSUME NoneAssumption  == None \notin Cmds
ASSUME BoundAssumption == {SnapShotInterval, MaxIndex, MaxStarts} \subseteq Nat \ {0}
ASSUME StartAssumption == IsFiniteSet(Servers) /\ Cardinality(Servers) <= MaxStarts

VARIABLES
    honest,         \* whether the Raft under test is correct
    snapshot,       \* ts.snapshot
    log,            \* what an honest Raft has committed
    stage,          \* how far StartServer is for each server
    inst,           \* the newest rfsrv of each server
    srvs,           \* ts.srvs: the rfsrv that the test knows of
    logs,           \* rs.logs of every rfsrv
    lastApplied,    \* rs.lastApplied
    sent,           \* the last index that an honest Raft of the instance has put on applyCh
    inbox,          \* the message that the instance's applier has received
    saved,          \* the snapshot in the server's Persister
    failed,         \* "no", or who has stopped the test: a "live" or a "stale" rfsrv
    rewound         \* history: a snapshot older than its own has been put into a server

raftVars == <<honest, snapshot, log>>
vars == <<raftVars, stage, inst, srvs, logs, lastApplied, sent, inbox, saved, failed, rewound>>

Insts   == 1..(MaxStarts - Cardinality(Servers) + 1)
Index   == 1..MaxIndex
Objects == Servers \X Insts
Made    == {o \in Objects : o[2] <= inst[o[1]]}
NoLog   == [j \in Index |-> None]
NoSnap  == [index |-> 0, xlog |-> NoLog]

Command(j, v)     == [kind |-> "command", index |-> j, cmd |-> v, snap |-> NoSnap]
SnapshotMsg(j, s) == [kind |-> "snapshot", index |-> j, cmd |-> None, snap |-> s]
NoMsg             == [kind |-> "none", index |-> 0, cmd |-> None, snap |-> NoSnap]

\* rs.raft is not nil.
Live(i, k) == k = inst[i] /\ stage[i] # "down"

-----------------------------------------------------------------------------
(* checkLogs and the appliers *)

\* Mutant: only the server's own earlier entry is compared.
ConflictsOwn(i, m) == {j \in {i} : logs[<<j, srvs[j]>>][m.index] \notin {None, m.cmd}}

\* checkLogs: the servers that have committed another value for m's index.
Conflicts(i, m) == {j \in Servers : logs[<<j, srvs[j]>>][m.index] \notin {None, m.cmd}}

\* checkLogs: whether the rfsrv that the test knows of has the entry before m's.
PrevOk(i, m) == m.index = 1 \/ logs[<<i, srvs[i]>>][m.index - 1] # None

\* checkLogs records m in the rfsrv that the test knows of.
Recorded(i, m) == [logs EXCEPT ![<<i, srvs[i]>>][m.index] = m.cmd]

\* Mutant: an entry without its predecessor is accepted.
ApplyErrorUnordered(i, m) == Conflicts(i, m) # {}

\* The two errors of an applier about a command.
ApplyError(i, m) == Conflicts(i, m) # {} \/ ~PrevOk(i, m)

Stop(i, k, error) == failed' = IF ~error THEN "no" ELSE IF Live(i, k) THEN "live" ELSE "stale"

Taken(i, k) == inbox[<<i, k>>] # NoMsg /\ inbox' = [inbox EXCEPT ![<<i, k>>] = NoMsg]

\* applier
Apply(i, k) ==
    LET m == inbox[<<i, k>>] IN
    /\ ~snapshot /\ Taken(i, k)
    /\ logs' = Recorded(i, m)
    /\ Stop(i, k, ApplyError(i, m))
    /\ UNCHANGED <<raftVars, stage, inst, srvs, lastApplied, sent, saved, rewound>>

\* applierSnap, a command that is not the next one.
ApplyGap(i, k) ==
    /\ snapshot /\ Taken(i, k)
    /\ inbox[<<i, k>>].kind = "command" /\ inbox[<<i, k>>].index # lastApplied[<<i, k>>] + 1
    /\ Stop(i, k, TRUE)
    /\ UNCHANGED <<raftVars, stage, inst, srvs, logs, lastApplied, sent, saved, rewound>>

\* Mutant: the snapshot is made before the command is recorded.
XlogBefore(i, k, m) == [j \in Index |-> IF j <= m.index THEN logs[<<i, k>>][j] ELSE None]

\* The entries that applierSnap puts into a snapshot: those of its own rfsrv.
Xlog(i, k, m) == [j \in Index |-> IF j <= m.index THEN Recorded(i, m)[<<i, k>>][j] ELSE None]

\* applierSnap, the next command: check it, record it, and make a snapshot every
\* SnapShotInterval entries.  Kill has set rs.raft to nil, so that rs.raft.Snapshot
\* in a killed rfsrv is a nil dereference.
ApplyNext(i, k) ==
    LET m    == inbox[<<i, k>>]
        full == (m.index + 1) % SnapShotInterval = 0
    IN
    /\ snapshot /\ Taken(i, k)
    /\ m.kind = "command" /\ m.index = lastApplied[<<i, k>>] + 1
    /\ logs' = Recorded(i, m)
    /\ lastApplied' = [lastApplied EXCEPT ![<<i, k>>] = m.index]
    /\ saved' = IF full /\ Live(i, k)
                THEN [saved EXCEPT ![i] = [index |-> m.index, xlog |-> Xlog(i, k, m)]]
                ELSE saved
    /\ Stop(i, k, ApplyError(i, m) \/ (full /\ ~Live(i, k)))
    /\ UNCHANGED <<raftVars, stage, inst, srvs, sent, rewound>>

\* ingestSnap, for a snapshot from applyCh: its index must be the one in the message, and
\* nothing is compared with what the rfsrv or the others have.
IngestSnap(i, k) ==
    LET m == inbox[<<i, k>>] IN
    /\ snapshot /\ Taken(i, k)
    /\ m.kind = "snapshot"
    /\ IF m.index = m.snap.index
       THEN /\ logs' = [logs EXCEPT ![<<i, k>>] = m.snap.xlog]
            /\ lastApplied' = [lastApplied EXCEPT ![<<i, k>>] = m.snap.index]
            /\ rewound' = (rewound \/ (k = srvs[i] /\ m.snap.index < saved[i].index))
       ELSE UNCHANGED <<logs, lastApplied, rewound>>
    /\ Stop(i, k, m.index # m.snap.index)
    /\ UNCHANGED <<raftVars, stage, inst, srvs, sent, saved>>

-----------------------------------------------------------------------------
(* Starting and stopping servers *)

Starting == {i \in Servers : stage[i] \in {"made", "published"}}

\* newRfsrv: the new instance has the logs of the server's snapshot, and Raft goes on
\* from there; without snapshots, both start with nothing.
NewRfsrv(i) ==
    LET s == IF snapshot THEN saved[i] ELSE NoSnap IN
    /\ stage[i] = "down" /\ Starting = {} /\ Cardinality(Made) < MaxStarts
    /\ stage' = [stage EXCEPT ![i] = "made"]
    /\ inst' = [inst EXCEPT ![i] = @ + 1]
    /\ logs' = [logs EXCEPT ![<<i, inst[i] + 1>>] = s.xlog]
    /\ lastApplied' = [lastApplied EXCEPT ![<<i, inst[i] + 1>>] = s.index]
    /\ sent' = [sent EXCEPT ![<<i, inst[i] + 1>>] = s.index]
    /\ UNCHANGED <<raftVars, srvs, inbox, saved, failed, rewound>>

\* Mutant: after a restart the test still knows of the old rfsrv.
MkSrvForgets(i) ==
    /\ stage[i] = "made"
    /\ stage' = [stage EXCEPT ![i] = "published"]
    /\ UNCHANGED <<raftVars, inst, srvs, logs, lastApplied, sent, inbox, saved, failed, rewound>>

\* mksrv stores what newRfsrv returned; its applier has been running.
MkSrv(i) ==
    /\ stage[i] = "made"
    /\ stage' = [stage EXCEPT ![i] = "published"]
    /\ srvs' = [srvs EXCEPT ![i] = inst[i]]
    /\ UNCHANGED <<raftVars, inst, logs, lastApplied, sent, inbox, saved, failed, rewound>>

\* StartServer adds the server to the network when mksrv has returned.
AddServer(i) ==
    /\ stage[i] = "published"
    /\ stage' = [stage EXCEPT ![i] = "up"]
    /\ UNCHANGED <<raftVars, inst, srvs, logs, lastApplied, sent, inbox, saved, failed, rewound>>

\* ShutdownServer, with rfsrv.Kill and the Kill of Raft.  What rfsrv.Kill saves goes to
\* the Persister that shutdownServer has replaced before.
Kill(i) ==
    /\ stage[i] = "up" /\ Starting = {}
    /\ stage' = [stage EXCEPT ![i] = "down"]
    /\ UNCHANGED <<raftVars, inst, srvs, logs, lastApplied, sent, inbox, saved, failed, rewound>>

-----------------------------------------------------------------------------
(* The Raft under test *)

Commit ==
    /\ honest /\ Len(log) < MaxIndex
    /\ \E v \in Cmds : log' = Append(log, v)
    /\ UNCHANGED <<honest, snapshot, stage, inst, srvs, logs, lastApplied, sent, inbox, saved,
                   failed, rewound>>

\* A new Raft object learns what is committed from the others: it has to be in the
\* network.
Reachable(i) == stage[i] = "up"

\* What Raft may put on applyCh next.  A wrong Raft sends any commands, and the snapshot of
\* any server at any index, however old; a nil snapshot is an error at every index.
Messages(i, k) ==
    LET next  == sent[<<i, k>>] + 1
        snaps == {s \in {saved[j] : j \in Servers} : snapshot}
    IN  IF honest
        THEN {Command(j, log[j]) : j \in {next} \cap DOMAIN log} \cup
             {SnapshotMsg(s.index, s) : s \in {t \in snaps : t.index >= next}}
        ELSE {Command(j, v) : j \in Index, v \in Cmds} \cup
             {SnapshotMsg(j, s) : j \in Index, s \in snaps}

\* The applier of a live instance receives a message.
Receive(i, k) ==
    /\ Live(i, k) /\ Reachable(i)
    /\ inbox[<<i, k>>] = NoMsg
    /\ \E m \in Messages(i, k) :
          /\ inbox' = [inbox EXCEPT ![<<i, k>>] = m]
          /\ sent' = IF honest THEN [sent EXCEPT ![<<i, k>>] = m.index] ELSE sent
    /\ UNCHANGED <<raftVars, stage, inst, srvs, logs, lastApplied, saved, failed, rewound>>

-----------------------------------------------------------------------------
\* MakeConfig has started all servers.
Init ==
    /\ honest \in BOOLEAN
    /\ snapshot \in BOOLEAN
    /\ log = <<>>
    /\ stage = [i \in Servers |-> "up"]
    /\ inst = [i \in Servers |-> 1]
    /\ srvs = [i \in Servers |-> 1]
    /\ logs = [o \in Objects |-> NoLog]
    /\ lastApplied = [o \in Objects |-> 0]
    /\ sent = [o \in Objects |-> 0]
    /\ inbox = [o \in Objects |-> NoMsg]
    /\ saved = [i \in Servers |-> NoSnap]
    /\ failed = "no"
    /\ rewound = FALSE

\* The test's process exits with the first error.
Next ==
    /\ failed = "no"
    /\ \/ Commit
       \/ \E i \in Servers : NewRfsrv(i) \/ MkSrv(i) \/ AddServer(i) \/ Kill(i)
       \/ \E i \in Servers, k \in Insts :
             \/ Receive(i, k)
             \/ Apply(i, k) \/ ApplyGap(i, k) \/ ApplyNext(i, k) \/ IngestSnap(i, k)

Spec == Init /\ [][Next]_vars

-----------------------------------------------------------------------------
(* Properties *)

\* nCommitted: the values that the servers the test knows of have for an index.
NCommitted(j) == {logs[<<i, srvs[i]>>][j] : i \in Servers} \ {None}

\* "indirectly checks that the servers agree on the same value, since nCommitted() checks
\* this, as do the threads that read from applyCh" (test.go): as long as no error has been
\* reported, no two servers of the test have different values for an index, over restarts
\* and snapshots, unless Raft has put a snapshot into a server that is older than the one
\* the server had made.  The threads do not check a snapshot, and when the server comes
\* back from the newer one, nobody compares what the others have applied meanwhile.
DisagreementReported ==
    failed = "no" /\ ~rewound => \A j \in Index : Cardinality(NCommitted(j)) <= 1

\* As long as no error has been reported, no server of the test has an entry without all
\* the entries before it.
GapsReported ==
    failed = "no" =>
        \A i \in Servers, j \in Index :
            logs[<<i, srvs[i]>>][j] # None => \A h \in 1..j : logs[<<i, srvs[i]>>][h] # None

\* No running server is ever blamed with a correct Raft: the test knows of a new rfsrv
\* before its applier gets anything to record.
LiveNeverBlamed == honest => failed # "live"

\* With a correct Raft, a snapshot holds exactly the committed commands up to its index.
SnapshotsComplete ==
    honest => \A i \in Servers, j \in Index :
        saved[i].xlog[j] = IF j <= saved[i].index THEN log[j] ELSE None
=============================================================================
