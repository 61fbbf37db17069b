---------------------------- MODULE RfSrvProofs ----------------------------
(***************************************************************************)
(* What the checks of the Raft tests guarantee for every number of         *)
(* servers, commands, restarts and log entries: an incorrect Raft is       *)
(* reported before two servers disagree, as long as it has taken no server *)
(* back to an old snapshot, and a correct one is never blamed.             *)
(***************************************************************************)
EXTENDS RfSrv, FiniteSetTheorems, TLAPS

Entries == [Index -> Cmds \cup {None}]
Snaps   == [index: 0..MaxIndex, xlog: Entries]
Msgs    == [kind: {"none", "command", "snapshot"}, index: 0..MaxIndex,
            cmd: Cmds \cup {None}, snap: Snaps]

TypeOK ==
    /\ honest \in BOOLEAN /\ snapshot \in BOOLEAN
    /\ log \in Seq(Cmds) /\ Len(log) <= MaxIndex
    /\ stage \in [Servers -> {"down", "made", "published", "up"}]
    /\ inst \in [Servers -> Insts] /\ srvs \in [Servers -> Insts]
    /\ logs \in [Objects -> Entries]
    /\ lastApplied \in [Objects -> 0..MaxIndex] /\ sent \in [Objects -> 0..MaxIndex]
    /\ inbox \in [Objects -> Msgs]
    /\ \A o \in Objects :
          /\ inbox[o].kind = "none" => inbox[o] = NoMsg
          /\ inbox[o].kind = "command" => inbox[o].index \in Index /\ inbox[o].cmd \in Cmds
    /\ saved \in [Servers -> Snaps]
    /\ failed \in {"no", "live", "stale"} /\ rewound \in BOOLEAN

\* The log of the rfsrv that the test knows of.
Cur(i) == logs[<<i, srvs[i]>>]

\* Entries 1 to n are there; s has exactly the entries up to its index; g has the entries of f.
Full(f, n)   == \A x \in 1..n : f[x] # None
Complete(s)  == \A x \in Index : s.xlog[x] # None <=> x <= s.index
Within(f, g) == \A x \in Index : f[x] # None => g[x] = f[x]

\* The test lags behind newRfsrv only until mksrv returns, and until then, and until the
\* server is in the network, the new instance has nothing to apply.
Staged ==
    \A i \in Servers :
        /\ srvs[i] = IF stage[i] = "made" THEN inst[i] - 1 ELSE inst[i]
        /\ stage[i] \in {"made", "published"} => inbox[<<i, inst[i]>>] = NoMsg
        /\ \A k \in Insts : k > inst[i] => inbox[<<i, k>>] = NoMsg

\* A snapshot has all entries up to its index, and a new instance starts from it.
Snapshots ==
    \A i \in Servers :
        /\ Complete(saved[i])
        /\ ~snapshot => saved[i] = NoSnap
        /\ stage[i] = "made" => /\ logs[<<i, inst[i]>>] = saved[i].xlog
                                /\ lastApplied[<<i, inst[i]>>] = saved[i].index

\* Until a server has been taken back, its log goes beyond its snapshot and agrees with it.
Ahead ==
    ~rewound => \A i \in Servers :
                    /\ Within(saved[i].xlog, Cur(i))
                    /\ saved[i].index <= lastApplied[<<i, srvs[i]>>]

\* Until a server has been taken back, some server has kept all that is in a snapshot on
\* its way.
InFlight ==
    \A o \in Objects : inbox[o].kind = "snapshot" =>
        /\ snapshot /\ Complete(inbox[o].snap)
        /\ ~rewound => \E j \in Servers : Within(inbox[o].snap.xlog, saved[j].xlog)

\* Until a server has been taken back, the servers agree on every entry that they have.
Agree  == ~rewound => \A i, j \in Servers, x \in Index :
                          Cur(i)[x] = None \/ Cur(j)[x] \in {None, Cur(i)[x]}

\* A server has all entries before each that it has.
Prefix == \A i \in Servers, x \in Index : Cur(i)[x] # None => Full(Cur(i), x)

\* An rfsrv has what it counts as applied.
Applied == \A i \in Servers : Full(Cur(i), lastApplied[<<i, srvs[i]>>])

\* Every entry has been committed.
Committed(f) == \A x \in Index : f[x] # None => x <= Len(log) /\ f[x] = log[x]

\* All that a correct Raft sends, and so all that is recorded, has been committed.
HonestLogs ==
    honest =>
        /\ \A o \in Objects : Committed(logs[o])
        /\ \A i \in Servers : Committed(saved[i].xlog)
        /\ \A o \in Objects :
              /\ inbox[o].kind = "command" =>
                    inbox[o].index <= Len(log) /\ inbox[o].cmd = log[inbox[o].index]
              /\ inbox[o].kind = "snapshot" =>
                    inbox[o].index = inbox[o].snap.index /\ Committed(inbox[o].snap.xlog)

\* A live instance has applied all that its correct Raft has sent, but for the message that
\* its applier holds, which is the next one.
HonestNext ==
    honest =>
        \A i \in Servers : stage[i] # "down" =>
            LET o == <<i, inst[i]>> IN
            /\ inbox[o] = NoMsg =>
                  Full(logs[o], sent[o]) /\ (snapshot => lastApplied[o] = sent[o])
            /\ inbox[o].kind = "command" =>
                  /\ inbox[o].index = sent[o] /\ Full(logs[o], sent[o] - 1)
                  /\ snapshot => lastApplied[o] = sent[o] - 1
            /\ inbox[o].kind = "snapshot" => inbox[o].index = sent[o]

Running == /\ Staged /\ Snapshots /\ Ahead /\ InFlight /\ Agree /\ Prefix /\ Applied
           /\ HonestLogs /\ HonestNext

\* The inductive invariant.
Inv == /\ TypeOK /\ LiveNeverBlamed /\ SnapshotsComplete
       /\ failed = "no" => Running

USE DEF raftVars

-----------------------------------------------------------------------------
(* The operators *)

\* The bounds are numbers, and every server can be started once.
LEMMA Bounds ==
  /\ MaxIndex \in Nat /\ MaxStarts \in Nat /\ Cardinality(Servers) \in Nat
  /\ \A k \in Insts : k \in Nat /\ k >= 1
  /\ 1 \in Insts
  /\ \A i \in Servers, k \in Insts : <<i, k>> \in Objects
  /\ \A o \in Objects : \E i \in Servers, k \in Insts : o = <<i, k>>
<1>1. MaxIndex \in Nat /\ MaxStarts \in Nat
  BY BoundAssumption
<1>2. Cardinality(Servers) \in Nat /\ Cardinality(Servers) <= MaxStarts
  BY StartAssumption, FS_CardinalityType
<1>3. (\A k \in Insts : k \in Nat /\ k >= 1) /\ 1 \in Insts
  BY <1>1, <1>2 DEF Insts
<1>4. ASSUME NEW o \in Objects PROVE \E i \in Servers, k \in Insts : o = <<i, k>>
  <2>1. o[1] \in Servers /\ o[2] \in Insts /\ o = <<o[1], o[2]>>
    BY DEF Objects
  <2> QED BY <2>1
<1>5. \A i \in Servers, k \in Insts : <<i, k>> \in Objects
  BY DEF Objects
<1> QED BY <1>1, <1>2, <1>3, <1>4, <1>5

\* The messages and snapshots that stand for nothing.
LEMMA Nothing ==
  /\ NoLog \in Entries /\ NoSnap \in Snaps /\ NoMsg \in Msgs
  /\ NoMsg.kind = "none" /\ NoSnap.index = 0 /\ NoSnap.xlog = NoLog
  /\ \A x \in Index : NoLog[x] = None
<1>1. NoLog \in Entries /\ \A x \in Index : NoLog[x] = None
  BY DEF NoLog, Entries
<1>2. NoSnap \in Snaps /\ NoSnap.index = 0 /\ NoSnap.xlog = NoLog
  BY <1>1, Bounds DEF NoSnap, Snaps
<1>3. NoMsg \in Msgs /\ NoMsg.kind = "none"
  BY <1>2, Bounds DEF NoMsg, Msgs
<1> QED BY <1>1, <1>2, <1>3

\* A log has no entry to miss before the first, and a complete snapshot misses none.
LEMMA FullFacts ==
  /\ \A f : Full(f, 0)
  /\ \A s \in Snaps : Complete(s) => /\ Full(s.xlog, s.index)
                                     /\ \A x \in Index : s.xlog[x] # None => Full(s.xlog, x)
<1>1. ASSUME NEW f PROVE Full(f, 0)
  BY DEF Full
<1>2. ASSUME NEW s \in Snaps, Complete(s), NEW n \in Nat, n <= s.index
      PROVE  Full(s.xlog, n)
  <2>1. s.index \in 0..MaxIndex
    BY DEF Snaps
  <2>2. \A x \in 1..n : x \in Index /\ x <= s.index
    BY <1>2, <2>1, Bounds DEF Index
  <2> QED BY <1>2, <2>2 DEF Complete, Full
<1>3. ASSUME NEW s \in Snaps PROVE s.index \in Nat
  BY Bounds DEF Snaps
<1>4. \A x \in Index : x \in Nat
  BY DEF Index
<1> QED BY <1>1, <1>2, <1>3, <1>4 DEF Complete

\* While fewer than MaxStarts rfsrvs have been made, every server can be started again: the
\* others have been started once at least.
LEMMA RoomForInstance ==
  ASSUME inst \in [Servers -> Insts], NEW i \in Servers, Cardinality(Made) < MaxStarts
  PROVE  inst[i] + 1 \in Insts
<1> DEFINE A == {i} \X (1..inst[i])
           B == (Servers \ {i}) \X {1}
<1>1. inst[i] \in Nat /\ inst[i] >= 1
  BY Bounds
<1>2. IsFiniteSet(1..inst[i]) /\ Cardinality(1..inst[i]) = inst[i]
  <2>1. \A b \in Int : /\ IsFiniteSet(1..b)
                      /\ Cardinality(1..b) = IF 1 > b THEN 0 ELSE b - 1 + 1
    BY FS_Interval
  <2> QED BY <1>1, <2>1
<1>3. IsFiniteSet({i}) /\ Cardinality({i}) = 1 /\ IsFiniteSet({1}) /\ Cardinality({1}) = 1
  BY FS_Singleton
<1>4. IsFiniteSet(A) /\ Cardinality(A) = inst[i]
  <2>1. IsFiniteSet(A) /\ Cardinality(A) = Cardinality({i}) * Cardinality(1..inst[i])
    BY <1>2, <1>3, FS_Product
  <2> QED BY <1>1, <1>2, <1>3, <2>1
<1>5. IsFiniteSet(Servers \ {i}) /\ Cardinality(Servers \ {i}) = Cardinality(Servers) - 1
  BY StartAssumption, FS_RemoveElement
<1>6. IsFiniteSet(B) /\ Cardinality(B) = Cardinality(Servers) - 1
  <2>1. IsFiniteSet(B) /\ Cardinality(B) = Cardinality(Servers \ {i}) * Cardinality({1})
    BY <1>3, <1>5, FS_Product
  <2> QED BY <1>3, <1>5, <2>1, Bounds
<1>7. IsFiniteSet(A \cup B) /\ Cardinality(A \cup B) = inst[i] + (Cardinality(Servers) - 1)
  <2>1. A \cap B = {}
    OBVIOUS
  <2>2. /\ IsFiniteSet(A \cup B)
        /\ Cardinality(A \cup B) = Cardinality(A) + Cardinality(B) - Cardinality(A \cap B)
    BY <1>4, <1>6, FS_Union
  <2>3. Cardinality(A \cap B) = 0
    BY <2>1, FS_EmptySet
  <2> HIDE DEF A, B
  <2> QED BY <1>1, <1>4, <1>6, <2>2, <2>3, Bounds
<1>8. A \cup B \subseteq Made
  BY <1>1, Bounds DEF Made, Objects, Insts
<1>9. IsFiniteSet(Made)
  <2>1. IsFiniteSet(Insts)
    BY FS_Interval, Bounds DEF Insts
  <2>2. IsFiniteSet(Objects)
    BY <2>1, StartAssumption, FS_Product DEF Objects
  <2> QED BY <2>2, FS_Subset DEF Made
<1>10. Cardinality(A \cup B) <= Cardinality(Made)
  BY <1>8, <1>9, FS_Subset
<1>11. Cardinality(Made) \in Nat
  BY <1>9, FS_CardinalityType
<1> HIDE DEF A, B
<1> QED BY <1>1, <1>7, <1>10, <1>11, Bounds DEF Insts

\* The log that a command is recorded in, and what that leaves alone.
LEMMA RecordedFacts ==
  ASSUME TypeOK, NEW i \in Servers, NEW m, m.index \in Index, m.cmd \in Cmds
  PROVE  /\ Recorded(i, m) \in [Objects -> Entries]
         /\ \A o \in Objects : o # <<i, srvs[i]>> => Recorded(i, m)[o] = logs[o]
         /\ \A x \in Index : Recorded(i, m)[<<i, srvs[i]>>][x] =
                                IF x = m.index THEN m.cmd ELSE logs[<<i, srvs[i]>>][x]
<1>1. <<i, srvs[i]>> \in Objects
  BY Bounds DEF TypeOK
<1>2. logs[<<i, srvs[i]>>] \in Entries /\ logs \in [Objects -> Entries]
  BY <1>1 DEF TypeOK
<1> DEFINE f == [logs[<<i, srvs[i]>>] EXCEPT ![m.index] = m.cmd]
<1>3. /\ f \in Entries
      /\ \A x \in Index : f[x] = IF x = m.index THEN m.cmd ELSE logs[<<i, srvs[i]>>][x]
  BY <1>2 DEF Entries
<1>4. Recorded(i, m) = [logs EXCEPT ![<<i, srvs[i]>>] = f]
  BY DEF Recorded
<1> HIDE DEF f
<1> QED BY <1>1, <1>2, <1>3, <1>4

\* A message in an inbox is a command or a snapshot, and its instance has been added to the
\* network; if it is the newest one, the test knows of it.
LEMMA InboxFacts ==
  ASSUME TypeOK, Staged, NEW i \in Servers, NEW k \in Insts, inbox[<<i, k>>] # NoMsg
  PROVE  /\ inbox[<<i, k>>].kind \in {"command", "snapshot"}
         /\ inbox[<<i, k>>].kind = "command" => /\ inbox[<<i, k>>].index \in Index
                                            /\ inbox[<<i, k>>].cmd \in Cmds
         /\ stage[i] = "made" => k # inst[i]
         /\ Live(i, k) => stage[i] = "up" /\ k = inst[i] /\ k = srvs[i]
<1>1. <<i, k>> \in Objects /\ inbox[<<i, k>>] \in Msgs
  BY Bounds DEF TypeOK
<1>2. inbox[<<i, k>>].kind \in {"none", "command", "snapshot"}
  BY <1>1 DEF Msgs
<1> QED BY <1>1, <1>2 DEF TypeOK, Staged, Live

\* With a correct Raft nothing is wrong with a message that a live instance's applier holds.
LEMMA HonestMessage ==
  ASSUME TypeOK, Running, honest, NEW i \in Servers, NEW k \in Insts,
         inbox[<<i, k>>] # NoMsg, Live(i, k)
  PROVE  /\ inbox[<<i, k>>].kind = "command" =>
               /\ ~ApplyError(i, inbox[<<i, k>>])
               /\ snapshot => inbox[<<i, k>>].index = lastApplied[<<i, k>>] + 1
         /\ inbox[<<i, k>>].kind = "snapshot" =>
               inbox[<<i, k>>].index = inbox[<<i, k>>].snap.index
<1> DEFINE m == inbox[<<i, k>>]
<1>1. /\ stage[i] = "up" /\ k = inst[i] /\ k = srvs[i] /\ <<i, k>> \in Objects
      /\ m.kind = "command" => m.index \in Index /\ m.cmd \in Cmds
  BY InboxFacts, Bounds DEF Running
<1>2. CASE m.kind = "command"
  <2>1. Conflicts(i, m) = {}
    <3> SUFFICES ASSUME NEW j \in Servers PROVE logs[<<j, srvs[j]>>][m.index] \in {None, m.cmd}
      BY DEF Conflicts
    <3>1. <<j, srvs[j]>> \in Objects
      BY Bounds DEF TypeOK
    <3> QED BY <1>1, <1>2, <3>1 DEF Running, HonestLogs, Committed
  <2>2. m.index = sent[<<i, k>>] /\ Full(logs[<<i, k>>], sent[<<i, k>>] - 1)
    BY <1>1, <1>2 DEF Running, HonestNext
  <2>3. PrevOk(i, m)
    BY <1>1, <1>2, <2>2, Bounds DEF PrevOk, Full, Index
  <2>4. snapshot => m.index = lastApplied[<<i, k>>] + 1
    <3>1. snapshot => lastApplied[<<i, k>>] = sent[<<i, k>>] - 1
      BY <1>1, <1>2 DEF Running, HonestNext
    <3>2. sent[<<i, k>>] \in Int
      BY <1>1, Bounds DEF TypeOK
    <3> QED BY <2>2, <3>1, <3>2
  <2> QED BY <1>2, <2>1, <2>3, <2>4 DEF ApplyError
<1>3. CASE m.kind = "snapshot"
  BY <1>1, <1>3 DEF Running, HonestLogs
<1> QED BY <1>1, <1>2, <1>3, InboxFacts DEF Running

-----------------------------------------------------------------------------
(* Servers start and stop, and Raft commits and sends *)

\* What the snapshots are, from what is known of the logs.
LEMMA SnapshotsFromRunning ==
  TypeOK /\ Snapshots /\ HonestLogs => SnapshotsComplete
<1> SUFFICES ASSUME TypeOK, Snapshots, HonestLogs, honest, NEW i \in Servers, NEW j \in Index
             PROVE  saved[i].xlog[j] = IF j <= saved[i].index THEN log[j] ELSE None
  BY DEF SnapshotsComplete
<1> QED BY DEF Snapshots, HonestLogs, Complete, Committed

\* Nothing has been applied.
LEMMA InitInv == Init => Inv
<1> SUFFICES ASSUME Init PROVE Inv
  OBVIOUS
<1>1. TypeOK
  <2>1. log \in Seq(Cmds) /\ Len(log) = 0
    BY DEF Init
  <2>2. rewound \in BOOLEAN
    BY DEF Init
  <2> QED BY <2>1, <2>2, Bounds, Nothing DEF Init, TypeOK
<1>2. \A o \in Objects : logs[o] = NoLog /\ lastApplied[o] = 0 /\ sent[o] = 0
                         /\ inbox[o] = NoMsg
  BY DEF Init
<1>3. \A i \in Servers : /\ <<i, srvs[i]>> \in Objects /\ <<i, inst[i]>> \in Objects
                         /\ saved[i] = NoSnap /\ stage[i] = "up" /\ srvs[i] = inst[i]
  BY Bounds DEF Init
<1>4. Staged
  BY <1>2, <1>3, Bounds DEF Staged
<1>5. Snapshots /\ Ahead
  <2>1. Complete(NoSnap) /\ Within(NoSnap.xlog, NoLog)
    BY Nothing DEF Complete, Within, Index
  <2>2. ASSUME NEW i \in Servers
        PROVE  saved[i] = NoSnap /\ Cur(i) = NoLog /\ lastApplied[<<i, srvs[i]>>] = 0
               /\ stage[i] = "up"
    BY <1>2, <1>3 DEF Cur
  <2>3. ASSUME NEW i \in Servers
        PROVE  /\ Complete(saved[i]) /\ Within(saved[i].xlog, Cur(i))
               /\ saved[i].index <= lastApplied[<<i, srvs[i]>>]
    BY <2>1, <2>2, Nothing
  <2> QED BY <2>2, <2>3 DEF Snapshots, Ahead
<1>6. InFlight /\ Agree /\ Prefix
  BY <1>2, <1>3, Nothing DEF InFlight, Agree, Prefix, Cur
<1>7. Applied
  BY <1>2, <1>3, FullFacts DEF Applied, Cur
<1>8. HonestLogs
  BY <1>2, <1>3, Nothing DEF HonestLogs, Committed
<1>9. HonestNext
  BY <1>2, <1>3, Nothing, FullFacts DEF HonestNext
<1>10. SnapshotsComplete
  BY <1>1, <1>5, <1>8, SnapshotsFromRunning
<1> QED BY <1>1, <1>4, <1>5, <1>6, <1>7, <1>8, <1>9, <1>10 DEF Inv, Running, LiveNeverBlamed,
                                                            Init

\* What has been committed stays.
LEMMA CommitInv ==
  ASSUME TypeOK, Running, failed = "no", Commit
  PROVE  TypeOK' /\ Running' /\ failed' = "no"
<1> USE DEF Commit
<1>1. PICK v \in Cmds : log' = Append(log, v)
  OBVIOUS
<1>2. /\ log' \in Seq(Cmds) /\ Len(log') <= MaxIndex /\ Len(log') >= Len(log)
      /\ \A x \in 1..Len(log) : log'[x] = log[x]
  BY <1>1, Bounds DEF TypeOK
<1>3. TypeOK'
  BY <1>2 DEF TypeOK
<1>4. HonestLogs'
  <2> SUFFICES ASSUME honest
               PROVE  /\ \A o \in Objects : Committed(logs[o])'
                      /\ \A i \in Servers : Committed(saved[i].xlog)'
                      /\ \A o \in Objects :
                            /\ inbox[o].kind = "command" =>
                                  /\ inbox[o].index <= Len(log')
                                  /\ inbox[o].cmd = log'[inbox[o].index]
                            /\ inbox[o].kind = "snapshot" =>
                                  /\ inbox[o].index = inbox[o].snap.index
                                  /\ Committed(inbox[o].snap.xlog)'
    BY DEF HonestLogs
  <2>1. \A o \in Objects : Committed(logs[o])'
    BY <1>2 DEF Running, HonestLogs, Committed, Index, TypeOK
  <2>2. \A i \in Servers : Committed(saved[i].xlog)'
    BY <1>2 DEF Running, HonestLogs, Committed, Index, TypeOK
  <2>3. ASSUME NEW o \in Objects, inbox[o].kind = "command"
        PROVE  inbox[o].index <= Len(log') /\ inbox[o].cmd = log'[inbox[o].index]
    <3>1. /\ inbox[o].index <= Len(log) /\ inbox[o].cmd = log[inbox[o].index]
          /\ inbox[o].index \in Index
      BY <2>3 DEF Running, HonestLogs, TypeOK
    <3> QED BY <1>2, <3>1, Bounds DEF Index, TypeOK
  <2>4. ASSUME NEW o \in Objects, inbox[o].kind = "snapshot"
        PROVE  inbox[o].index = inbox[o].snap.index /\ Committed(inbox[o].snap.xlog)'
    <3>1. inbox[o].index = inbox[o].snap.index /\ Committed(inbox[o].snap.xlog)
      BY <2>4 DEF Running, HonestLogs
    <3>2. Len(log) \in Nat
      BY DEF TypeOK
    <3> QED BY <1>2, <3>1, <3>2 DEF Committed, Index
  <2> QED BY <2>1, <2>2, <2>3, <2>4
<1>5. Staged' /\ Snapshots' /\ Ahead' /\ InFlight' /\ Agree' /\ Prefix' /\ Applied'
      /\ HonestNext'
  BY DEF Running, Staged, Snapshots, Ahead, InFlight, Agree, Prefix, Applied, HonestNext, Cur
<1> QED BY <1>3, <1>4, <1>5 DEF Running

\* A new rfsrv starts from the server's snapshot, and the test does not know of it.
LEMMA NewRfsrvInv ==
  ASSUME TypeOK, Running, failed = "no", NEW i \in Servers, NewRfsrv(i)
  PROVE  TypeOK' /\ Running' /\ failed' = "no"
<1> DEFINE k == inst[i] + 1
           o == <<i, k>>
<1>1. k \in Insts /\ inst[i] \in Insts /\ inst[i] \in Nat /\ o \in Objects
  BY RoomForInstance, Bounds DEF NewRfsrv, TypeOK
<1>2. /\ (IF snapshot THEN saved[i] ELSE NoSnap) = saved[i]
      /\ saved[i] \in Snaps /\ saved[i].index \in 0..MaxIndex /\ saved[i].xlog \in Entries
  BY DEF Running, Snapshots, TypeOK, Snaps
<1>3. /\ stage[i] = "down" /\ srvs[i] = inst[i] /\ inbox[o] = NoMsg
  <2>1. stage[i] = "down"
    BY DEF NewRfsrv
  <2>2. k > inst[i]
    BY <1>1
  <2> QED BY <1>1, <2>1, <2>2 DEF Running, Staged
<1>4. /\ stage' = [stage EXCEPT ![i] = "made"]
      /\ inst' = [inst EXCEPT ![i] = k]
      /\ logs' = [logs EXCEPT ![o] = saved[i].xlog]
      /\ lastApplied' = [lastApplied EXCEPT ![o] = saved[i].index]
      /\ sent' = [sent EXCEPT ![o] = saved[i].index]
      /\ UNCHANGED <<raftVars, srvs, inbox, saved, failed, rewound>>
  BY <1>2 DEF NewRfsrv
<1>5. \A j \in Servers : <<j, srvs[j]>> \in Objects /\ <<j, srvs[j]>> # o
  BY <1>1, <1>3, Bounds DEF TypeOK
<1>6. \A j \in Servers : /\ Cur(j)' = Cur(j)
                         /\ lastApplied'[<<j, srvs[j]>>] = lastApplied[<<j, srvs[j]>>]
  BY <1>4, <1>5 DEF Cur, TypeOK
<1>7. \A j \in Servers : <<j, inst[j]>> \in Objects /\ (j # i => <<j, inst[j]>> # o)
  BY <1>1, Bounds DEF TypeOK
<1> HIDE DEF k, o
<1>8. TypeOK'
  BY <1>1, <1>2, <1>4 DEF TypeOK
<1>9. Staged'
  BY <1>1, <1>3, <1>4, Bounds DEF Running, Staged, TypeOK, o, k
<1>10. Snapshots' /\ Ahead'
  <2>1. ASSUME NEW j \in Servers
        PROVE  /\ Complete(saved[j]) /\ (~snapshot => saved[j] = NoSnap)
               /\ stage'[j] = "made" => /\ logs'[<<j, inst'[j]>>] = saved[j].xlog
                                        /\ lastApplied'[<<j, inst'[j]>>] = saved[j].index
    <3>1. CASE j = i
      BY <1>1, <1>4, <3>1 DEF TypeOK, Running, Snapshots, o
    <3>2. CASE j # i
      BY <1>4, <1>7, <3>2 DEF TypeOK, Running, Snapshots
    <3> QED BY <3>1, <3>2
  <2>2. Snapshots'
    BY <1>4, <2>1 DEF Snapshots, Complete
  <2>3. Ahead'
    BY <1>4, <1>6 DEF Running, Ahead, Within
  <2> QED BY <2>2, <2>3
<1>11. InFlight'
  BY <1>3, <1>4, Nothing DEF Running, InFlight, TypeOK, Complete, Within
<1>12. Agree' /\ Prefix' /\ Applied'
  <2>1. Agree'
    <3> SUFFICES ASSUME NEW a \in Servers, NEW b \in Servers, NEW x \in Index
                 PROVE  ~rewound => Cur(a)'[x] = None \/ Cur(b)'[x] \in {None, Cur(a)'[x]}
      BY <1>4 DEF Agree
    <3> QED BY <1>6 DEF Running, Agree
  <2>2. Prefix'
    <3> SUFFICES ASSUME NEW j \in Servers, NEW x \in Index, Cur(j)'[x] # None
                 PROVE  Full(Cur(j)', x)
      BY DEF Prefix, Full
    <3> QED BY <1>6 DEF Running, Prefix
  <2>3. Applied'
    BY <1>4, <1>6 DEF Running, Applied, Full
  <2> QED BY <2>1, <2>2, <2>3
<1>13. HonestLogs'
  BY <1>1, <1>4 DEF Running, HonestLogs, Committed, TypeOK
<1>14. HonestNext'
  <2> SUFFICES ASSUME honest, NEW j \in Servers, stage'[j] # "down", NEW q, q = <<j, inst'[j]>>
               PROVE  /\ inbox[q] = NoMsg =>
                            /\ Full(logs'[q], sent'[q])
                            /\ snapshot => lastApplied'[q] = sent'[q]
                      /\ inbox[q].kind = "command" =>
                            /\ inbox[q].index = sent'[q] /\ Full(logs'[q], sent'[q] - 1)
                            /\ snapshot => lastApplied'[q] = sent'[q] - 1
                      /\ inbox[q].kind = "snapshot" => inbox[q].index = sent'[q]
    BY <1>4 DEF HonestNext, Full
  <2>1. CASE j = i
    <3>1. q = o
      BY <1>4, <2>1 DEF TypeOK, o
    <3>2. Full(saved[i].xlog, saved[i].index)
      BY <1>2, FullFacts DEF Running, Snapshots
    <3> QED BY <1>1, <1>3, <1>4, <3>1, <3>2, Nothing DEF TypeOK
  <2>2. CASE j # i
    BY <1>4, <1>7, <2>2 DEF TypeOK, Running, HonestNext
  <2> QED BY <2>1, <2>2
<1> QED BY <1>4, <1>8, <1>9, <1>10, <1>11, <1>12, <1>13, <1>14 DEF Running

\* The test gets to know of the new rfsrv, which has what is in the snapshot.
LEMMA MkSrvInv ==
  ASSUME TypeOK, Running, failed = "no", NEW i \in Servers, MkSrv(i)
  PROVE  TypeOK' /\ Running' /\ failed' = "no"
<1> USE DEF MkSrv
<1>1. /\ \A j \in Servers \ {i} : Cur(j)' = Cur(j) /\ srvs'[j] = srvs[j]
      /\ srvs'[i] = inst[i] /\ Cur(i)' = saved[i].xlog
      /\ lastApplied[<<i, inst[i]>>] = saved[i].index
      /\ saved[i] \in Snaps /\ saved[i].index \in 0..MaxIndex
  BY DEF Cur, TypeOK, Running, Snapshots, Snaps
<1>2. Complete(saved[i]) /\ (~rewound => Within(saved[i].xlog, Cur(i)))
  BY DEF Running, Snapshots, Ahead
<1>3. TypeOK'
  BY DEF TypeOK
<1>4. Staged'
  BY DEF TypeOK, Running, Staged
<1>5. Snapshots' /\ Ahead'
  <2>1. Snapshots'
    BY DEF Running, Snapshots, TypeOK, Complete
  <2>2. ASSUME NEW j \in Servers, ~rewound
        PROVE  Within(saved[j].xlog, Cur(j)') /\ saved[j].index <= lastApplied[<<j, srvs'[j]>>]
    <3>1. CASE j = i
      BY <1>1, <3>1, Bounds DEF Within
    <3>2. CASE j # i
      BY <1>1, <2>2, <3>2 DEF Running, Ahead
    <3> QED BY <3>1, <3>2
  <2>3. Ahead'
    BY <2>2 DEF Ahead, Within
  <2> QED BY <2>1, <2>3
<1>6. InFlight' /\ HonestLogs' /\ HonestNext'
  BY DEF Running, InFlight, HonestLogs, HonestNext, Complete, Within, Committed, Full, TypeOK
<1>7. Agree'
  <2> SUFFICES ASSUME NEW a \in Servers, NEW b \in Servers, NEW x \in Index, ~rewound
               PROVE  Cur(a)'[x] = None \/ Cur(b)'[x] \in {None, Cur(a)'[x]}
    BY DEF Agree
  <2>1. /\ Cur(a)'[x] = None \/ Cur(a)'[x] = Cur(a)[x]
        /\ Cur(b)'[x] = None \/ Cur(b)'[x] = Cur(b)[x]
    BY <1>1, <1>2 DEF Within
  <2> QED BY <2>1 DEF Running, Agree
<1>8. Prefix' /\ Applied'
  <2>1. \A x \in Index : saved[i].xlog[x] # None => Full(saved[i].xlog, x)
    BY <1>1, <1>2, FullFacts
  <2>2. Full(saved[i].xlog, saved[i].index)
    BY <1>1, <1>2, FullFacts
  <2>3. Prefix'
    BY <1>1, <2>1 DEF Running, Prefix, Full
  <2>4. Applied'
    BY <1>1, <2>2 DEF Running, Applied, Full
  <2> QED BY <2>3, <2>4
<1> QED BY <1>3, <1>4, <1>5, <1>6, <1>7, <1>8 DEF Running

\* A server joins the network, or is killed: what its appliers hold stays.
LEMMA UpDownInv ==
  ASSUME TypeOK, Running, failed = "no", NEW i \in Servers, AddServer(i) \/ Kill(i)
  PROVE  TypeOK' /\ Running' /\ failed' = "no"
<1>1. PICK st \in {"up", "down"} :
         stage' = [stage EXCEPT ![i] = st] /\ stage[i] \in {"published", "up"}
  BY DEF AddServer, Kill
<1>2. UNCHANGED <<raftVars, inst, srvs, logs, lastApplied, sent, inbox, saved, failed, rewound>>
  BY DEF AddServer, Kill
<1>3. TypeOK' /\ Staged'
  BY <1>1, <1>2 DEF TypeOK, Running, Staged
<1>4. Snapshots' /\ Ahead'
  BY <1>1, <1>2 DEF TypeOK, Running, Snapshots, Ahead, Cur, Complete, Within
<1>5. InFlight' /\ Agree' /\ Prefix' /\ Applied' /\ HonestLogs'
  BY <1>2 DEF Running, InFlight, Agree, Prefix, Applied, HonestLogs, Cur, Complete, Within, Full,
              Committed
<1>6. HonestNext'
  BY <1>1, <1>2 DEF TypeOK, Running, HonestNext, Full
<1> QED BY <1>2, <1>3, <1>4, <1>5, <1>6 DEF Running

\* What Raft may send to a live instance that waits for a message.
LEMMA MessageFacts ==
  ASSUME TypeOK, Running, NEW i \in Servers, NEW k \in Insts, NEW m \in Messages(i, k),
         Live(i, k), inbox[<<i, k>>] = NoMsg
  PROVE  /\ m \in Msgs /\ m.kind \in {"command", "snapshot"}
         /\ m.kind = "command" => m.index \in Index /\ m.cmd \in Cmds
         /\ m.kind = "snapshot" =>
               snapshot /\ \E j \in Servers : m.snap = saved[j]
         /\ honest /\ m.kind = "command" =>
               /\ m.index = sent[<<i, k>>] + 1
               /\ m.index <= Len(log) /\ m.cmd = log[m.index]
         /\ honest /\ m.kind = "snapshot" => m.index = m.snap.index
<1> DEFINE o == <<i, k>>
<1>1. o \in Objects /\ sent[o] \in 0..MaxIndex /\ sent[o] \in Nat
  BY Bounds DEF TypeOK
<1>2. ASSUME NEW j \in Index, NEW v \in Cmds, m = Command(j, v)
      PROVE  m \in Msgs /\ m.kind = "command" /\ m.index = j /\ m.cmd = v
  BY <1>2, Nothing, Bounds DEF Command, Msgs, Index
<1>3. ASSUME NEW j \in 0..MaxIndex, NEW t \in Snaps, m = SnapshotMsg(j, t)
      PROVE  m \in Msgs /\ m.kind = "snapshot" /\ m.index = j /\ m.snap = t
  BY <1>3 DEF SnapshotMsg, Msgs
<1>4. \A j \in Servers : saved[j] \in Snaps /\ saved[j].index \in 0..MaxIndex
  BY DEF TypeOK, Snaps
<1>5. CASE honest
  <2>1. \/ \E j \in {sent[o] + 1} \cap DOMAIN log : m = Command(j, log[j])
        \/ \E t \in {saved[j] : j \in Servers} : snapshot /\ m = SnapshotMsg(t.index, t)
    BY <1>5 DEF Messages
  <2>2. CASE \E j \in {sent[o] + 1} \cap DOMAIN log : m = Command(j, log[j])
    <3>1. PICK j \in DOMAIN log : j = sent[o] + 1 /\ m = Command(j, log[j])
      BY <2>2
    <3>2. j \in Index /\ j <= Len(log) /\ log[j] \in Cmds
      BY <3>1, Bounds DEF TypeOK, Index
    <3> QED BY <1>2, <3>1, <3>2
  <2>3. ASSUME NEW j \in Servers, m = SnapshotMsg(saved[j].index, saved[j])
        PROVE  m \in Msgs /\ m.kind = "snapshot" /\ m.index = m.snap.index /\ m.snap = saved[j]
    BY <1>3, <1>4, <2>3
  <2> QED BY <2>1, <2>2, <2>3
<1>6. CASE ~honest
  <2>1. \/ \E j \in Index, v \in Cmds : m = Command(j, v)
        \/ \E j \in Index, t \in {saved[q] : q \in Servers} : snapshot /\ m = SnapshotMsg(j, t)
    BY <1>6 DEF Messages
  <2>2. ASSUME NEW j \in Index, NEW q \in Servers, m = SnapshotMsg(j, saved[q])
        PROVE  m \in Msgs /\ m.kind = "snapshot" /\ m.snap = saved[q]
    <3>1. j \in 0..MaxIndex
      BY Bounds DEF Index
    <3> QED BY <1>3, <1>4, <2>2, <3>1
  <2> QED BY <1>2, <1>6, <2>1, <2>2
<1> QED BY <1>5, <1>6 DEF TypeOK

\* The applier of a live instance receives a message.
LEMMA ReceiveInv ==
  ASSUME TypeOK, Running, failed = "no", NEW i \in Servers, NEW k \in Insts, Receive(i, k)
  PROVE  TypeOK' /\ Running' /\ failed' = "no"
<1> DEFINE o == <<i, k>>
<1>1. PICK m \in Messages(i, k) :
         /\ inbox' = [inbox EXCEPT ![o] = m]
         /\ sent' = IF honest THEN [sent EXCEPT ![o] = m.index] ELSE sent
  BY DEF Receive
<1>2. /\ Live(i, k) /\ stage[i] = "up" /\ k = inst[i] /\ inbox[o] = NoMsg
      /\ UNCHANGED <<raftVars, stage, inst, srvs, logs, lastApplied, saved, failed, rewound>>
  BY DEF Receive, Live, Reachable
<1>3. o \in Objects
  BY Bounds
<1>4. /\ m \in Msgs /\ m.kind \in {"command", "snapshot"} /\ m.index \in 0..MaxIndex
      /\ m.kind = "command" => m.index \in Index /\ m.cmd \in Cmds
      /\ m.kind = "snapshot" =>
            snapshot /\ \E j \in Servers : m.snap = saved[j]
      /\ honest /\ m.kind = "command" =>
            m.index = sent[o] + 1 /\ m.index <= Len(log) /\ m.cmd = log[m.index]
      /\ honest /\ m.kind = "snapshot" => m.index = m.snap.index
  BY <1>2, MessageFacts DEF Msgs
<1>5. m # NoMsg
  BY <1>4, Nothing
<1>6. \A q \in Objects : inbox'[q] = IF q = o THEN m ELSE inbox[q]
  BY <1>1, <1>3 DEF TypeOK
<1> HIDE DEF o
<1>7. TypeOK'
  <2>1. inbox' \in [Objects -> Msgs] /\ sent' \in [Objects -> 0..MaxIndex]
    BY <1>1, <1>3, <1>4 DEF TypeOK
  <2>2. \A q \in Objects :
          /\ inbox'[q].kind = "none" => inbox'[q] = NoMsg
          /\ inbox'[q].kind = "command" => inbox'[q].index \in Index /\ inbox'[q].cmd \in Cmds
    BY <1>4, <1>6 DEF TypeOK
  <2> QED BY <1>2, <2>1, <2>2 DEF TypeOK
<1>8. Staged'
  <2>1. \A j \in Servers, q \in Insts : <<j, q>> \in Objects
    BY Bounds
  <2>2. inst[i] \in Nat
    BY Bounds DEF TypeOK
  <2> QED BY <1>2, <1>6, <2>1, <2>2 DEF Running, Staged, TypeOK, o
<1>9. Snapshots' /\ Ahead' /\ Agree' /\ Prefix' /\ Applied'
  BY <1>2 DEF Running, Snapshots, Ahead, Agree, Prefix, Applied, Cur, Complete, Within, Full
<1>10. InFlight'
  <2> SUFFICES ASSUME NEW q \in Objects, inbox'[q].kind = "snapshot"
               PROVE  /\ snapshot /\ Complete(inbox'[q].snap)
                      /\ ~rewound => \E j \in Servers : Within(inbox'[q].snap.xlog, saved[j].xlog)
    BY <1>2 DEF InFlight, Complete, Within
  <2>1. CASE q = o
    <3>1. PICK j \in Servers : m.snap = saved[j]
      BY <1>4, <1>6, <2>1
    <3>2. Complete(m.snap) /\ Within(m.snap.xlog, saved[j].xlog)
      BY <3>1 DEF Running, Snapshots, Within
    <3> QED BY <1>4, <1>6, <2>1, <3>2
  <2>2. CASE q # o
    BY <1>6, <2>2 DEF Running, InFlight
  <2> QED BY <2>1, <2>2
<1>11. HonestLogs'
  <2> SUFFICES ASSUME honest, NEW q \in Objects
               PROVE  /\ inbox'[q].kind = "command" =>
                            /\ inbox'[q].index <= Len(log)
                            /\ inbox'[q].cmd = log[inbox'[q].index]
                      /\ inbox'[q].kind = "snapshot" =>
                            /\ inbox'[q].index = inbox'[q].snap.index
                            /\ Committed(inbox'[q].snap.xlog)
    BY <1>2 DEF Running, HonestLogs, Committed
  <2>1. CASE q = o
    BY <1>4, <1>6, <2>1 DEF Running, HonestLogs
  <2>2. CASE q # o
    BY <1>6, <2>2 DEF Running, HonestLogs
  <2> QED BY <2>1, <2>2
<1>12. HonestNext'
  <2> SUFFICES ASSUME honest, NEW j \in Servers, stage[j] # "down", NEW q, q = <<j, inst[j]>>
               PROVE  /\ inbox'[q] = NoMsg =>
                            /\ Full(logs[q], sent'[q])
                            /\ snapshot => lastApplied[q] = sent'[q]
                      /\ inbox'[q].kind = "command" =>
                            /\ inbox'[q].index = sent'[q] /\ Full(logs[q], sent'[q] - 1)
                            /\ snapshot => lastApplied[q] = sent'[q] - 1
                      /\ inbox'[q].kind = "snapshot" => inbox'[q].index = sent'[q]
    BY <1>2 DEF HonestNext, Full
  <2>1. q \in Objects
    BY Bounds DEF TypeOK
  <2>2. CASE q = o
    <3>1. sent'[q] = m.index /\ inbox'[q] = m
      BY <1>1, <1>3, <1>6, <2>2 DEF TypeOK
    <3>2. Full(logs[q], sent[q]) /\ (snapshot => lastApplied[q] = sent[q])
      BY <1>2, <2>2 DEF Running, HonestNext
    <3>3. sent[q] \in Int
      BY <2>1, Bounds DEF TypeOK
    <3>4. m.kind = "command" => sent[q] = m.index - 1
      BY <1>4, <2>2, <3>3
    <3> QED BY <1>4, <1>5, <3>1, <3>2, <3>4
  <2>3. CASE q # o
    <3>1. sent'[q] = sent[q] /\ inbox'[q] = inbox[q]
      BY <1>1, <1>3, <1>6, <2>1, <2>3 DEF TypeOK
    <3> QED BY <3>1 DEF Running, HonestNext
  <2> QED BY <2>2, <2>3
<1> QED BY <1>2, <1>7, <1>8, <1>9, <1>10, <1>11, <1>12 DEF Running

-----------------------------------------------------------------------------
(* The appliers *)

\* An applier that stops the test is not that of a live instance if Raft is correct, and it
\* leaves the snapshots as they are.
LEMMA StoppedInv ==
  ASSUME TypeOK, Running, SnapshotsComplete, failed = "no", NEW i \in Servers, NEW k \in Insts,
         \/ Apply(i, k) \/ ApplyGap(i, k) \/ ApplyNext(i, k) \/ IngestSnap(i, k),
         failed' # "no"
  PROVE  LiveNeverBlamed' /\ SnapshotsComplete'
<1> DEFINE m == inbox[<<i, k>>]
<1>1. /\ m # NoMsg /\ UNCHANGED raftVars
      /\ failed' = IF Live(i, k) THEN "live" ELSE "stale"
  BY DEF Apply, ApplyGap, ApplyNext, IngestSnap, Taken, Stop
<1>2. m.kind \in {"command", "snapshot"}
  BY <1>1, InboxFacts DEF Running
<1>3. ~snapshot => m.kind = "command"
  BY <1>2, Bounds DEF Running, InFlight
<1>4. honest => ~Live(i, k)
  <2> SUFFICES ASSUME honest, Live(i, k) PROVE FALSE
    OBVIOUS
  <2>1. /\ m.kind = "command" => /\ ~ApplyError(i, m)
                                 /\ snapshot => m.index = lastApplied[<<i, k>>] + 1
        /\ m.kind = "snapshot" => m.index = m.snap.index
    BY <1>1, HonestMessage
  <2>2. CASE Apply(i, k)
    BY <1>3, <2>1, <2>2 DEF Apply, Stop
  <2>3. CASE ApplyGap(i, k)
    BY <2>1, <2>3 DEF ApplyGap
  <2>4. CASE ApplyNext(i, k)
    BY <2>1, <2>4 DEF ApplyNext, Stop
  <2>5. CASE IngestSnap(i, k)
    BY <2>1, <2>5 DEF IngestSnap, Stop
  <2> QED BY <2>2, <2>3, <2>4, <2>5
<1>5. honest => UNCHANGED saved
  BY <1>4 DEF Apply, ApplyGap, ApplyNext, IngestSnap
<1> QED BY <1>1, <1>4, <1>5 DEF LiveNeverBlamed, SnapshotsComplete

\* Whatever an applier does, the variables keep their types.
LEMMA ApplierType ==
  ASSUME TypeOK, Running, failed = "no", NEW i \in Servers, NEW k \in Insts,
         \/ Apply(i, k) \/ ApplyGap(i, k) \/ ApplyNext(i, k) \/ IngestSnap(i, k)
  PROVE  TypeOK'
<1> DEFINE o == <<i, k>>
           m == inbox[o]
<1>1. /\ m # NoMsg /\ inbox' = [inbox EXCEPT ![o] = NoMsg] /\ UNCHANGED raftVars
      /\ failed' \in {"no", "live", "stale"} /\ UNCHANGED <<stage, inst, srvs, sent>>
  BY DEF Apply, ApplyGap, ApplyNext, IngestSnap, Taken, Stop
<1>2. /\ o \in Objects /\ m \in Msgs /\ m.index \in 0..MaxIndex
      /\ m.snap \in Snaps /\ m.snap.index \in 0..MaxIndex /\ m.snap.xlog \in Entries
  BY Bounds DEF TypeOK, Msgs, Snaps
<1>3. /\ m.kind = "command" => m.index \in Index /\ m.cmd \in Cmds
      /\ ~snapshot => m.kind = "command"
  BY <1>1, <1>2, InboxFacts DEF Running, InFlight
<1>4. \A q \in Objects : inbox'[q] = IF q = o THEN NoMsg ELSE inbox[q]
  BY <1>1, <1>2 DEF TypeOK
<1>5. inbox' \in [Objects -> Msgs] /\ NoMsg.kind = "none"
  BY <1>1, Nothing DEF TypeOK
<1>6. m.kind = "command" =>
         /\ Recorded(i, m) \in [Objects -> Entries]
         /\ Xlog(i, k, m) \in Entries
  <2> SUFFICES ASSUME m.kind = "command"
               PROVE  Recorded(i, m) \in [Objects -> Entries] /\ Xlog(i, k, m) \in Entries
    OBVIOUS
  <2>1. Recorded(i, m) \in [Objects -> Entries]
    BY <1>3, RecordedFacts
  <2>2. Recorded(i, m)[o] \in Entries
    BY <1>2, <2>1
  <2> QED BY <2>1, <2>2 DEF Xlog, Entries
<1> HIDE DEF o, m
<1>7. logs' \in [Objects -> Entries]
  BY <1>2, <1>3, <1>6 DEF Apply, ApplyGap, ApplyNext, IngestSnap, TypeOK, o, m
<1>8. lastApplied' \in [Objects -> 0..MaxIndex]
  BY <1>2 DEF Apply, ApplyGap, ApplyNext, IngestSnap, TypeOK, o, m
<1>9. saved' \in [Servers -> Snaps]
  <2>1. CASE UNCHANGED saved
    BY <2>1 DEF TypeOK
  <2>2. CASE /\ ApplyNext(i, k)
             /\ saved' = [saved EXCEPT ![i] = [index |-> m.index, xlog |-> Xlog(i, k, m)]]
    <3>1. [index |-> m.index, xlog |-> Xlog(i, k, m)] \in Snaps
      BY <1>2, <1>6, <2>2 DEF Snaps, ApplyNext, m, o
    <3> QED BY <2>2, <3>1 DEF TypeOK
  <2> QED BY <2>1, <2>2 DEF Apply, ApplyGap, ApplyNext, IngestSnap, m, o
<1>10. \A q \in Objects :
         /\ inbox'[q].kind = "none" => inbox'[q] = NoMsg
         /\ inbox'[q].kind = "command" => inbox'[q].index \in Index /\ inbox'[q].cmd \in Cmds
  BY <1>4, <1>5 DEF TypeOK
<1>11. rewound' \in BOOLEAN
  BY Zenon DEF Apply, ApplyGap, ApplyNext, IngestSnap, TypeOK
<1> QED BY <1>1, <1>5, <1>7, <1>8, <1>9, <1>10, <1>11 DEF TypeOK

\* A command that is recorded without an error: the servers still agree, with no entry
\* missing, and no entry is lost or replaced.
LEMMA RecordInv ==
  ASSUME TypeOK, Running, NEW i \in Servers, NEW k \in Insts, NEW m, m = inbox[<<i, k>>],
         m.kind = "command", m # NoMsg, ~ApplyError(i, m),
         logs' = Recorded(i, m), UNCHANGED <<srvs, raftVars, rewound>>
  PROVE  /\ Agree' /\ Prefix'
         /\ \A j \in Servers : Within(Cur(j), Cur(j)')
         /\ Cur(i)'[m.index] = m.cmd /\ m.cmd # None
         /\ \A o \in Objects, x \in Index : logs[o][x] # None => logs'[o][x] # None
         /\ honest => \A o \in Objects : Committed(logs'[o])
         /\ \A j \in Servers : stage[j] = "made" => logs'[<<j, inst[j]>>] = logs[<<j, inst[j]>>]
<1>1. m.index \in Index /\ m.cmd \in Cmds /\ m.cmd # None
  BY InboxFacts, NoneAssumption DEF Running
<1>2. /\ \A o \in Objects : o # <<i, srvs[i]>> => logs'[o] = logs[o]
      /\ \A x \in Index : logs'[<<i, srvs[i]>>][x] =
                             IF x = m.index THEN m.cmd ELSE logs[<<i, srvs[i]>>][x]
  BY <1>1, RecordedFacts
<1>3. \A j \in Servers : <<j, srvs[j]>> \in Objects /\ <<j, inst[j]>> \in Objects
  BY Bounds DEF TypeOK
<1>4. \A j \in Servers : Cur(j)[m.index] \in {None, m.cmd}
  BY DEF ApplyError, Conflicts, Cur
<1>5. /\ \A x \in Index : Cur(i)'[x] = IF x = m.index THEN m.cmd ELSE Cur(i)[x]
      /\ \A j \in Servers : j # i => Cur(j)' = Cur(j)
  BY <1>2, <1>3 DEF Cur
<1>6. \A j \in Servers : Within(Cur(j), Cur(j)')
  BY <1>1, <1>4, <1>5 DEF Within
<1>7. Agree'
  <2> SUFFICES ASSUME NEW a \in Servers, NEW b \in Servers, NEW x \in Index, ~rewound
               PROVE  Cur(a)'[x] = None \/ Cur(b)'[x] \in {None, Cur(a)'[x]}
    BY DEF Agree
  <2>1. Cur(a)[x] = None \/ Cur(b)[x] \in {None, Cur(a)[x]}
    BY DEF Running, Agree
  <2>2. CASE x = m.index
    BY <1>1, <1>4, <1>5, <2>2
  <2>3. CASE x # m.index
    BY <1>5, <2>1, <2>3
  <2> QED BY <2>2, <2>3
<1>8. Prefix'
  <2> SUFFICES ASSUME NEW j \in Servers, NEW x \in Index, Cur(j)'[x] # None, NEW y \in 1..x
               PROVE  Cur(j)'[y] # None
    BY DEF Prefix, Full
  <2>1. y \in Index /\ x \in Nat /\ y \in Nat /\ y <= x /\ y >= 1 /\ x <= MaxIndex
    BY Bounds DEF Index
  <2>2. CASE Cur(j)[x] # None
    <3>1. Cur(j)[y] # None
      BY <2>1, <2>2 DEF Running, Prefix, Full
    <3> QED BY <1>1, <1>6, <2>1, <3>1 DEF Within
  <2>3. CASE Cur(j)[x] = None
    <3>1. j = i /\ x = m.index
      BY <1>5, <2>3
    <3>2. CASE y = x
      BY <3>1, <3>2, <1>1, <1>5
    <3>3. CASE y # x
      <4>1. x - 1 \in Index /\ y \in 1..(x - 1) /\ m.index # 1
        BY <2>1, <3>1, <3>3, Bounds DEF Index
      <4>2. Cur(i)[x - 1] # None
        BY <3>1, <4>1 DEF ApplyError, PrevOk, Cur
      <4>3. Cur(i)[y] # None
        BY <4>1, <4>2 DEF Running, Prefix, Full
      <4> QED BY <1>6, <2>1, <3>1, <4>3 DEF Within
    <3> QED BY <3>2, <3>3
  <2> QED BY <2>2, <2>3
<1>9. \A o \in Objects, x \in Index : logs[o][x] # None => logs'[o][x] # None
  BY <1>1, <1>2
<1>10. ASSUME honest, NEW o \in Objects PROVE Committed(logs'[o])
  <2>1. m.index <= Len(log) /\ m.cmd = log[m.index] /\ Committed(logs[o])
    BY <1>10, Bounds DEF Running, HonestLogs
  <2> QED BY <1>2, <2>1 DEF Committed
<1>11. ASSUME NEW j \in Servers, stage[j] = "made"
       PROVE  logs'[<<j, inst[j]>>] = logs[<<j, inst[j]>>]
  <2>1. srvs[j] # inst[j]
    <3>1. srvs[j] = inst[j] - 1 /\ inst[j] \in Insts
      BY <1>11 DEF Running, Staged, TypeOK
    <3>2. inst[j] \in Nat
      BY <3>1, Bounds
    <3> QED BY <3>1, <3>2
  <2> QED BY <1>2, <1>3, <2>1
<1> QED BY <1>1, <1>5, <1>6, <1>7, <1>8, <1>9, <1>10, <1>11

\* Nothing is missing from a log that has more.
LEMMA FullMore ==
  ASSUME NEW f, NEW g, NEW n \in Int, n <= MaxIndex, Full(f, n),
         \A x \in Index : f[x] # None => g[x] # None
  PROVE  /\ Full(g, n)
         /\ \A x \in Index : x = n + 1 /\ g[x] # None => Full(g, n + 1)
<1>1. \A x \in 1..n : x \in Index
  BY Bounds DEF Index
<1>2. Full(g, n)
  BY <1>1 DEF Full
<1>3. ASSUME NEW x \in Index, x = n + 1, g[x] # None PROVE Full(g, n + 1)
  <2>1. \A y \in 1..(n + 1) : y \in 1..n \/ y = x
    BY <1>3
  <2> QED BY <1>2, <1>3, <2>1 DEF Full
<1> QED BY <1>2, <1>3

\* A command that is in order is recorded; applierSnap counts it, and may make a snapshot of
\* the log.
LEMMA CommandInv ==
  ASSUME TypeOK, Running, failed = "no", NEW i \in Servers, NEW k \in Insts,
         Apply(i, k) \/ ApplyNext(i, k), failed' = "no"
  PROVE  Running'
<1> DEFINE o == <<i, k>>
           m == inbox[o]
           Snap == [index |-> m.index, xlog |-> Xlog(i, k, m)]
<1>1. /\ o \in Objects /\ m # NoMsg /\ m.kind = "command" /\ ~ApplyError(i, m)
      /\ m.index \in Index
      /\ logs' = Recorded(i, m) /\ UNCHANGED <<raftVars, stage, inst, srvs, sent, rewound>>
  <2>1. /\ m # NoMsg /\ ~ApplyError(i, m)
        /\ logs' = Recorded(i, m) /\ UNCHANGED <<raftVars, stage, inst, srvs, sent, rewound>>
    BY DEF Apply, ApplyNext, Taken, Stop
  <2>2. o \in Objects
    BY Bounds
  <2>3. m.kind = "command" /\ m.index \in Index
    BY <2>1, <2>2, InboxFacts DEF Apply, ApplyNext, Running, InFlight
  <2> QED BY <2>1, <2>2, <2>3
<1>2. \A q \in Objects : inbox'[q] = IF q = o THEN NoMsg ELSE inbox[q]
  BY <1>1 DEF Apply, ApplyNext, Taken, TypeOK
<1>3. /\ ~snapshot => UNCHANGED <<lastApplied, saved>>
      /\ snapshot => /\ m.index = lastApplied[o] + 1
                     /\ \A q \in Objects : lastApplied'[q] = IF q = o THEN m.index
                                                             ELSE lastApplied[q]
  BY <1>1 DEF Apply, ApplyNext, TypeOK
<1>4. \/ UNCHANGED saved
      \/ /\ snapshot /\ stage[i] = "up" /\ k = inst[i] /\ k = srvs[i]
         /\ saved'[i] = Snap
         /\ \A j \in Servers : j # i => saved'[j] = saved[j]
  <2> SUFFICES ASSUME ~UNCHANGED saved
               PROVE  /\ snapshot /\ stage[i] = "up" /\ k = inst[i] /\ k = srvs[i]
                      /\ saved'[i] = Snap
                      /\ \A j \in Servers : j # i => saved'[j] = saved[j]
    OBVIOUS
  <2>1. ApplyNext(i, k) /\ Live(i, k) /\ saved' = [saved EXCEPT ![i] = Snap]
    BY DEF Apply, ApplyNext
  <2>2. snapshot /\ stage[i] = "up" /\ k = inst[i] /\ k = srvs[i]
    BY <1>1, <2>1, InboxFacts DEF Running, ApplyNext
  <2>3. /\ saved'[i] = Snap
        /\ \A j \in Servers : j # i => saved'[j] = saved[j]
    BY <2>1 DEF TypeOK
  <2> QED BY <2>2, <2>3
<1>5. /\ Agree' /\ Prefix'
      /\ \A j \in Servers : Within(Cur(j), Cur(j)')
      /\ Cur(i)'[m.index] = m.cmd /\ m.cmd # None
      /\ \A q \in Objects, x \in Index : logs[q][x] # None => logs'[q][x] # None
      /\ honest => \A q \in Objects : Committed(logs'[q])
      /\ \A j \in Servers : stage[j] = "made" => logs'[<<j, inst[j]>>] = logs[<<j, inst[j]>>]
  BY <1>1, RecordInv
<1>6. /\ stage[i] = "made" => k # inst[i]
      /\ Live(i, k) => stage[i] = "up" /\ k = inst[i] /\ k = srvs[i]
  BY <1>1, InboxFacts DEF Running
<1>7. /\ \A j \in Servers : <<j, srvs[j]>> \in Objects /\ <<j, inst[j]>> \in Objects
      /\ \A q \in Objects : /\ lastApplied[q] \in Nat /\ lastApplied[q] <= MaxIndex
                            /\ sent[q] \in Nat /\ sent[q] <= MaxIndex
      /\ m.index \in Nat /\ m.index <= MaxIndex
  BY <1>1, Bounds DEF TypeOK, Index
<1>8. \A q \in Objects : lastApplied'[q] >= lastApplied[q]
  BY <1>3, <1>7
<1> HIDE DEF o, m
<1>9. Staged'
  BY <1>1, <1>2, Bounds DEF Running, Staged, TypeOK, o
<1>10. Applied'
  <2> SUFFICES ASSUME NEW j \in Servers PROVE Full(Cur(j)', lastApplied'[<<j, srvs[j]>>])
    BY <1>1 DEF Applied, Full
  <2> DEFINE n == lastApplied[<<j, srvs[j]>>]
  <2>1. n \in Int /\ n <= MaxIndex /\ Full(Cur(j), n)
    <3>1. n \in Nat /\ n <= MaxIndex
      BY <1>7
    <3> QED BY <3>1 DEF Running, Applied
  <2>2. /\ Full(Cur(j)', n)
        /\ \A x \in Index : x = n + 1 /\ Cur(j)'[x] # None => Full(Cur(j)', n + 1)
    <3>1. \A x \in Index : Cur(j)[x] # None => Cur(j)'[x] # None
      BY <1>5 DEF Within
    <3> HIDE DEF n
    <3> QED BY <2>1, <3>1, FullMore
  <2>3. CASE snapshot /\ <<j, srvs[j]>> = o
    BY <1>1, <1>3, <1>5, <2>2, <2>3 DEF o
  <2>4. CASE ~(snapshot /\ <<j, srvs[j]>> = o)
    BY <1>3, <1>7, <2>2, <2>4
  <2> QED BY <2>3, <2>4
<1>11. ASSUME NEW j \in Servers
       PROVE  /\ Complete(saved'[j])
              /\ ~rewound => /\ Within(saved'[j].xlog, Cur(j)')
                             /\ saved'[j].index <= lastApplied'[<<j, srvs[j]>>]
                             /\ Within(saved[j].xlog, saved'[j].xlog)
              /\ saved'[j] # saved[j] => snapshot /\ stage[j] = "up"
              /\ honest => Committed(saved'[j].xlog)
  <2>1. /\ Complete(saved[j])
        /\ ~rewound => /\ Within(saved[j].xlog, Cur(j)')
                       /\ saved[j].index <= lastApplied[<<j, srvs[j]>>]
        /\ saved[j] \in Snaps /\ saved[j].index \in Nat
    <3>1. /\ ~rewound => Within(saved[j].xlog, Cur(j))
          /\ Within(Cur(j), Cur(j)')
      BY <1>5 DEF Running, Ahead
    <3>2. ~rewound => Within(saved[j].xlog, Cur(j)')
      BY <3>1 DEF Within
    <3>3. saved[j] \in Snaps /\ saved[j].index \in 0..MaxIndex
      BY DEF TypeOK, Snaps
    <3>4. saved[j].index \in Nat
      BY <3>3, Bounds
    <3> QED BY <3>2, <3>3, <3>4 DEF Running, Snapshots, Ahead
  <2>2. CASE saved'[j] = saved[j]
    <3>1. lastApplied[<<j, srvs[j]>>] <= lastApplied'[<<j, srvs[j]>>]
      BY <1>7, <1>8
    <3>2. lastApplied'[<<j, srvs[j]>>] \in Nat /\ lastApplied[<<j, srvs[j]>>] \in Nat
      BY <1>3, <1>7
    <3> QED BY <2>1, <2>2, <3>1, <3>2 DEF Running, HonestLogs, Within
  <2>3. CASE saved'[j] # saved[j]
    <3>1. /\ snapshot /\ stage[i] = "up" /\ k = inst[i] /\ k = srvs[i] /\ o = <<i, srvs[i]>>
          /\ saved'[i].index = m.index /\ saved'[i].xlog = Xlog(i, k, m) /\ j = i
      BY <1>4, <2>3 DEF o
    <3>2. \A x \in Index : Xlog(i, k, m)[x] = IF x <= m.index THEN Cur(i)'[x] ELSE None
      BY <1>1, <3>1 DEF Xlog, Cur
    <3>3. lastApplied'[<<i, srvs[i]>>] = m.index /\ lastApplied[<<i, srvs[i]>>] = m.index - 1
      BY <1>1, <1>3, <1>7, <3>1
    <3>4. Full(Cur(i)', m.index)
      BY <1>1, <1>10, <3>3 DEF Applied, Full
    <3>5. \A x \in Index : x <= m.index => Cur(i)'[x] # None
      BY <1>7, <3>4 DEF Full, Index
    <3>6. Complete(saved'[i]) /\ Within(saved'[i].xlog, Cur(i)')
      BY <3>1, <3>2, <3>5 DEF Complete, Within
    <3>7. ASSUME ~rewound, NEW x \in Index, saved[i].xlog[x] # None PROVE x <= m.index
      <4>1. x <= saved[i].index /\ saved[i].index <= m.index - 1 /\ x \in Nat
        BY <2>1, <3>1, <3>3, <3>7 DEF Complete, Index
      <4> QED BY <1>7, <2>1, <3>1, <4>1
    <3>8. ~rewound => Within(saved[i].xlog, saved'[i].xlog)
      BY <2>1, <3>1, <3>2, <3>7 DEF Within
    <3>9. honest => Committed(saved'[i].xlog)
      <4>1. Cur(i)' = logs'[o]
        BY <1>1, <3>1 DEF Cur
      <4> QED BY <1>1, <1>5, <3>1, <3>2, <4>1 DEF Committed
    <3> QED BY <1>7, <3>1, <3>3, <3>6, <3>8, <3>9
  <2> QED BY <2>2, <2>3
<1>12. Snapshots' /\ Ahead'
  <2>1. ASSUME NEW j \in Servers
        PROVE  ~snapshot => saved'[j] = NoSnap
    BY <1>3 DEF Running, Snapshots
  <2>2. ASSUME NEW j \in Servers, stage[j] = "made"
        PROVE  /\ logs'[<<j, inst[j]>>] = saved'[j].xlog
               /\ lastApplied'[<<j, inst[j]>>] = saved'[j].index
    <3>1. saved'[j] = saved[j]
      BY <1>11, <2>2
    <3>2. <<j, inst[j]>> # o
      BY <1>6, <2>2 DEF o
    <3> QED BY <1>3, <1>5, <1>7, <2>2, <3>1, <3>2 DEF Running, Snapshots
  <2>3. Snapshots'
    BY <1>1, <1>11, <2>1, <2>2 DEF Snapshots, Complete
  <2>4. Ahead'
    BY <1>1, <1>11 DEF Ahead, Within
  <2> QED BY <2>3, <2>4
<1>13. InFlight'
  <2> SUFFICES ASSUME NEW q \in Objects, inbox'[q].kind = "snapshot"
               PROVE  /\ snapshot /\ Complete(inbox'[q].snap)
                      /\ ~rewound => \E j \in Servers :
                                        Within(inbox'[q].snap.xlog, saved'[j].xlog)
    BY <1>1 DEF InFlight, Complete, Within
  <2>1. q # o /\ inbox'[q] = inbox[q]
    BY <1>2, Nothing
  <2>2. ASSUME ~rewound
        PROVE  \E j \in Servers : Within(inbox[q].snap.xlog, saved'[j].xlog)
    <3>1. PICK j \in Servers : Within(inbox[q].snap.xlog, saved[j].xlog)
      BY <2>1, <2>2 DEF Running, InFlight
    <3>2. Within(inbox[q].snap.xlog, saved'[j].xlog)
      BY <1>11, <2>2, <3>1 DEF Within
    <3> QED BY <3>2
  <2> QED BY <2>1, <2>2 DEF Running, InFlight
<1>14. HonestLogs'
  <2> SUFFICES ASSUME honest
               PROVE  /\ \A q \in Objects : Committed(logs'[q])
                      /\ \A j \in Servers : Committed(saved'[j].xlog)
                      /\ \A q \in Objects :
                            /\ inbox'[q].kind = "command" =>
                                  /\ inbox'[q].index <= Len(log)
                                  /\ inbox'[q].cmd = log[inbox'[q].index]
                            /\ inbox'[q].kind = "snapshot" =>
                                  /\ inbox'[q].index = inbox'[q].snap.index
                                  /\ Committed(inbox'[q].snap.xlog)
    BY <1>1 DEF HonestLogs, Committed
  <2>1. \A q \in Objects : Committed(logs'[q])
    BY <1>5
  <2>2. \A j \in Servers : Committed(saved'[j].xlog)
    BY <1>11
  <2> QED BY <1>2, <2>1, <2>2, Nothing DEF Running, HonestLogs
<1>15. HonestNext'
  <2> SUFFICES ASSUME honest, NEW j \in Servers, stage[j] # "down", NEW q, q = <<j, inst[j]>>
               PROVE  /\ inbox'[q] = NoMsg =>
                            /\ Full(logs'[q], sent[q])
                            /\ snapshot => lastApplied'[q] = sent[q]
                      /\ inbox'[q].kind = "command" =>
                            /\ inbox'[q].index = sent[q] /\ Full(logs'[q], sent[q] - 1)
                            /\ snapshot => lastApplied'[q] = sent[q] - 1
                      /\ inbox'[q].kind = "snapshot" => inbox'[q].index = sent[q]
    BY <1>1 DEF HonestNext, Full
  <2>1. q \in Objects
    BY <1>7
  <2>2. CASE q = o
    <3>1. Live(i, k) /\ inst[i] = k /\ j = i
      BY <2>2 DEF Live, o
    <3>2. m.index = sent[q] /\ Full(logs[q], sent[q] - 1)
      BY <1>1, <2>2, <3>1 DEF Running, HonestNext, o, m
    <3>3. logs'[q][sent[q]] # None /\ Cur(i)' = logs'[q]
      BY <1>1, <1>5, <1>6, <2>2, <3>1, <3>2 DEF Cur, o
    <3>4. sent[q] - 1 \in Int /\ sent[q] - 1 <= MaxIndex /\ sent[q] = (sent[q] - 1) + 1
      BY <1>7, <2>1, Bounds
    <3>5. Full(logs'[q], (sent[q] - 1) + 1)
      BY <1>1, <1>5, <2>1, <3>2, <3>3, <3>4, FullMore
    <3>6. snapshot => lastApplied'[q] = sent[q]
      BY <1>3, <2>1, <2>2, <3>2
    <3> QED BY <1>2, <2>1, <2>2, <3>4, <3>5, <3>6, Nothing
  <2>3. CASE q # o
    <3>1. inbox'[q] = inbox[q] /\ lastApplied'[q] = lastApplied[q]
      BY <1>2, <1>3, <2>1, <2>3
    <3>2. \A n \in Int : n <= MaxIndex /\ Full(logs[q], n) => Full(logs'[q], n)
      BY <1>5, <2>1, FullMore
    <3>3. sent[q] \in Int /\ sent[q] - 1 \in Int /\ sent[q] <= MaxIndex /\ sent[q] - 1 <= MaxIndex
      BY <1>7, <2>1, Bounds
    <3> QED BY <3>1, <3>2, <3>3 DEF Running, HonestNext
  <2> QED BY <2>2, <2>3
<1> QED BY <1>5, <1>9, <1>10, <1>12, <1>13, <1>14, <1>15 DEF Running

\* A snapshot is ingested.  It is complete; unless it takes a server back, or one has been
\* before, some server has kept its entries, so that it agrees with all servers.
LEMMA IngestInv ==
  ASSUME TypeOK, Running, failed = "no", NEW i \in Servers, NEW k \in Insts, IngestSnap(i, k),
         failed' = "no"
  PROVE  Running'
<1> DEFINE o == <<i, k>>
           m == inbox[o]
           s == m.snap
<1>1. /\ m # NoMsg /\ m.kind = "snapshot" /\ m.index = s.index
      /\ logs' = [logs EXCEPT ![o] = s.xlog] /\ lastApplied' = [lastApplied EXCEPT ![o] = s.index]
      /\ inbox' = [inbox EXCEPT ![o] = NoMsg]
      /\ ~rewound' => ~rewound /\ ~(k = srvs[i] /\ s.index < saved[i].index)
      /\ UNCHANGED <<raftVars, stage, inst, srvs, sent, saved>>
  BY DEF IngestSnap, Taken, Stop
<1>2. /\ o \in Objects /\ s \in Snaps /\ s.index \in Nat
      /\ \A j \in Servers : <<j, srvs[j]>> \in Objects /\ <<j, inst[j]>> \in Objects
      /\ \A q \in Objects : lastApplied[q] \in Nat
  BY Bounds DEF TypeOK, Msgs, Snaps
<1>3. /\ \A q \in Objects : /\ inbox'[q] = IF q = o THEN NoMsg ELSE inbox[q]
                            /\ logs'[q] = IF q = o THEN s.xlog ELSE logs[q]
                            /\ lastApplied'[q] = IF q = o THEN s.index ELSE lastApplied[q]
  BY <1>1, <1>2 DEF TypeOK
<1>4. snapshot /\ Complete(s)
  BY <1>1, <1>2 DEF Running, InFlight
<1>5. ~rewound => \E r \in Servers : Within(s.xlog, saved[r].xlog)
  BY <1>1, <1>2 DEF Running, InFlight
<1>6. ~rewound => \E r \in Servers : Within(s.xlog, Cur(r))
  BY <1>5 DEF Running, Ahead, Within
<1>7. Full(s.xlog, s.index) /\ \A x \in Index : s.xlog[x] # None => Full(s.xlog, x)
  BY <1>2, <1>4, FullFacts
<1>8. stage[i] = "made" => k # inst[i]
  BY <1>1, InboxFacts DEF Running
<1> HIDE DEF o, m, s
<1>9. \A j \in Servers : Cur(j)' = IF <<j, srvs[j]>> = o THEN s.xlog ELSE Cur(j)
  BY <1>1, <1>2, <1>3 DEF Cur
<1>10. Staged'
  BY <1>1, <1>3, Bounds DEF Running, Staged, TypeOK
<1>11. Agree'
  <2> SUFFICES ASSUME NEW a \in Servers, NEW b \in Servers, NEW x \in Index, ~rewound
               PROVE  Cur(a)'[x] = None \/ Cur(b)'[x] \in {None, Cur(a)'[x]}
    BY <1>1 DEF Agree
  <2> PICK r \in Servers : Within(s.xlog, Cur(r))
    BY <1>6
  <2>1. /\ Cur(a)[x] = None \/ Cur(b)[x] \in {None, Cur(a)[x]}
        /\ Cur(r)[x] = None \/ Cur(b)[x] \in {None, Cur(r)[x]}
        /\ Cur(a)[x] = None \/ Cur(r)[x] \in {None, Cur(a)[x]}
        /\ s.xlog[x] \in {None, Cur(r)[x]}
    BY DEF Running, Agree, Within
  <2> QED BY <1>9, <2>1
<1>12. Prefix'
  <2> SUFFICES ASSUME NEW j \in Servers, NEW x \in Index, Cur(j)'[x] # None
               PROVE  Full(Cur(j)', x)
    BY DEF Prefix, Full
  <2> QED BY <1>7, <1>9 DEF Running, Prefix
<1>13. Applied'
  <2> SUFFICES ASSUME NEW j \in Servers PROVE Full(Cur(j)', lastApplied'[<<j, srvs[j]>>])
    BY <1>1 DEF Applied, Full
  <2> QED BY <1>2, <1>3, <1>7, <1>9 DEF Running, Applied
<1>14. Snapshots' /\ Ahead'
  <2>1. ASSUME NEW j \in Servers, stage[j] = "made"
        PROVE  /\ logs'[<<j, inst[j]>>] = saved[j].xlog
               /\ lastApplied'[<<j, inst[j]>>] = saved[j].index
    <3>1. <<j, inst[j]>> # o
      BY <1>8, <2>1 DEF o
    <3> QED BY <1>2, <1>3, <2>1, <3>1 DEF Running, Snapshots
  <2>2. Snapshots'
    BY <1>1, <2>1 DEF Running, Snapshots, Complete
  <2>3. ASSUME NEW j \in Servers, ~rewound'
        PROVE  Within(saved[j].xlog, Cur(j)') /\ saved[j].index <= lastApplied'[<<j, srvs[j]>>]
    <3>1. saved[j].index \in 0..MaxIndex
      BY DEF TypeOK, Snaps
    <3>2. saved[j].index \in Nat
      BY <3>1, Bounds
    <3>3. /\ Complete(saved[j]) /\ Within(saved[j].xlog, Cur(j))
          /\ saved[j].index <= lastApplied[<<j, srvs[j]>>]
      BY <1>1, <2>3 DEF Running, Snapshots, Ahead
    <3>4. CASE <<j, srvs[j]>> = o
      <4>1. j = i /\ k = srvs[i]
        BY <3>4 DEF o
      <4>2. saved[j].index <= s.index /\ lastApplied'[<<j, srvs[j]>>] = s.index
        BY <1>1, <1>2, <1>3, <2>3, <3>2, <3>4, <4>1
      <4>3. PICK r \in Servers : Within(s.xlog, Cur(r))
        BY <1>1, <1>6, <2>3
      <4>4. ASSUME NEW x \in Index, saved[j].xlog[x] # None PROVE s.xlog[x] = saved[j].xlog[x]
        <5>1. x <= saved[j].index /\ x \in Nat
          BY <3>3, <4>4 DEF Complete, Index
        <5>2. x <= s.index
          BY <1>2, <3>2, <4>2, <5>1
        <5>3. s.xlog[x] # None /\ Cur(r)[x] = s.xlog[x]
          BY <1>4, <4>3, <5>2 DEF Complete, Within
        <5>4. Cur(j)[x] = saved[j].xlog[x]
          BY <3>3, <4>4 DEF Within
        <5> QED BY <1>1, <2>3, <4>4, <5>3, <5>4 DEF Running, Agree
      <4> QED BY <1>9, <3>4, <4>2, <4>4 DEF Within
    <3>5. CASE <<j, srvs[j]>> # o
      BY <1>2, <1>3, <1>9, <3>3, <3>5
    <3> QED BY <3>4, <3>5
  <2>4. Ahead'
    BY <1>1, <2>3 DEF Ahead, Within
  <2> QED BY <2>2, <2>4
<1>15. InFlight'
  BY <1>1, <1>3, Nothing DEF Running, InFlight, Complete, Within
<1>16. HonestLogs'
  BY <1>1, <1>2, <1>3, Nothing DEF Running, HonestLogs, Committed, m, s
<1>17. HonestNext'
  <2> SUFFICES ASSUME honest, NEW j \in Servers, stage[j] # "down", NEW q, q = <<j, inst[j]>>
               PROVE  /\ inbox'[q] = NoMsg =>
                            /\ Full(logs'[q], sent[q])
                            /\ snapshot => lastApplied'[q] = sent[q]
                      /\ inbox'[q].kind = "command" =>
                            /\ inbox'[q].index = sent[q] /\ Full(logs'[q], sent[q] - 1)
                            /\ snapshot => lastApplied'[q] = sent[q] - 1
                      /\ inbox'[q].kind = "snapshot" => inbox'[q].index = sent[q]
    BY <1>1 DEF HonestNext, Full
  <2>1. CASE q = o
    <3>1. s.index = sent[q]
      BY <1>1, <2>1 DEF Running, HonestNext, m
    <3> QED BY <1>2, <1>3, <1>7, <2>1, <3>1, Nothing
  <2>2. CASE q # o
    BY <1>2, <1>3, <2>2 DEF Running, HonestNext
  <2> QED BY <2>1, <2>2
<1> QED BY <1>10, <1>11, <1>12, <1>13, <1>14, <1>15, <1>16, <1>17 DEF Running

-----------------------------------------------------------------------------
(* The theorems *)

\* Every step keeps the invariant.
LEMMA NextInv == Inv /\ [Next]_vars => Inv'
<1> SUFFICES ASSUME Inv, [Next]_vars PROVE Inv'
  OBVIOUS
<1>1. CASE UNCHANGED vars
  BY <1>1 DEF vars, Inv, TypeOK, LiveNeverBlamed, SnapshotsComplete, Running, Staged, Snapshots,
              Ahead, InFlight, Agree, Prefix, Applied, HonestLogs, HonestNext, Cur, Full, Complete,
              Within, Committed
<1>2. CASE Next
  <2>1. TypeOK /\ Running /\ SnapshotsComplete /\ failed = "no"
    BY <1>2 DEF Inv, Next
  <2>2. ASSUME TypeOK', Running', failed' = "no" PROVE Inv'
    <3>1. TypeOK' /\ Snapshots' /\ HonestLogs' => SnapshotsComplete'
      BY SnapshotsFromRunning, PTL
    <3> QED BY <2>2, <3>1 DEF Inv, Running, LiveNeverBlamed
  <2>3. CASE Commit
    BY <2>1, <2>2, <2>3, CommitInv
  <2>4. ASSUME NEW i \in Servers, NewRfsrv(i) \/ MkSrv(i) \/ AddServer(i) \/ Kill(i)
        PROVE  Inv'
    BY <2>1, <2>2, <2>4, NewRfsrvInv, MkSrvInv, UpDownInv
  <2>5. ASSUME NEW i \in Servers, NEW k \in Insts, Receive(i, k) PROVE Inv'
    BY <2>1, <2>2, <2>5, ReceiveInv
  <2>6. ASSUME NEW i \in Servers, NEW k \in Insts,
               Apply(i, k) \/ ApplyGap(i, k) \/ ApplyNext(i, k) \/ IngestSnap(i, k)
        PROVE  Inv'
    <3>1. TypeOK'
      BY <2>1, <2>6, ApplierType
    <3>2. CASE failed' = "no"
      <4>1. ~ApplyGap(i, k)
        BY <3>2 DEF ApplyGap, Stop
      <4> QED BY <2>1, <2>2, <2>6, <3>1, <3>2, <4>1, CommandInv, IngestInv
    <3>3. CASE failed' # "no"
      <4>1. LiveNeverBlamed' /\ SnapshotsComplete'
        BY <2>1, <2>6, <3>3, StoppedInv
      <4> QED BY <3>1, <3>3, <4>1 DEF Inv
    <3> QED BY <3>2, <3>3
  <2> QED BY <1>2, <2>3, <2>4, <2>5, <2>6 DEF Next
<1> QED BY <1>1, <1>2

\* The invariant holds in every reachable state.
LEMMA InvHolds == Spec => []Inv
  BY InitInv, NextInv, PTL DEF Spec

\* Before two servers of the test have different values for an index, checkLogs has
\* reported it, over any restarts, stale appliers and snapshots of a wrong Raft, if these
\* have not taken a server back behind the snapshot it had made: ingestSnap accepts that.
THEOREM DisagreementIsReported == Spec => []DisagreementReported
<1>1. Inv => DisagreementReported
  <2> SUFFICES ASSUME Inv, failed = "no", ~rewound, NEW x \in Index
               PROVE  Cardinality(NCommitted(x)) <= 1
    BY DEF DisagreementReported
  <2>1. \A a, b \in NCommitted(x) : a = b
    BY DEF Inv, Running, Agree, NCommitted, Cur
  <2>2. CASE NCommitted(x) = {}
    BY <2>2, FS_EmptySet
  <2>3. CASE NCommitted(x) # {}
    <3>1. PICK a \in NCommitted(x) : NCommitted(x) = {a}
      BY <2>1, <2>3
    <3>2. Cardinality({a}) = 1
      BY FS_Singleton
    <3> QED BY <3>1, <3>2
  <2> QED BY <2>2, <2>3
<1> QED BY <1>1, InvHolds, PTL

\* However wrong the Raft is: before a server of the test has an entry without all the ones
\* before it, the appliers have reported it.
THEOREM GapsAreReported == Spec => []GapsReported
<1>1. Inv => GapsReported
  BY DEF Inv, Running, Prefix, Full, Cur, GapsReported
<1> QED BY <1>1, InvHolds, PTL

\* With a correct Raft the appliers of running servers report nothing.
THEOREM LiveIsNeverBlamed == Spec => []LiveNeverBlamed
<1>1. Inv => LiveNeverBlamed
  BY DEF Inv
<1> QED BY <1>1, InvHolds, PTL

\* With a correct Raft every snapshot holds the committed commands up to its index.
THEOREM SnapshotsAreComplete == Spec => []SnapshotsComplete
<1>1. Inv => SnapshotsComplete
  BY DEF Inv
<1> QED BY <1>1, InvHolds, PTL
=============================================================================
