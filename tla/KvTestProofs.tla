---------------------------- MODULE KvTestProofs ----------------------------
(***************************************************************************)
(* What the tests of kvtest1 guarantee for every set of clients and every  *)
(* number of iterations, rounds and lost replies: no test blames a service *)
(* that keeps its promises, and no test that porcupine has accepted hides  *)
(* an acknowledged Put that the service has lost.                          *)
(***************************************************************************)
EXTENDS KvTest, FiniteSetTheorems, WellFoundedInduction, TLAPS

-----------------------------------------------------------------------------
(* The inductive invariant *)

Entries == [id: Procs, n: Nat]
Vals    == Seq(Entries) \cup {None}
States  == [val: Vals, ver: Nat]
Places  == {"head", "get", "put", "result", "end", "fatal", "sleep", "signal", "passed", "start"}
Errs    == {"none", "OK", "ErrNoKey", "ErrVersion", "ErrMaybe"}
Replies == [val: Vals, ver: Nat, err: {"none", "OK", "ErrNoKey", "ErrVersion"}]
CallRecs == [op: {"none", "get", "put"}, val: Vals, ver: Nat, start: Nat, resent: BOOLEAN,
             reply: Replies]
Ops     == [op: {"get", "put"}, val: Vals, ver: Nat, out: Vals, err: Errs, start: Nat, end: Nat]
Results == [nok: Nat, nmaybe: Nat]

TypeOK ==
    /\ fn \in {"append", "put", "atleastonce"}
    /\ reliable \in BOOLEAN
    /\ forgot \in {"never", "not yet", "once"}
    /\ kv \in States
    /\ pc \in [Procs -> Places]
    /\ call \in [Procs -> CallRecs]
    /\ iter \in [Clients -> Nat]
    /\ ver \in [Procs -> Nat]
    /\ err \in [Clients -> Errs]
    /\ res \in [Clients -> Results]
    /\ total \in Results
    /\ round \in Nat
    /\ oplog \subseteq Ops
    /\ verdict \in {"none", "ok", "illegal", "unknown"}

\* Who is where, and who is in a call.
Phases ==
    /\ \A p \in Procs : IF pc[p] \in {"get", "put"} THEN call[p].op = pc[p] ELSE call[p] = NoCall
    /\ fn # "atleastonce" =>
          /\ pc[Tester] \in {"sleep", "signal", "get", "passed", "fatal"}
          /\ \A c \in Clients : IF pc[Tester] \in {"sleep", "signal"}
                                THEN pc[c] \in {"head", "get", "put", "result", "fatal"}
                                ELSE pc[c] = "end"
    /\ fn = "atleastonce" =>
          /\ pc[Tester] \in {"start", "put", "get", "passed", "fatal"}
          /\ \A c \in Clients : pc[c] = "head"
    /\ forgot # "never" => reliable
    /\ reliable => \A p \in Procs : ~ call[p].resent

\* The times in the log count the calls that have returned.
Times ==
    /\ IsFiniteSet(oplog)
    /\ \A o \in oplog : o.start < o.end /\ o.end <= Cardinality(oplog)
    /\ \A o, q \in oplog : o.end = q.end => o = q
    /\ \A p \in Procs : call[p].start <= Cardinality(oplog)
    /\ fn # "atleastonce" /\ pc[Tester] = "get" => call[Tester].start = Cardinality(oplog)

\* What the tester has read is what the key holds, as nobody else is in a call.
TesterReads ==
    pc[Tester] = "get" /\ call[Tester].reply # NoReply =>
        LET r == call[Tester].reply IN
        r.val = kv.val /\ r.ver = kv.ver /\ r.err = IF kv.ver = 0 THEN "ErrNoKey" ELSE "OK"

\* An answer says what became of the call.
Answers == \A p \in Procs : call[p].reply.err = "none" => call[p].reply = NoReply

\* A Put is answered with OK once for each version.
AckedPuts == {o \in oplog : o.op = "put" /\ o.err = "OK"}
AckedCall(p) == call[p].op = "put" /\ call[p].reply.err = "OK"
Acked ==
    forgot # "once" =>
        /\ \A o \in AckedPuts : o.ver < kv.ver
        /\ \A p \in Procs : AckedCall(p) => call[p].ver < kv.ver
        /\ \A o, q \in AckedPuts : o.ver = q.ver => o = q
        /\ \A o \in AckedPuts : \A p \in Procs : AckedCall(p) => o.ver # call[p].ver
        /\ \A p, q \in Procs : AckedCall(p) /\ AckedCall(q) /\ call[p].ver = call[q].ver => p = q

-----------------------------------------------------------------------------
(* Clients that append *)

Prefix(s, t) == Len(s) <= Len(t) /\ \A k \in 1..Len(s) : s[k] = t[k]
Mine(c)      == {k \in DOMAIN kv.val : kv.val[k].id = c}

\* The list and what is read of it.
ListRead(p) ==
    pc[p] = "get" /\ call[p].reply # NoReply =>
        LET r == call[p].reply IN
        /\ r.val \in Seq(Entries) /\ r.ver = Len(r.val) + 1 /\ r.err = "OK"
        /\ Prefix(r.val, kv.val)
AppendList ==
    /\ kv.val \in Seq(Entries) /\ kv.ver = Len(kv.val) + 1
    /\ \A p \in Procs : ListRead(p)

\* A Put adds an entry to what was read; whether that is still the list, its version tells.
AppendCall(c) ==
    pc[c] = "put" =>
        LET l == call[c] IN
        /\ l.val \in Seq(Entries) /\ l.ver = Len(l.val) /\ l.ver >= 1 /\ l.ver <= kv.ver
        /\ l.val[l.ver] = Entry(c, iter[c])
        /\ \A k \in 1..(l.ver - 1) : l.val[k] = kv.val[k]
        /\ l.reply.err \in {"none", "OK", "ErrVersion"}
AppendCalls == \A c \in Clients : AppendCall(c)

\* A client's entries are in order, and the entry of an iteration is there before the Put
\* has returned only if that Put is certain to leave the inner loop.
InOrder(c) ==
    /\ iter[c] = res[c].nok + res[c].nmaybe
    /\ \A j, k \in Mine(c) : j < k => kv.val[j].n < kv.val[k].n
    /\ \A k \in Mine(c) : kv.val[k].n <= iter[c]
    /\ \A k \in Mine(c) : kv.val[k].n = iter[c] =>
          /\ pc[c] = "put" /\ call[c].ver < kv.ver
          /\ call[c].reply.err = "OK" \/ call[c].resent
EntriesInOrder == \A c \in Clients : InOrder(c)

\* No acknowledged append is missing.
Enough(c)   == Cardinality(Mine(c)) >= res[c].nok + IF AckedCall(c) THEN 1 ELSE 0
AppendCount == forgot = "never" => \A c \in Clients : Enough(c)

\* The log: the key was put first, and a Put adds one entry to what a Get before it has read.
FirstPut == [op |-> "put", val |-> <<>>, ver |-> 0, out |-> None, err |-> "OK", start |-> 0, end |-> 1]
Extends(log, val, v, t) ==
    \E g \in log :
        /\ g.op = "get" /\ g.out \in Seq(Entries) /\ g.end <= t
        /\ val \in Seq(Entries) /\ Len(val) = v /\ v = Len(g.out) + 1 /\ Prefix(g.out, val)
AppendLog ==
    /\ FirstPut \in oplog
    /\ \A o \in oplog \ {FirstPut} : o.start >= 1
    /\ \A o \in oplog \ {FirstPut} : o.op = "put" => Extends(oplog, o.val, o.ver, o.start)
    /\ \A o \in oplog : o.op = "get" => o.out \in Seq(Entries)
    /\ \A p \in Procs : pc[p] \in {"get", "put"} => call[p].start >= 1
    /\ \A p \in Procs : pc[p] = "put" => Extends(oplog, call[p].val, call[p].ver, call[p].start)

\* What a test that has passed has shown.
AppendPassed ==
    pc[Tester] = "passed" /\ verdict = "ok" =>
        /\ \A o \in AckedPuts : o.ver < kv.ver
        /\ \A o, q \in AckedPuts : o.ver = q.ver => o = q
        /\ \A o \in AckedPuts : o.val # <<>> =>
              \E k \in DOMAIN kv.val : kv.val[k] = o.val[Len(o.val)]

AppendInv ==
    fn = "append" =>
        AppendList /\ AppendCalls /\ EntriesInOrder /\ AppendCount /\ AppendLog /\ AppendPassed

-----------------------------------------------------------------------------
(* Clients that put *)

\* The version after c's own Put has c's value.
OwnValue(c, val, v) == v = ver[c] + 1 => val = <<Entry(c, ver[c])>>

PutCall(c) ==
    /\ ver[c] <= kv.ver
    /\ pc[c] = "put" =>
          /\ call[c].ver = ver[c] /\ call[c].val = <<Entry(c, ver[c])>>
          /\ call[c].reply.err \in {"none", "OK", "ErrVersion"}
    /\ pc[c] = "get" =>
          /\ err[c] \in {"OK", "ErrVersion", "ErrMaybe"} /\ (reliable => err[c] # "ErrMaybe")
          /\ call[c].reply.ver <= kv.ver
    /\ reliable => res[c].nmaybe = 0
PutCalls == \A c \in Clients : PutCall(c)

\* With a service that has lost no Put: the key is there when it is read, and a client whose
\* Put was executed finds its own value, or a later version.
PutRead(c) ==
    /\ iter[c] > 0 \/ pc[c] = "get" => kv.ver >= 1
    /\ pc[c] = "put" /\ call[c].reply.err # "none" => kv.ver >= 1
    /\ AckedCall(c) \/ (pc[c] = "get" /\ err[c] = "OK") =>
          kv.ver >= ver[c] + 1 /\ OwnValue(c, kv.val, kv.ver)
    /\ pc[c] = "get" /\ call[c].reply # NoReply =>
          /\ call[c].reply.err = "OK"
          /\ err[c] = "OK" => OwnValue(c, call[c].reply.val, call[c].reply.ver)
PutReads ==
    forgot # "once" =>
        /\ pc[Tester] \in {"signal", "get", "passed"} => kv.ver >= 1
        /\ \A c \in Clients : PutRead(c)

\* A Put that was executed, or may have been, and that is not counted yet.
Uncounted(c) ==
    \/ AckedCall(c)
    \/ pc[c] = "put" /\ call[c].resent /\ call[c].ver < kv.ver
    \/ pc[c] = "get" /\ err[c] \in {"OK", "ErrMaybe"}
Weight(c) == res[c].nok + res[c].nmaybe + IF Uncounted(c) THEN 1 ELSE 0
Weights   == [c \in Clients |-> Weight(c)]
Executed  == kv.ver + IF forgot = "once" THEN 1 ELSE 0
AllCounted == total.nok + total.nmaybe + IF pc[Tester] \in {"sleep", "signal"} THEN Sum(Weights) ELSE 0

NoFatal  == \A c \in Clients : pc[c] # "fatal"
PutCount ==
    /\ reliable => total.nmaybe = 0
    /\ NoFatal => Executed <= AllCounted /\ (reliable => Executed = AllCounted)
    /\ pc[Tester] = "passed" => forgot # "once"

PutInv == fn = "put" => PutCalls /\ PutReads /\ PutCount

-----------------------------------------------------------------------------
(* The tester alone *)

AloneInv ==
    fn = "atleastonce" =>
        /\ pc[Tester] = "start" => ver[Tester] = kv.ver
        /\ pc[Tester] \in {"start", "passed"} => forgot # "once"
        /\ pc[Tester] = "put" =>
              LET l == call[Tester] IN
              /\ l.val = <<Entry(Tester, round)>> /\ l.ver = ver[Tester]
              /\ \/ kv.ver = l.ver /\ l.reply = NoReply /\ forgot # "once"
                 \/ /\ kv.ver = l.ver + 1 /\ kv.val = l.val /\ forgot # "once"
                    /\ l.reply.err = "OK" \/ (l.resent /\ l.reply.err \in {"none", "ErrVersion"})
                 \/ kv.ver = l.ver /\ l.reply.err = "OK" /\ forgot = "once"
        /\ pc[Tester] = "get" =>
              IF forgot = "once" THEN ver[Tester] = kv.ver + 1
              ELSE ver[Tester] = kv.ver /\ kv.ver >= 1 /\ kv.val = <<Entry(Tester, round)>>

-----------------------------------------------------------------------------
(* The order in which a correct service has executed the calls *)

\* L has the n calls that were executed, in that order, and st the states in between.
Runs(n, L, st, s) ==
    /\ n \in Nat /\ L \in [1..n -> Ops] /\ st \in [0..n -> States]
    /\ st[0] = KvInit /\ st[n] = s
    /\ \A k \in 1..n : Step(st[k - 1], L[k]) = [ok |-> TRUE, state |-> st[k]]

\* at[p] is the place of the call that p is in, 0 if it is not yet executed.
Placed(n, at) ==
    /\ at \in [Procs -> 0..n]
    /\ \A p, q \in Procs : at[p] = at[q] /\ p # q => at[p] = 0

\* The calls that have returned are those in the log, and none of them returned before one
\* that precedes it was made.
Free(at, k) == \A p \in Procs : at[p] # k
Logged(n, L, at, log) ==
    /\ \A k \in 1..n : Free(at, k) => L[k] \in log
    /\ \A o \in log : \E k \in 1..n : L[k] = o /\ Free(at, k)
    /\ \A j, k \in 1..n : Free(at, j) /\ Free(at, k) /\ L[j] = L[k] => j = k
    /\ \A j, k \in 1..n : Free(at, k) /\ j <= k => L[j].start < L[k].end

\* The call l has the place k, and an answer that the log can take.  A Put that is answered
\* with anything but OK may have been executed if it was sent again.
Waiting(l, k, L, st, s) ==
    /\ k = 0 => l.reply = NoReply
    /\ k # 0 =>
          /\ L[k].op = l.op /\ L[k].val = l.val /\ L[k].ver = l.ver /\ L[k].start = l.start
          /\ l.op = "get" => l.reply.err = "OK" /\ L[k].out = l.reply.val
          /\ l.op = "put" =>
                /\ l.ver < s.ver /\ l.reply.val = None
                /\ L[k].out = None /\ L[k].err = "ErrMaybe"
                /\ l.reply = NoReply => l.resent
                /\ l.reply.err \in {"none", "OK", "ErrVersion"}
                /\ l.reply.err = "OK" => st[k - 1].ver = l.ver
                /\ l.reply.err = "ErrVersion" => l.resent \/ st[k - 1].ver # l.ver

Explains(n, L, at, st, log, cl, s) ==
    /\ Runs(n, L, st, s) /\ Placed(n, at) /\ Logged(n, L, at, log)
    /\ \A p \in Procs : Waiting(cl[p], at[p], L, st, s)

Ordered(log, cl, s) == \E n, L, at, st : Explains(n, L, at, st, log, cl, s)

Linearized == forgot = "never" => Ordered(oplog, call, kv)

Inv ==
    /\ TypeOK /\ Phases /\ Times /\ TesterReads /\ Answers /\ Acked
    /\ AppendInv /\ PutInv /\ AloneInv /\ Linearized /\ NoFalseAlarm

-----------------------------------------------------------------------------
(* Induction over the steps of a search *)

\* What holds at 0 and is kept from k - 1 to k holds up to n.
LEMMA Iterated ==
    ASSUME NEW n \in Nat, NEW P, 0 \in P,
           \A k \in 1..n : k - 1 \in P => k \in P
    PROVE  \A k \in 0..n : k \in P
<1> DEFINE bad == {k \in 0..n : k \notin P}
<1> SUFFICES ASSUME bad # {}
             PROVE  FALSE
  OBVIOUS
<1>1. bad \subseteq Nat
  OBVIOUS
<1>2. PICK x \in bad : \A y \in bad : ~ (<<y, x>> \in OpToRel(<, Nat))
  BY <1>1, WFMin, NatLessThanWellFounded, Zenon
<1>3. \A y \in bad : ~ (y < x)
  BY <1>1, <1>2 DEF OpToRel
<1>4. x \in 1..n
  OBVIOUS
<1>5. x - 1 \in 0..n /\ x - 1 < x
  BY <1>4
<1>6. x - 1 \in P
  BY <1>3, <1>5
<1> QED
  BY <1>4, <1>6

\* F is the body of a loop of n iterations over the states S, and f what the iterations
\* make of base.
Body(F, n, S) == F \in [(1..n) \X S -> S]

Loop(f, base, F, n, S) ==
    f \in [0..n -> S] /\ f[0] = base /\ \A k \in 1..n : f[k] = F[<<k, f[k - 1]>>]

\* A loop of n steps over the states S has a run.
LEMMA LoopExists ==
    ASSUME NEW S, NEW base \in S, NEW n \in Nat, NEW F, Body(F, n, S)
    PROVE  \E f : Loop(f, base, F, n, S)
<1> DEFINE Good(f, m) == f[0] = base /\ \A k \in 1..m : f[k] = F[<<k, f[k - 1]>>]
           P == {m \in 0..n : \E f \in [0..m -> S] : Good(f, m)}
<1>1. 0 \in P
  <2> DEFINE f == [k \in 0..0 |-> base]
  <2>1. f \in [0..0 -> S] /\ f[0] = base /\ 1..0 = {}
    OBVIOUS
  <2>2. Good(f, 0)
    BY <2>1
  <2> HIDE DEF f
  <2>3. \E h \in [0..0 -> S] : Good(h, 0)
    BY <2>1, <2>2, Zenon
  <2>4. 0 \in 0..n
    OBVIOUS
  <2> HIDE DEF Good
  <2> QED
    BY <2>3, <2>4, Zenon
<1>2. ASSUME NEW m \in 1..n, m - 1 \in P
      PROVE  m \in P
  <2>1. PICK f \in [0..(m - 1) -> S] : Good(f, m - 1)
    BY <1>2
  <2> DEFINE g == [k \in 0..m |-> IF k = m THEN F[<<m, f[m - 1]>>] ELSE f[k]]
  <2>2. m \in Nat /\ m - 1 \in 0..(m - 1) /\ \A k \in 0..m : k # m => k \in 0..(m - 1)
    OBVIOUS
  <2>3. F[<<m, f[m - 1]>>] \in S
    BY <2>2 DEF Body
  <2>4. g \in [0..m -> S]
    BY <2>2, <2>3
  <2>5. g[0] = base
    BY <2>1, <2>2
  <2>6. ASSUME NEW k \in 1..m
        PROVE  g[k] = F[<<k, g[k - 1]>>]
    <3>1. k - 1 \in 0..m /\ k - 1 # m /\ k \in 0..m
      BY <2>2
    <3>2. g[k - 1] = f[k - 1]
      BY <3>1
    <3>3. CASE k = m
      BY <3>1, <3>2, <3>3
    <3>4. CASE k # m
      <4>1. k \in 1..(m - 1)
        BY <2>2, <3>4
      <4> QED
        BY <2>1, <3>1, <3>2, <3>4, <4>1
    <3> QED
      BY <3>3, <3>4
  <2>7. Good(g, m)
    BY <2>5, <2>6
  <2>8. m \in 0..n
    OBVIOUS
  <2> HIDE DEF g, Good
  <2> QED
    BY <2>4, <2>7, <2>8, Zenon
<1> HIDE DEF P
<1>3. \A m \in 0..n : m \in P
  BY <1>1, <1>2, Iterated
<1>4. n \in P
  BY <1>3
<1> QED
  BY <1>4 DEF P, Loop

-----------------------------------------------------------------------------
(* Sums over the clients *)

Units(f) == UNION {{c} \X (1..f[c]) : c \in Clients}

\* The things that Sum counts: a number of them for each client.
LEMMA UnitsIn ==
    ASSUME NEW f, NEW u
    PROVE  u \in Units(f) <=> \E c \in Clients : \E i \in 1..f[c] : u = <<c, i>>
  BY DEF Units

LEMMA UnitsFinite ==
    ASSUME NEW f \in [Clients -> Nat]
    PROVE  IsFiniteSet(Units(f)) /\ Sum(f) = Cardinality(Units(f)) /\ Sum(f) \in Nat
<1> DEFINE g == [c \in Clients |-> {c} \X (1..f[c])]
           S == {{c} \X (1..f[c]) : c \in Clients}
<1>1. g \in Surjection(Clients, S)
  BY DEF Surjection
<1>2. IsFiniteSet(S)
  BY <1>1, FS_Surjection, ClientsAssumption, Zenon
<1>3. ASSUME NEW c \in Clients
      PROVE  IsFiniteSet({c} \X (1..f[c]))
  <2>1. IsFiniteSet(1..f[c])
    BY FS_Interval
  <2>2. IsFiniteSet({c})
    BY FS_Singleton
  <2> QED
    BY <2>1, <2>2, FS_Product
<1>4. \A T \in S : IsFiniteSet(T)
  BY <1>3
<1>5. IsFiniteSet(Units(f))
  BY <1>2, <1>4, FS_UNION DEF Units
<1> QED
  BY <1>5, FS_CardinalityType DEF Units, Sum

LEMMA SumZero ==
    ASSUME NEW f \in [Clients -> Nat], \A c \in Clients : f[c] = 0
    PROVE  Sum(f) = 0
<1>1. \A c \in Clients : 1..f[c] = {}
  OBVIOUS
<1>2. Units(f) = {}
  BY <1>1, UnitsIn
<1> QED
  BY <1>2, UnitsFinite, FS_EmptySet

\* Counting more for some clients counts no less in all.
LEMMA SumMono ==
    ASSUME NEW f \in [Clients -> Nat], NEW g \in [Clients -> Nat],
           \A c \in Clients : f[c] <= g[c]
    PROVE  Sum(f) <= Sum(g)
<1>1. \A c \in Clients : 1..f[c] \subseteq 1..g[c]
  OBVIOUS
<1>2. Units(f) \subseteq Units(g)
  BY <1>1, UnitsIn
<1> QED
  BY <1>2, UnitsFinite, FS_Subset

\* One more for one client is one more in all.
LEMMA SumOneMore ==
    ASSUME NEW f \in [Clients -> Nat], NEW g \in [Clients -> Nat], NEW a \in Clients,
           g[a] = f[a] + 1, \A c \in Clients \ {a} : f[c] = g[c]
    PROVE  Sum(g) = Sum(f) + 1
<1>1. 1..g[a] = (1..f[a]) \cup {g[a]} /\ g[a] \notin 1..f[a]
  OBVIOUS
<1>2. Units(g) = Units(f) \cup {<<a, g[a]>>}
  <2>1. ASSUME NEW u \in Units(g)
        PROVE  u \in Units(f) \cup {<<a, g[a]>>}
    <3>a. PICK c \in Clients : \E i \in 1..g[c] : u = <<c, i>>
      BY UnitsIn
    <3>1. PICK i \in 1..g[c] : u = <<c, i>>
      BY <3>a
    <3>2. i \in 1..f[c] \/ (c = a /\ i = g[a])
      BY <1>1
    <3> QED
      BY <3>1, <3>2, UnitsIn
  <2>2. ASSUME NEW u \in Units(f)
        PROVE  u \in Units(g)
    <3>a. PICK c \in Clients : \E i \in 1..f[c] : u = <<c, i>>
      BY UnitsIn
    <3>1. PICK i \in 1..f[c] : u = <<c, i>>
      BY <3>a
    <3>2. i \in 1..g[c]
      BY <1>1
    <3> QED
      BY <3>1, <3>2, UnitsIn
  <2>3. <<a, g[a]>> \in Units(g)
    <3>1. g[a] \in 1..g[a]
      OBVIOUS
    <3> QED
      BY <3>1, UnitsIn
  <2> QED
    BY <2>1, <2>2, <2>3
<1>3. <<a, g[a]>> \notin Units(f)
  BY <1>1, UnitsIn
<1> QED
  BY <1>2, <1>3, UnitsFinite, FS_AddElement

\* GenericTest adds the nok and the nmaybe of the clients apart, or together: it is the same.
LEMMA SumAdd ==
    ASSUME NEW f \in [Clients -> Nat], NEW g \in [Clients -> Nat], NEW h \in [Clients -> Nat],
           \A c \in Clients : h[c] = f[c] + g[c]
    PROVE  Sum(h) = Sum(f) + Sum(g)
<1> DEFINE shift == [u \in Units(g) |-> <<u[1], u[2] + f[u[1]]>>]
           B     == {shift[u] : u \in Units(g)}
<1>1. ASSUME NEW u \in Units(g)
      PROVE  /\ u[1] \in Clients /\ u[2] \in 1..g[u[1]] /\ u = <<u[1], u[2]>>
             /\ shift[u] = <<u[1], u[2] + f[u[1]]>>
  BY UnitsIn
<1> HIDE DEF shift
<1>2. \A u, v \in Units(g) : shift[u] = shift[v] => u = v
  <2> SUFFICES ASSUME NEW u \in Units(g), NEW v \in Units(g), shift[u] = shift[v]
               PROVE  u = v
    OBVIOUS
  <2>1. u[1] = v[1] /\ u[2] + f[u[1]] = v[2] + f[v[1]]
    BY <1>1
  <2>2. u[2] \in Int /\ v[2] \in Int /\ f[u[1]] \in Nat
    BY <1>1
  <2>3. u[2] = v[2]
    BY <2>1, <2>2
  <2> QED
    BY <1>1, <2>1, <2>3
<1>3. shift \in Bijection(Units(g), B)
  <2>1. shift \in [Units(g) -> B]
    BY DEF shift
  <2> QED
    BY <1>2, <2>1 DEF Bijection, Injection, Surjection, IsInjective
<1>4. IsFiniteSet(B) /\ Cardinality(B) = Sum(g)
  BY <1>3, UnitsFinite, FS_Bijection DEF ExistsBijection
<1>5. Units(h) = Units(f) \cup B
  <2>1. ASSUME NEW u \in Units(h)
        PROVE  u \in Units(f) \cup B
    <3>a. PICK c \in Clients : \E i \in 1..h[c] : u = <<c, i>>
      BY UnitsIn
    <3>1. PICK i \in 1..h[c] : u = <<c, i>>
      BY <3>a
    <3>2. CASE i <= f[c]
      <4>1. i \in 1..f[c]
        BY <3>2
      <4> QED
        BY <3>1, <4>1, UnitsIn
    <3>3. CASE i > f[c]
      <4>1. i - f[c] \in 1..g[c] /\ (i - f[c]) + f[c] = i
        BY <3>3
      <4> DEFINE w == <<c, i - f[c]>>
      <4>2. w \in Units(g)
        BY <4>1, UnitsIn
      <4>3. shift[w] = u
        BY <1>1, <3>1, <4>1, <4>2
      <4> QED
        BY <4>2, <4>3
    <3> QED
      BY <3>2, <3>3
  <2>2. ASSUME NEW u \in Units(f)
        PROVE  u \in Units(h)
    <3>a. PICK c \in Clients : \E i \in 1..f[c] : u = <<c, i>>
      BY UnitsIn
    <3>1. PICK i \in 1..f[c] : u = <<c, i>>
      BY <3>a
    <3>2. i \in 1..h[c]
      OBVIOUS
    <3> QED
      BY <3>1, <3>2, UnitsIn
  <2>3. ASSUME NEW u \in Units(g)
        PROVE  shift[u] \in Units(h)
    <3>1. u[2] + f[u[1]] \in 1..h[u[1]]
      BY <1>1
    <3> QED
      BY <1>1, <3>1, UnitsIn
  <2> QED
    BY <2>1, <2>2, <2>3
<1>6. Units(f) \cap B = {}
  <2>1. ASSUME NEW u \in Units(g), shift[u] \in Units(f)
        PROVE  FALSE
    <3>a. PICK c \in Clients : \E i \in 1..f[c] : shift[u] = <<c, i>>
      BY <2>1, UnitsIn
    <3>1. PICK i \in 1..f[c] : shift[u] = <<c, i>>
      BY <3>a
    <3>2. c = u[1] /\ i = u[2] + f[u[1]]
      BY <1>1, <3>1
    <3> QED
      BY <1>1, <3>2
  <2> QED
    BY <2>1
<1> HIDE DEF B
<1>7. Cardinality(Units(h)) = Cardinality(Units(f)) + Cardinality(B) - Cardinality({})
  BY <1>4, <1>5, <1>6, UnitsFinite, FS_Union
<1> QED
  BY <1>4, <1>7, UnitsFinite, FS_EmptySet

-----------------------------------------------------------------------------
(* porcupine's search *)

Configs(ops) == [todo: SUBSET ops, state: States]
Advance(C)   == UNION {After(c) : c \in C}

\* The sets that the search goes through, r[k] after k calls.
Search(r, ops, n) ==
    /\ r \in [0..n -> SUBSET Configs(ops)]
    /\ r[0] = {[todo |-> ops, state |-> KvInit]}
    /\ \A k \in 1..n : r[k] = Advance(r[k - 1])

LEMMA StepTyped ==
    ASSUME NEW s \in States, NEW o \in Ops
    PROVE  Step(s, o).state \in States
  BY DEF Step, States, Ops

\* After, in both directions: a call that may come next, and what it leaves.
LEMMA AfterIn ==
    ASSUME NEW c, NEW o \in c.todo, Step(c.state, o).ok, \A p \in c.todo : p.end > o.start
    PROVE  [todo |-> c.todo \ {o}, state |-> Step(c.state, o).state] \in After(c)
  BY Zenon DEF After

LEMMA AfterOut ==
    ASSUME NEW c, NEW d \in After(c)
    PROVE  \E o \in c.todo : /\ Step(c.state, o).ok
                             /\ \A p \in c.todo : p.end > o.start
                             /\ d = [todo |-> c.todo \ {o}, state |-> Step(c.state, o).state]
  BY Zenon DEF After

LEMMA AdvanceTyped ==
    ASSUME NEW ops \in SUBSET Ops, NEW C \in SUBSET Configs(ops)
    PROVE  Advance(C) \in SUBSET Configs(ops)
<1> SUFFICES ASSUME NEW c \in C, NEW d \in After(c)
             PROVE  d \in Configs(ops)
  BY DEF Advance
<1>1. c.todo \in SUBSET ops /\ c.state \in States
  BY DEF Configs
<1>2. PICK o \in c.todo : d = [todo |-> c.todo \ {o}, state |-> Step(c.state, o).state]
  BY AfterOut
<1>3. Step(c.state, o).state \in States
  BY <1>1, StepTyped
<1> QED
  BY <1>1, <1>2, <1>3 DEF Configs

\* Linearizable is the search that starts with the whole log and ends when no call is left.
LEMMA Searched ==
    ASSUME NEW ops \in SUBSET Ops, IsFiniteSet(ops)
    PROVE  \E r : Search(r, ops, Cardinality(ops)) /\ (Linearizable(ops) <=> r[Cardinality(ops)] # {})
<1> DEFINE n == Cardinality(ops)
           S == SUBSET Configs(ops)
           F == [x \in (1..n) \X S |-> Advance(x[2])]
           base == {[todo |-> ops, state |-> KvInit]}
           Is(f) == f = [k \in 0..n |-> IF k = 0 THEN base ELSE UNION {After(c) : c \in f[k - 1]}]
<1>1. n \in Nat
  BY FS_CardinalityType
<1>2. base \in S
  BY DEF Configs, KvInit, States, Vals
<1> HIDE DEF n, base
<1>3. Body(F, n, S)
  <2>1. \A x \in (1..n) \X S : Advance(x[2]) \in S
    BY AdvanceTyped
  <2> QED
    BY <2>1, Zenon DEF Body
<1> HIDE DEF F
<1>4. PICK f : Loop(f, base, F, n, S)
  BY <1>1, <1>2, <1>3, LoopExists
<1>5. \A k \in 1..n : f[k] = Advance(f[k - 1])
  <2> SUFFICES ASSUME NEW k \in 1..n
               PROVE  f[k] = Advance(f[k - 1])
    OBVIOUS
  <2>1. k - 1 \in 0..n
    BY <1>1
  <2>2. <<k, f[k - 1]>> \in (1..n) \X S
    BY <1>4, <2>1 DEF Loop
  <2> QED
    BY <1>4, <2>2 DEF F, Loop
<1>6. Is(f)
  <2>1. \A k \in 0..n : k # 0 => k \in 1..n
    BY <1>1
  <2> QED
    BY <1>4, <1>5, <2>1 DEF Loop, Advance
<1> DEFINE g == CHOOSE g : Is(g)
<1>7. Is(g)
  BY <1>6
<1> HIDE DEF g
<1>8. g[0] = base /\ \A k \in 1..n : g[k] = Advance(g[k - 1])
  <2>1. 0 \in 0..n /\ \A k \in 1..n : k \in 0..n /\ k # 0
    BY <1>1
  <2> QED
    BY <1>7, <2>1 DEF Advance
<1>9. \A k \in 0..n : g[k] \in S
  <2> DEFINE P == {k \in 0..n : g[k] \in S}
  <2>1. 0 \in P
    BY <1>1, <1>2, <1>8
  <2>2. \A k \in 1..n : k - 1 \in P => k \in P
    BY <1>1, <1>8, AdvanceTyped
  <2> HIDE DEF P
  <2>3. \A k \in 0..n : k \in P
    BY <1>1, <2>1, <2>2, Iterated
  <2> QED
    BY <2>3 DEF P
<1>10. g \in [0..n -> S]
  BY <1>7, <1>9
<1>11. Linearizable(ops) <=> g[n] # {}
  BY DEF Linearizable, g, n, base
<1>12. Search(g, ops, n)
  BY <1>8, <1>10 DEF Search, base
<1> QED
  BY <1>11, <1>12 DEF n

\* A log without pending calls, in the order in which the calls were executed.
LEMMA OrderedLinearizable ==
    ASSUME NEW log \in SUBSET Ops, IsFiniteSet(log), NEW cl, NEW s,
           Ordered(log, cl, s), \A p \in Procs : cl[p].op = "none"
    PROVE  Linearizable(log)
<1>1. PICK n, L, at, st : Explains(n, L, at, st, log, cl, s)
  BY DEF Ordered
<1>2. /\ n \in Nat /\ L \in [1..n -> Ops] /\ st \in [0..n -> States] /\ at \in [Procs -> 0..n]
      /\ st[0] = KvInit
      /\ \A k \in 1..n : Step(st[k - 1], L[k]) = [ok |-> TRUE, state |-> st[k]]
  BY <1>1 DEF Explains, Runs, Placed
<1>3. \A p \in Procs : at[p] = 0
  <2> SUFFICES ASSUME NEW p \in Procs, at[p] # 0
               PROVE  FALSE
    OBVIOUS
  <2>1. at[p] \in 1..n
    BY <1>2
  <2>2. L[at[p]].op = cl[p].op
    BY <1>1, <2>1 DEF Explains, Waiting
  <2>3. L[at[p]].op \in {"get", "put"}
    BY <1>2, <2>1 DEF Ops
  <2> QED
    BY <2>2, <2>3
<1>4. \A k \in 1..n : Free(at, k)
  BY <1>3 DEF Free
<1>5. /\ \A k \in 1..n : L[k] \in log
      /\ \A o \in log : \E k \in 1..n : L[k] = o
      /\ \A j, k \in 1..n : L[j] = L[k] => j = k
      /\ \A j, k \in 1..n : j <= k => L[j].start < L[k].end
  BY <1>1, <1>4 DEF Explains, Logged
<1>6. Cardinality(log) = n
  <2>1. L \in Bijection(1..n, log)
    BY <1>2, <1>5 DEF Bijection, Injection, Surjection, IsInjective
  <2>2. n \in Nat /\ n \in Int /\ 1 \in Int
    BY <1>2
  <2>3. IsFiniteSet(1..n) /\ Cardinality(1..n) = IF 1 > n THEN 0 ELSE n - 1 + 1
    BY <2>2, FS_Interval
  <2>4. Cardinality(1..n) = n
    BY <2>2, <2>3
  <2> QED
    BY <2>1, <2>3, <2>4, FS_Bijection DEF ExistsBijection
<1>7. PICK r : Search(r, log, n) /\ (Linearizable(log) <=> r[n] # {})
  BY <1>6, Searched
<1> DEFINE Left(k) == {L[i] : i \in (k + 1)..n}
           P == {k \in 0..n : [todo |-> Left(k), state |-> st[k]] \in r[k]}
<1>8. 0 \in P
  <2>1. Left(0) = log
    <3>1. (0 + 1)..n = 1..n
      OBVIOUS
    <3> QED
      BY <1>5, <3>1
  <2> HIDE DEF Left
  <2>2. [todo |-> Left(0), state |-> st[0]] \in r[0]
    BY <1>2, <1>7, <2>1 DEF Search
  <2> QED
    BY <1>2, <2>2
<1>9. ASSUME NEW k \in 1..n, k - 1 \in P
      PROVE  k \in P
  <2> DEFINE c == [todo |-> Left(k - 1), state |-> st[k - 1]]
  <2>1. c \in r[k - 1] /\ c.todo = Left(k - 1) /\ c.state = st[k - 1]
    BY <1>9
  <2>2. (k - 1) + 1 = k
    OBVIOUS
  <2>3. L[k] \in Left(k - 1)
    BY <2>2
  <2>4. Step(c.state, L[k]) = [ok |-> TRUE, state |-> st[k]]
    BY <1>2
  <2>5. \A p \in Left(k - 1) : p.end > L[k].start
    <3> SUFFICES ASSUME NEW i \in k..n
                 PROVE  L[i].end > L[k].start
      BY <2>2
    <3>1. i \in 1..n /\ k <= i
      OBVIOUS
    <3>2. L[i].end \in Nat /\ L[k].start \in Nat
      BY <1>2, <3>1 DEF Ops
    <3> QED
      BY <1>5, <3>1, <3>2
  <2>6. Left(k) = Left(k - 1) \ {L[k]}
    <3>1. \A i \in k..n : i = k \/ i \in (k + 1)..n
      OBVIOUS
    <3>2. \A i \in (k + 1)..n : i \in k..n /\ i \in 1..n /\ i # k
      OBVIOUS
    <3>3. \A i \in (k + 1)..n : L[i] # L[k]
      BY <1>5, <3>2
    <3> QED
      BY <2>2, <3>1, <3>2, <3>3
  <2> HIDE DEF c, Left
  <2>7. [todo |-> c.todo \ {L[k]}, state |-> Step(c.state, L[k]).state] \in After(c)
    BY <2>1, <2>3, <2>4, <2>5, AfterIn
  <2>8. [todo |-> Left(k), state |-> st[k]] \in After(c)
    BY <2>1, <2>4, <2>6, <2>7
  <2>9. r[k] = Advance(r[k - 1])
    BY <1>7 DEF Search
  <2>10. [todo |-> Left(k), state |-> st[k]] \in r[k]
    BY <2>1, <2>8, <2>9 DEF Advance
  <2> QED
    BY <2>10
<1> HIDE DEF P
<1>10. \A k \in 0..n : k \in P
  BY <1>2, <1>8, <1>9, Iterated
<1>11. n \in P
  BY <1>2, <1>10
<1> QED
  BY <1>7, <1>11 DEF P

-----------------------------------------------------------------------------
(* What an order of the calls shows when clients append *)

\* A log of clients that append, whose last call is the Get f.
ListLog(ops, f) ==
    /\ FirstPut \in ops
    /\ \A o \in ops \ {FirstPut} : o.start >= 1
    /\ \A o \in ops \ {FirstPut} : o.op = "put" => Extends(ops, o.val, o.ver, o.start)
    /\ \A o \in ops : o.op = "get" => o.out \in Seq(Entries)
    /\ f \in ops /\ f.op = "get"
    /\ \A o \in ops \ {f} : o.end <= f.start

IsAcked(o) == o.op = "put" /\ o.err = "OK"

\* What holds when the search has put the calls of D in order and is in the state s.
Agrees(D, s) ==
    /\ s.val \in Seq(Entries) /\ s.ver = Len(s.val) + 1
    /\ \A o \in D : IsAcked(o) => o.ver < s.ver
    /\ \A o, q \in D : IsAcked(o) /\ IsAcked(q) /\ o.ver = q.ver => o = q
    /\ \A o \in D : IsAcked(o) /\ o.ver >= 1 => o.val[o.ver] = s.val[o.ver]
    /\ \A g \in D : g.op = "get" => Prefix(g.out, s.val)

Good(ops, f, c) ==
    /\ c \in Configs(ops)
    /\ \/ c.todo = ops /\ c.state = KvInit
       \/ /\ FirstPut \notin c.todo
          /\ Agrees(ops \ c.todo, c.state)
          /\ f \notin c.todo => c.todo = {} /\ c.state.val = f.out

\* Only the Put of the empty list can come first.
LEMMA FirstStep ==
    ASSUME NEW ops \in SUBSET Ops, NEW f, ListLog(ops, f),
           NEW o \in ops, Step(KvInit, o).ok, \A p \in ops : p.end > o.start
    PROVE  Good(ops, f, [todo |-> ops \ {o}, state |-> Step(KvInit, o).state])
<1>1. o = FirstPut
  <2>1. FirstPut \in ops /\ FirstPut.end = 1 /\ o.start \in Nat
    BY DEF ListLog, FirstPut, Ops
  <2>2. ~ (o.start >= 1)
    BY <2>1
  <2> QED
    BY <2>2 DEF ListLog
<1> DEFINE s == [val |-> <<>>, ver |-> 1]
<1>2. Step(KvInit, o).state = s
  BY <1>1 DEF FirstPut, Step, KvInit
<1>3. ops \ (ops \ {o}) = {FirstPut} /\ f # FirstPut /\ f \in ops
  BY <1>1 DEF ListLog, FirstPut
<1>4. s \in States /\ s.val \in Seq(Entries) /\ s.ver = Len(s.val) + 1
  BY DEF States, Vals
<1>5. Agrees({FirstPut}, s)
  BY <1>4 DEF Agrees, FirstPut
<1> HIDE DEF s
<1> QED
  BY <1>1, <1>2, <1>3, <1>4, <1>5 DEF Good, Configs

\* A later call keeps the list in agreement with the calls before it.
LEMMA LaterStep ==
    ASSUME NEW ops \in SUBSET Ops, NEW f, ListLog(ops, f),
           NEW todo \in SUBSET ops, NEW s \in States,
           FirstPut \notin todo, Agrees(ops \ todo, s), f \in todo,
           NEW o \in todo, Step(s, o).ok, \A p \in todo : p.end > o.start
    PROVE  Good(ops, f, [todo |-> todo \ {o}, state |-> Step(s, o).state])
<1> DEFINE D == ops \ todo
           E == ops \ (todo \ {o})
           t == Step(s, o).state
<1>1. E = D \cup {o} /\ o \notin D /\ o \in Ops
  OBVIOUS
<1>2. t \in States
  BY <1>1, StepTyped
<1>3. FirstPut \notin todo \ {o}
  OBVIOUS
<1>4. s.ver \in Nat /\ s.val \in Seq(Entries) /\ s.ver = Len(s.val) + 1 /\ Len(s.val) \in Nat
  BY DEF States, Agrees
<1>5. CASE o.op = "get"
  <2>1. t = s /\ o.out = s.val /\ ~ IsAcked(o)
    BY <1>5 DEF Step, IsAcked
  <2>2. Prefix(s.val, s.val)
    BY <1>4 DEF Prefix
  <2>3. Agrees(E, s)
    BY <1>1, <2>1, <2>2 DEF Agrees
  <2>4. f \notin todo \ {o} => todo \ {o} = {} /\ s.val = f.out
    <3> SUFFICES ASSUME o = f
                 PROVE  todo \ {o} = {} /\ s.val = f.out
      OBVIOUS
    <3>1. ASSUME NEW p \in todo, p # f
          PROVE  FALSE
      <4>1. p.end > f.start
        OBVIOUS
      <4>2. p.end <= f.start
        BY <3>1 DEF ListLog
      <4>3. p.end \in Nat /\ f.start \in Nat
        BY <1>1 DEF Ops
      <4> QED
        BY <4>1, <4>2, <4>3
    <3> QED
      BY <2>1, <3>1
  <2> HIDE DEF t, E
  <2> QED
    BY <1>2, <1>3, <2>1, <2>3, <2>4 DEF Good, Configs, E, t
<1>6. CASE o.op = "put" /\ s.ver = o.ver
  <2>1. t = [val |-> o.val, ver |-> s.ver + 1] /\ f # o
    BY <1>6 DEF Step, ListLog
  <2>2. PICK g \in ops : /\ g.op = "get" /\ g.out \in Seq(Entries) /\ g.end <= o.start
                         /\ o.val \in Seq(Entries) /\ Len(o.val) = o.ver
                         /\ o.ver = Len(g.out) + 1 /\ Prefix(g.out, o.val)
    BY <1>6 DEF ListLog, Extends
  <2>3. g \in D
    <3>1. g.end \in Nat /\ o.start \in Nat
      BY <1>1 DEF Ops
    <3> QED
      BY <2>2, <3>1
  <2>4. Prefix(g.out, s.val)
    BY <2>2, <2>3 DEF Agrees
  <2>5. Len(g.out) \in Nat /\ Len(g.out) = Len(s.val) /\ Len(o.val) = Len(s.val) + 1
    BY <1>4, <1>6, <2>2
  <2>6. \A k \in 1..Len(s.val) : o.val[k] = s.val[k]
    BY <2>2, <2>4, <2>5 DEF Prefix
  <2>7. t.val = o.val /\ t.ver = s.ver + 1 /\ t.ver = Len(t.val) + 1 /\ t.val \in Seq(Entries)
    BY <1>4, <2>1, <2>2, <2>5
  <2>8. \A q \in E : IsAcked(q) => q.ver < t.ver
    <3>1. \A q \in D : IsAcked(q) => q.ver < s.ver /\ q.ver \in Nat
      BY DEF Agrees, Ops
    <3>2. \A q \in D : IsAcked(q) => q.ver < t.ver
      BY <1>4, <2>7, <3>1
    <3>3. o.ver < t.ver
      BY <1>4, <1>6, <2>7
    <3> QED
      BY <1>1, <3>2, <3>3
  <2>9. \A q, w \in E : IsAcked(q) /\ IsAcked(w) /\ q.ver = w.ver => q = w
    <3>1. \A q \in D : IsAcked(q) => q.ver # o.ver
      <4>1. \A q \in D : IsAcked(q) => q.ver < s.ver /\ q.ver \in Nat
        BY DEF Agrees, Ops
      <4> QED
        BY <1>4, <1>6, <4>1
    <3>2. \A q, w \in D : IsAcked(q) /\ IsAcked(w) /\ q.ver = w.ver => q = w
      BY DEF Agrees
    <3> QED
      BY <1>1, <3>1, <3>2
  <2>10. \A q \in E : IsAcked(q) /\ q.ver >= 1 => q.val[q.ver] = t.val[q.ver]
    <3>1. ASSUME NEW q \in D, IsAcked(q), q.ver >= 1
          PROVE  q.val[q.ver] = t.val[q.ver]
      <4>1. q.val[q.ver] = s.val[q.ver] /\ q.ver < s.ver /\ q.ver \in Nat
        BY <3>1 DEF Agrees, Ops
      <4>2. q.ver \in 1..Len(s.val)
        BY <1>4, <3>1, <4>1
      <4> QED
        BY <2>6, <2>7, <4>1, <4>2
    <3> QED
      BY <1>1, <2>7, <3>1
  <2>11. \A q \in E : q.op = "get" => Prefix(q.out, t.val)
    <3>1. ASSUME NEW q \in D, q.op = "get"
          PROVE  Prefix(q.out, t.val)
      <4>1. q.out \in Seq(Entries) /\ Prefix(q.out, s.val)
        BY <3>1 DEF Agrees, ListLog
      <4>2. Len(q.out) \in Nat /\ Len(q.out) <= Len(s.val)
        BY <4>1 DEF Prefix
      <4>3. \A k \in 1..Len(q.out) : k \in 1..Len(s.val)
        BY <1>4, <4>2
      <4>4. \A k \in 1..Len(q.out) : q.out[k] = t.val[k]
        BY <2>6, <2>7, <4>1, <4>3 DEF Prefix
      <4>5. Len(q.out) <= Len(t.val)
        BY <1>4, <2>5, <2>7, <4>2
      <4> QED
        BY <4>4, <4>5 DEF Prefix
    <3> QED
      BY <1>1, <1>6, <3>1
  <2> HIDE DEF t, E, D
  <2>12. Agrees(E, t)
    BY <2>7, <2>8, <2>9, <2>10, <2>11 DEF Agrees
  <2> QED
    BY <1>2, <1>3, <2>1, <2>12 DEF Good, Configs, E, t
<1>7. CASE o.op = "put" /\ s.ver # o.ver
  <2>1. t = s /\ ~ IsAcked(o) /\ f # o
    BY <1>7 DEF Step, IsAcked, ListLog
  <2>2. Agrees(E, s)
    BY <1>1, <1>7, <2>1 DEF Agrees
  <2> HIDE DEF t, E
  <2> QED
    BY <1>2, <1>3, <2>1, <2>2 DEF Good, Configs, E, t
<1> QED
  BY <1>1, <1>5, <1>6, <1>7 DEF Ops

\* If porcupine accepts the log, the list that the last Get has read has every append that
\* was acknowledged.
LEMMA LinearizableShows ==
    ASSUME NEW ops \in SUBSET Ops, IsFiniteSet(ops), NEW f, ListLog(ops, f), Linearizable(ops)
    PROVE  \E s : Agrees(ops, s) /\ s.val = f.out
<1> DEFINE n == Cardinality(ops)
<1>1. n \in Nat
  BY FS_CardinalityType
<1>2. PICK r : Search(r, ops, n) /\ r[n] # {}
  BY Searched
<1> HIDE DEF n
<1> DEFINE P == {k \in 0..n : \A c \in r[k] : /\ Good(ops, f, c)
                                              /\ Cardinality(c.todo) = n - k}
<1>3. 0 \in P
  <2> DEFINE c == [todo |-> ops, state |-> KvInit]
  <2>1. r[0] = {c} /\ c \in Configs(ops)
    BY <1>1, <1>2 DEF Search
  <2>2. Good(ops, f, c)
    BY <2>1 DEF Good
  <2>3. Cardinality(c.todo) = n - 0
    BY <1>1 DEF n
  <2> HIDE DEF c
  <2> QED
    BY <1>1, <2>1, <2>2, <2>3
<1>4. ASSUME NEW k \in 1..n, k - 1 \in P
      PROVE  k \in P
  <2> SUFFICES ASSUME NEW d \in r[k]
               PROVE  Good(ops, f, d) /\ Cardinality(d.todo) = n - k
    BY <1>1
  <2>1. PICK c \in r[k - 1] : d \in After(c)
    BY <1>2 DEF Search, Advance
  <2>2. Good(ops, f, c) /\ Cardinality(c.todo) = n - (k - 1)
    BY <1>4
  <2>3. PICK o \in c.todo : /\ Step(c.state, o).ok
                            /\ \A p \in c.todo : p.end > o.start
                            /\ d = [todo |-> c.todo \ {o}, state |-> Step(c.state, o).state]
    BY <2>1, AfterOut
  <2>4. c.todo \in SUBSET ops /\ c.state \in States
    BY <2>2 DEF Good, Configs
  <2>5. Good(ops, f, d)
    <3>1. CASE c.todo = ops /\ c.state = KvInit
      BY <2>3, <3>1, FirstStep
    <3>2. CASE ~ (c.todo = ops /\ c.state = KvInit)
      <4>1. FirstPut \notin c.todo /\ Agrees(ops \ c.todo, c.state) /\ f \in c.todo
        BY <2>2, <3>2 DEF Good
      <4> QED
        BY <2>3, <2>4, <4>1, LaterStep
    <3> QED
      BY <3>1, <3>2
  <2>6. IsFiniteSet(c.todo)
    BY <2>4, FS_Subset
  <2>7. Cardinality(c.todo \ {o}) = Cardinality(c.todo) - 1
    BY <2>6, FS_RemoveElement
  <2>8. Cardinality(d.todo) = n - k
    BY <1>1, <2>2, <2>3, <2>7
  <2> QED
    BY <2>5, <2>8
<1> HIDE DEF P
<1>5. \A k \in 0..n : k \in P
  BY <1>1, <1>3, <1>4, Iterated
<1>6. PICK c \in r[n] : Good(ops, f, c) /\ Cardinality(c.todo) = n - n
  BY <1>1, <1>2, <1>5 DEF P
<1>7. c.todo \in SUBSET ops
  BY <1>6 DEF Good, Configs
<1>8. c.todo = {}
  <2>1. IsFiniteSet(c.todo)
    BY <1>7, FS_Subset
  <2>2. Cardinality(c.todo) = 0
    BY <1>1, <1>6
  <2> QED
    BY <2>1, <2>2, FS_EmptySet
<1>9. Agrees(ops \ c.todo, c.state) /\ c.state.val = f.out
  BY <1>6, <1>8 DEF Good, ListLog
<1>10. ops \ c.todo = ops
  BY <1>8
<1> QED
  BY <1>9, <1>10

-----------------------------------------------------------------------------
(* The order in which a correct service executes the calls *)

\* A call is made.
LEMMA OrderedBegin ==
    ASSUME NEW log, NEW cl, NEW s, Ordered(log, cl, s), NEW cl2, NEW p \in Procs,
           cl[p].op = "none", cl2[p].reply = NoReply, \A q \in Procs \ {p} : cl2[q] = cl[q]
    PROVE  Ordered(log, cl2, s)
<1>1. PICK n, L, at, st : Explains(n, L, at, st, log, cl, s)
  BY DEF Ordered
<1>2. at[p] = 0
  <2>1. at[p] \in 0..n /\ n \in Nat /\ L \in [1..n -> Ops]
    BY <1>1 DEF Explains, Placed, Runs
  <2>2. at[p] # 0 => L[at[p]] \in Ops /\ L[at[p]].op = "none"
    BY <1>1, <2>1 DEF Explains, Waiting
  <2> QED
    BY <2>2 DEF Ops
<1>3. \A q \in Procs : Waiting(cl2[q], at[q], L, st, s)
  <2>1. Waiting(cl2[p], at[p], L, st, s)
    BY <1>2 DEF Waiting
  <2> QED
    BY <1>1, <2>1 DEF Explains
<1> QED
  BY <1>1, <1>3 DEF Explains, Ordered

\* A request or a reply is lost.
LEMMA OrderedLose ==
    ASSUME NEW log, NEW cl, NEW s, Ordered(log, cl, s), NEW cl2, NEW p \in Procs,
           cl[p].op = "put", cl2[p].op = "put", cl2[p].val = cl[p].val, cl2[p].ver = cl[p].ver,
           cl2[p].start = cl[p].start, cl2[p].resent, cl2[p].reply = NoReply,
           \A q \in Procs \ {p} : cl2[q] = cl[q]
    PROVE  Ordered(log, cl2, s)
<1>1. PICK n, L, at, st : Explains(n, L, at, st, log, cl, s)
  BY DEF Ordered
<1>2. Waiting(cl[p], at[p], L, st, s)
  BY <1>1 DEF Explains
<1>3. NoReply.err = "none" /\ NoReply.val = None
  BY DEF NoReply
<1>4. Waiting(cl2[p], at[p], L, st, s)
  BY <1>2, <1>3 DEF Waiting
<1>5. \A q \in Procs : Waiting(cl2[q], at[q], L, st, s)
  BY <1>1, <1>4 DEF Explains
<1> QED
  BY <1>1, <1>5 DEF Explains, Ordered

\* A Put is served again.
LEMMA OrderedAgain ==
    ASSUME NEW n, NEW L, NEW at, NEW st, NEW log, NEW cl, NEW s,
           Explains(n, L, at, st, log, cl, s), NEW cl2, NEW p \in Procs,
           at[p] # 0, cl[p].op = "put", cl[p].reply = NoReply,
           cl2[p].op = "put", cl2[p].val = cl[p].val, cl2[p].ver = cl[p].ver,
           cl2[p].start = cl[p].start, cl2[p].resent = cl[p].resent,
           cl2[p].reply = [val |-> None, ver |-> 0, err |-> "ErrVersion"],
           \A q \in Procs \ {p} : cl2[q] = cl[q]
    PROVE  Ordered(log, cl2, s)
<1>1. Waiting(cl[p], at[p], L, st, s)
  BY DEF Explains
<1>2. cl2[p].reply.err = "ErrVersion" /\ cl2[p].reply.val = None
  OBVIOUS
<1>3. Waiting(cl2[p], at[p], L, st, s)
  BY <1>1, <1>2 DEF Waiting
<1>4. \A q \in Procs : Waiting(cl2[q], at[q], L, st, s)
  BY <1>3 DEF Explains
<1> QED
  BY <1>4 DEF Explains, Ordered

\* A call is executed: it takes the next place.
LEMMA OrderedNext ==
    ASSUME NEW n, NEW L, NEW at, NEW st, NEW log, NEW cl, NEW s,
           Explains(n, L, at, st, log, cl, s), NEW cl2, NEW p \in Procs, at[p] = 0,
           \A q \in Procs \ {p} : cl2[q] = cl[q],
           NEW o \in Ops, NEW s2 \in States, Step(s, o) = [ok |-> TRUE, state |-> s2],
           s.ver <= s2.ver, s.ver \in Nat, \A q \in Procs : cl[q].ver \in Nat,
           \A L2, st2 : L2[n + 1] = o /\ st2[(n + 1) - 1] = s => Waiting(cl2[p], n + 1, L2, st2, s2)
    PROVE  Ordered(log, cl2, s2)
<1>1. PICK m : m = n + 1
  OBVIOUS
<1>2. /\ n \in Nat /\ m \in Nat /\ m # 0 /\ m - 1 = n /\ m \in 1..m /\ m \notin 0..n
      /\ \A k \in 1..m : k # m => k \in 1..n
      /\ \A k \in 0..m : k # m => k \in 0..n
      /\ \A k \in 1..n : k \in 1..m /\ k # m /\ k - 1 \in 0..m /\ k - 1 # m
      /\ \A k \in 0..n : k \in 0..m /\ k # m
      /\ m \in 0..m /\ n \in 0..m /\ n # m /\ 0 \in 0..n
  <2>1. n \in Nat
    BY DEF Explains, Runs
  <2> QED
    BY <1>1, <2>1
<1> DEFINE L2  == [k \in 1..m |-> IF k = m THEN o ELSE L[k]]
           st2 == [k \in 0..m |-> IF k = m THEN s2 ELSE st[k]]
           at2 == [q \in Procs |-> IF q = p THEN m ELSE at[q]]
<1>3. L2[m] = o /\ \A k \in 1..n : L2[k] = L[k]
  BY <1>2
<1>4. st2[m] = s2 /\ st2[0] = st[0] /\ \A k \in 0..n : st2[k] = st[k]
  BY <1>2
<1>5. at2[p] = m /\ \A q \in Procs \ {p} : at2[q] = at[q]
  OBVIOUS
<1>6. Runs(m, L2, st2, s2)
  <2>1. L \in [1..n -> Ops] /\ st \in [0..n -> States] /\ st[0] = KvInit /\ st[n] = s
    BY DEF Explains, Runs
  <2>2. L2 \in [1..m -> Ops]
    BY <1>2, <2>1
  <2>3. st2 \in [0..m -> States]
    BY <1>2, <2>1
  <2>4. ASSUME NEW k \in 1..m
        PROVE  Step(st2[k - 1], L2[k]) = [ok |-> TRUE, state |-> st2[k]]
    <3>1. CASE k = m
      <4>1. st2[k - 1] = s
        BY <1>2, <1>4, <2>1, <3>1
      <4> HIDE DEF L2, st2
      <4> QED
        BY <1>3, <1>4, <3>1, <4>1
    <3>2. CASE k # m
      <4>1. k \in 1..n /\ k - 1 \in 0..n /\ k \in 0..n
        BY <1>2, <3>2
      <4>2. st2[k - 1] = st[k - 1] /\ st2[k] = st[k] /\ L2[k] = L[k]
        BY <1>3, <1>4, <4>1
      <4>3. Step(st[k - 1], L[k]) = [ok |-> TRUE, state |-> st[k]]
        BY <4>1 DEF Explains, Runs
      <4> HIDE DEF L2, st2
      <4> QED
        BY <4>2, <4>3
    <3> QED
      BY <3>1, <3>2
  <2> HIDE DEF L2, st2
  <2> QED
    BY <1>2, <1>4, <2>1, <2>2, <2>3, <2>4 DEF Runs
<1>7. Placed(m, at2)
  <2>1. at \in [Procs -> 0..n] /\ \A q, w \in Procs : at[q] = at[w] /\ q # w => at[q] = 0
    BY DEF Explains, Placed
  <2>2. at2 \in [Procs -> 0..m]
    BY <1>2, <2>1
  <2>3. \A q \in Procs \ {p} : at[q] # m
    BY <1>2, <2>1
  <2>4. \A q, w \in Procs : at2[q] = at2[w] /\ q # w => at2[q] = 0
    BY <1>5, <2>1, <2>3
  <2> HIDE DEF at2
  <2> QED
    BY <2>2, <2>4 DEF Placed
<1>8. ~ Free(at2, m) /\ \A k \in 1..n : Free(at2, k) <=> Free(at, k)
  <2>1. ~ Free(at2, m)
    BY <1>5 DEF Free
  <2>2. \A k \in 1..n : at2[p] # k /\ at[p] # k
    BY <1>2, <1>5
  <2> QED
    BY <1>5, <2>1, <2>2 DEF Free
<1> HIDE DEF L2, st2, at2
<1>9. Logged(m, L2, at2, log)
  <2>1. Logged(n, L, at, log)
    BY DEF Explains
  <2>2. \A k \in 1..m : Free(at2, k) => k \in 1..n /\ Free(at, k)
    BY <1>2, <1>8
  <2>3. \A k \in 1..m : Free(at2, k) => L2[k] \in log
    BY <1>3, <2>1, <2>2 DEF Logged
  <2>4. \A q \in log : \E k \in 1..m : L2[k] = q /\ Free(at2, k)
    BY <1>2, <1>3, <1>8, <2>1 DEF Logged
  <2>5. \A j, k \in 1..m : Free(at2, j) /\ Free(at2, k) /\ L2[j] = L2[k] => j = k
    BY <1>3, <2>1, <2>2 DEF Logged
  <2>6. ASSUME NEW j \in 1..m, NEW k \in 1..m, Free(at2, k), j <= k
        PROVE  L2[j].start < L2[k].end
    <3>1. k \in 1..n /\ Free(at, k)
      BY <2>2, <2>6
    <3>2. j \in 1..n
      BY <1>2, <2>6, <3>1
    <3> QED
      BY <1>3, <2>1, <2>6, <3>1, <3>2 DEF Logged
  <2> QED
    BY <2>3, <2>4, <2>5, <2>6 DEF Logged
<1>10. \A q \in Procs : Waiting(cl2[q], at2[q], L2, st2, s2)
  <2>1. Waiting(cl2[p], at2[p], L2, st2, s2)
    <3>1. st2[(n + 1) - 1] = s
      BY <1>1, <1>2, <1>4 DEF Explains, Runs
    <3> QED
      BY <1>1, <1>3, <1>5, <3>1
  <2>2. ASSUME NEW q \in Procs \ {p}
        PROVE  Waiting(cl2[q], at2[q], L2, st2, s2)
    <3>1. Waiting(cl[q], at[q], L, st, s) /\ at[q] \in 0..n
      BY DEF Explains, Placed
    <3>2. cl2[q] = cl[q] /\ at2[q] = at[q]
      BY <1>5
    <3>3. CASE at[q] = 0
      BY <3>1, <3>2, <3>3 DEF Waiting
    <3>4. CASE at[q] # 0
      <4>1. at[q] \in 1..n /\ at[q] - 1 \in 0..n
        BY <1>2, <3>1, <3>4
      <4>2. L2[at[q]] = L[at[q]] /\ st2[at[q] - 1] = st[at[q] - 1]
        BY <1>3, <1>4, <4>1
      <4>3. s2.ver \in Nat /\ cl[q].ver \in Nat /\ s.ver \in Nat
        BY DEF States
      <4>4. cl[q].ver < s.ver => cl[q].ver < s2.ver
        BY <4>3
      <4> QED
        BY <3>1, <3>2, <3>4, <4>2, <4>4 DEF Waiting
    <3> QED
      BY <3>3, <3>4
  <2> QED
    BY <2>1, <2>2
<1> QED
  BY <1>6, <1>7, <1>9, <1>10 DEF Explains, Ordered

\* The record of a call that returns, as Returns adds it to the log.
Record(l, e, t) ==
    [op |-> l.op, val |-> l.val, ver |-> l.ver, out |-> l.reply.val, err |-> e,
     start |-> l.start, end |-> t]

\* A call returns: its record takes its place.
LEMMA OrderedReturn ==
    ASSUME NEW log, NEW cl, NEW s, Ordered(log, cl, s), NEW t \in Nat, NEW p \in Procs,
           log \subseteq Ops, \A o \in log : o.start < t /\ o.end < t,
           \A q \in Procs : cl[q].start < t,
           cl[p].reply # NoReply, NEW e,
           e = IF cl[p].op = "put" /\ cl[p].resent /\ cl[p].reply.err = "ErrVersion"
               THEN "ErrMaybe" ELSE cl[p].reply.err,
           cl[p].reply.err # "none",
           Record(cl[p], e, t) \in Ops,
           NEW cl2, cl2[p].reply = NoReply, \A q \in Procs \ {p} : cl2[q] = cl[q]
    PROVE  Ordered(log \cup {Record(cl[p], e, t)}, cl2, s)
<1>1. PICK n, L, at, st : Explains(n, L, at, st, log, cl, s)
  BY DEF Ordered
<1>2. PICK m : m = at[p]
  OBVIOUS
<1>3. PICK rec : rec = Record(cl[p], e, t)
  OBVIOUS
<1>4. Waiting(cl[p], m, L, st, s)
  BY <1>1, <1>2 DEF Explains
<1>5. /\ n \in Nat /\ L \in [1..n -> Ops] /\ st \in [0..n -> States]
      /\ at \in [Procs -> 0..n] /\ m \in 1..n /\ m \in 0..n /\ m # 0
  <2>1. m \in 0..n /\ n \in Nat /\ at \in [Procs -> 0..n]
    BY <1>1, <1>2 DEF Explains, Placed, Runs
  <2>2. m # 0
    BY <1>4 DEF Waiting
  <2> QED
    BY <1>1, <2>1, <2>2 DEF Explains, Runs
<1> DEFINE L2  == [k \in 1..n |-> IF k = m THEN rec ELSE L[k]]
           at2 == [q \in Procs |-> IF q = p THEN 0 ELSE at[q]]
<1>6. L2[m] = rec /\ \A k \in 1..n : k # m => L2[k] = L[k]
  BY <1>5
<1>7. at2[p] = 0 /\ \A q \in Procs \ {p} : at2[q] = at[q] /\ at[q] # m
  BY <1>1, <1>2, <1>5 DEF Explains, Placed
<1>8. rec \in Ops /\ rec.op = cl[p].op /\ rec.val = cl[p].val /\ rec.ver = cl[p].ver
      /\ rec.out = cl[p].reply.val /\ rec.err = e /\ rec.start = cl[p].start /\ rec.end = t
  BY <1>3 DEF Record
<1>9. Runs(n, L2, st, s)
  <2>1. L2 \in [1..n -> Ops]
    BY <1>5, <1>8
  <2>2. ASSUME NEW k \in 1..n
        PROVE  Step(st[k - 1], L2[k]) = [ok |-> TRUE, state |-> st[k]]
    <3>1. Step(st[k - 1], L[k]) = [ok |-> TRUE, state |-> st[k]]
      BY <1>1 DEF Explains, Runs
    <3>2. CASE k # m
      BY <1>6, <3>1, <3>2
    <3>3. CASE k = m
      <4>1. L[m] \in Ops /\ L[m].op = cl[p].op /\ L[m].val = cl[p].val /\ L[m].ver = cl[p].ver
        BY <1>4, <1>5 DEF Waiting
      <4>2. CASE cl[p].op = "get"
        <5>1. L[m].out = rec.out
          BY <1>4, <1>5, <1>8, <4>2 DEF Waiting
        <5>2. Step(st[k - 1], rec) = Step(st[k - 1], L[m])
          BY <1>8, <4>1, <4>2, <5>1 DEF Step
        <5> QED
          BY <1>6, <3>1, <3>3, <5>2
      <4>3. CASE cl[p].op = "put"
        <5>1. /\ cl[p].reply.err \in {"OK", "ErrVersion"}
              /\ cl[p].reply.err = "OK" => st[m - 1].ver = cl[p].ver
              /\ cl[p].reply.err = "ErrVersion" => cl[p].resent \/ st[m - 1].ver # cl[p].ver
              /\ L[m].err = "ErrMaybe"
          BY <1>4, <1>5, <4>3 DEF Waiting
        <5>2. /\ e \in {"OK", "ErrVersion", "ErrMaybe"}
              /\ e = "OK" => st[m - 1].ver = cl[p].ver
              /\ e = "ErrVersion" => st[m - 1].ver # cl[p].ver
          BY <4>3, <5>1
        <5>3. Step(st[m - 1], rec) = Step(st[m - 1], L[m])
          BY <1>8, <4>1, <4>3, <5>1, <5>2 DEF Step
        <5> QED
          BY <1>6, <3>1, <3>3, <5>3
      <4> QED
        BY <4>1, <4>2, <4>3 DEF Ops
    <3> QED
      BY <3>2, <3>3
  <2> HIDE DEF L2
  <2> QED
    BY <1>1, <2>1, <2>2 DEF Explains, Runs
<1>10. Placed(n, at2)
  <2>1. at2 \in [Procs -> 0..n]
    BY <1>5
  <2>2. \A q, w \in Procs : at2[q] = at2[w] /\ q # w => at2[q] = 0
    BY <1>1, <1>7 DEF Explains, Placed
  <2> QED
    BY <2>1, <2>2 DEF Placed
<1> HIDE DEF L2, at2
<1>11. Free(at2, m) /\ \A k \in 1..n : k # m => (Free(at2, k) <=> Free(at, k))
  <2>1. Free(at2, m)
    BY <1>5, <1>7 DEF Free
  <2>2. \A k \in 1..n : k # m => at2[p] # k /\ at[p] # k
    BY <1>2, <1>5, <1>7
  <2> QED
    BY <1>7, <2>1, <2>2 DEF Free
<1>12. \A k \in 1..n : L2[k].start < t
  <2>1. ASSUME NEW k \in 1..n, Free(at, k)
        PROVE  L[k].start < t
    BY <1>1, <2>1 DEF Explains, Logged
  <2>2. ASSUME NEW k \in 1..n, ~ Free(at, k)
        PROVE  L[k].start < t
    <3>1. PICK q \in Procs : at[q] = k
      BY <2>2 DEF Free
    <3>2. Waiting(cl[q], k, L, st, s) /\ k # 0
      BY <1>1, <3>1 DEF Explains
    <3>3. L[k].start = cl[q].start
      BY <3>2 DEF Waiting
    <3> QED
      BY <3>3
  <2> QED
    BY <1>6, <1>8, <2>1, <2>2
<1>13. Logged(n, L2, at2, log \cup {rec})
  <2>1. Logged(n, L, at, log)
    BY <1>1 DEF Explains
  <2>2. \A k \in 1..n : Free(at2, k) => L2[k] \in log \cup {rec}
    BY <1>6, <1>11, <2>1 DEF Logged
  <2>3. \A o \in log \cup {rec} : \E k \in 1..n : L2[k] = o /\ Free(at2, k)
    <3>1. ASSUME NEW o \in log
          PROVE  \E k \in 1..n : L2[k] = o /\ Free(at2, k)
      <4>1. PICK k \in 1..n : L[k] = o /\ Free(at, k)
        BY <2>1 DEF Logged
      <4>2. k # m
        BY <1>2, <4>1 DEF Free
      <4> QED
        BY <1>6, <1>11, <4>1, <4>2
    <3> QED
      BY <1>5, <1>6, <1>11, <3>1
  <2>4. rec \notin log
    <3>1. \A o \in log : o.end # t
      BY DEF Ops
    <3> QED
      BY <1>8, <3>1
  <2>5. \A j, k \in 1..n : Free(at2, j) /\ Free(at2, k) /\ L2[j] = L2[k] => j = k
    <3> SUFFICES ASSUME NEW j \in 1..n, NEW k \in 1..n, Free(at2, j), Free(at2, k), L2[j] = L2[k]
                 PROVE  j = k
      OBVIOUS
    <3>1. CASE j # m /\ k # m
      BY <1>6, <1>11, <2>1, <3>1 DEF Logged
    <3>2. ASSUME NEW i \in 1..n, i # m, Free(at2, i)
          PROVE  L2[i] \in log
      BY <1>6, <1>11, <2>1, <3>2 DEF Logged
    <3> QED
      BY <1>6, <2>4, <3>1, <3>2
  <2>6. ASSUME NEW j \in 1..n, NEW k \in 1..n, Free(at2, k), j <= k
        PROVE  L2[j].start < L2[k].end
    <3>1. CASE k = m
      BY <1>6, <1>8, <1>12, <3>1
    <3>2. CASE k # m
      <4>1. L[j].start < L[k].end
        BY <1>11, <2>1, <2>6, <3>2 DEF Logged
      <4>2. L2[k] = L[k]
        BY <1>6, <3>2
      <4>3. L2[j].start = L[j].start
        <5>1. CASE j = m
          BY <1>4, <1>5, <1>6, <1>8, <5>1 DEF Waiting
        <5> QED
          BY <1>6, <5>1
      <4> QED
        BY <4>1, <4>2, <4>3
    <3> QED
      BY <3>1, <3>2
  <2> QED
    BY <2>2, <2>3, <2>5, <2>6 DEF Logged
<1>14. \A q \in Procs : Waiting(cl2[q], at2[q], L2, st, s)
  <2>1. Waiting(cl2[p], at2[p], L2, st, s)
    BY <1>7 DEF Waiting
  <2>2. ASSUME NEW q \in Procs \ {p}
        PROVE  Waiting(cl2[q], at2[q], L2, st, s)
    <3>1. Waiting(cl[q], at[q], L, st, s) /\ at[q] \in 0..n
      BY <1>1 DEF Explains, Placed
    <3>2. at2[q] = at[q] /\ at[q] # m /\ cl2[q] = cl[q]
      BY <1>7
    <3>3. at[q] # 0 => L2[at[q]] = L[at[q]]
      BY <1>5, <1>6, <3>1, <3>2
    <3> QED
      BY <3>1, <3>2, <3>3 DEF Waiting
  <2> QED
    BY <2>1, <2>2
<1> QED
  BY <1>3, <1>9, <1>10, <1>13, <1>14 DEF Explains, Ordered

-----------------------------------------------------------------------------
(* Calls *)

\* The tester is no client.
LEMMA ProcsFacts ==
    /\ Tester \in Procs /\ Clients \subseteq Procs /\ Tester \notin Clients
    /\ \A p \in Procs : p \in Clients \/ p = Tester
    /\ \A c \in Clients : c \in Procs /\ c # Tester
  BY TesterAssumption DEF Procs

LEMMA NoCallFacts ==
    /\ NoReply \in Replies /\ NoReply.err = "none" /\ NoReply.val = None /\ NoReply.ver = 0
    /\ NoCall \in CallRecs /\ NoCall.op = "none" /\ NoCall.reply = NoReply
    /\ NoCall.resent = FALSE /\ NoCall.start = 0
  BY DEF NoCall, NoReply, CallRecs, Replies, Vals

LEMMA CardFacts ==
    ASSUME NEW S, IsFiniteSet(S)
    PROVE  Cardinality(S) \in Nat
  BY FS_CardinalityType

\* p has a new call, or none.
NewCall(p) ==
    /\ call' \in [Procs -> CallRecs]
    /\ call'[p].reply = NoReply /\ call'[p].resent = FALSE
    /\ call'[p].start \in {0, Cardinality(oplog')}
    /\ \A q \in Procs \ {p} : call'[q] = call[q]

\* Calls and NoMoreCalls put a call that is not answered in the place of p's.
LEMMA CallsNew ==
    ASSUME TypeOK, NEW p \in Procs, NEW op \in {"get", "put"}, NEW val \in Vals, NEW v \in Nat,
           IsFiniteSet(oplog'), Calls(p, op, val, v)
    PROVE  /\ NewCall(p) /\ call'[p].op = op /\ call'[p].val = val /\ call'[p].ver = v
           /\ call'[p].start = Cardinality(oplog')
<1> DEFINE l == [op |-> op, val |-> val, ver |-> v, resent |-> FALSE,
                 start |-> Cardinality(oplog'), reply |-> NoReply]
<1>1. l \in CallRecs
  BY CardFacts, NoCallFacts DEF CallRecs
<1>2. call' = [call EXCEPT ![p] = l] /\ call \in [Procs -> CallRecs]
  BY DEF Calls, TypeOK
<1>3. /\ l.op = op /\ l.val = val /\ l.ver = v /\ l.resent = FALSE
      /\ l.start = Cardinality(oplog') /\ l.reply = NoReply
  OBVIOUS
<1> HIDE DEF l
<1>4. call' \in [Procs -> CallRecs] /\ call'[p] = l /\ \A q \in Procs \ {p} : call'[q] = call[q]
  BY <1>1, <1>2
<1> QED
  BY <1>3, <1>4 DEF NewCall

LEMMA NoMoreCallsNew ==
    ASSUME TypeOK, NEW p \in Procs, NoMoreCalls(p)
    PROVE  NewCall(p) /\ call'[p] = NoCall
<1>1. call' = [call EXCEPT ![p] = NoCall] /\ call \in [Procs -> CallRecs]
  BY DEF NoMoreCalls, TypeOK
<1> QED
  BY <1>1, NoCallFacts DEF NewCall

\* OpLog.Append adds one record, with the largest time so far.
LEMMA ReturnsFacts ==
    ASSUME TypeOK, Times, NEW p \in Procs, call[p].op # "none", Returns(p)
    PROVE  /\ oplog' = oplog \cup {Record(call[p], Err(p), Cardinality(oplog) + 1)}
           /\ Record(call[p], Err(p), Cardinality(oplog) + 1) \in Ops
           /\ Record(call[p], Err(p), Cardinality(oplog) + 1) \notin oplog
           /\ oplog' \subseteq Ops /\ IsFiniteSet(oplog')
           /\ Cardinality(oplog) \in Nat /\ Cardinality(oplog') = Cardinality(oplog) + 1
           /\ call[p].reply # NoReply
<1> DEFINE n   == Cardinality(oplog)
           rec == Record(call[p], Err(p), n + 1)
<1>1. n \in Nat /\ IsFiniteSet(oplog)
  BY CardFacts DEF Times
<1>2. oplog' = oplog \cup {rec} /\ call[p].reply # NoReply
  BY DEF Returns, Record
<1>3. call[p] \in CallRecs /\ call[p].reply \in Replies
  BY DEF TypeOK, CallRecs
<1>4. Err(p) \in Errs
  BY <1>3 DEF Err, Errs, Replies
<1>5. rec \in Ops /\ rec.end = n + 1
  BY <1>1, <1>3, <1>4 DEF Record, Ops, CallRecs, Replies
<1>6. rec \notin oplog
  <2>1. \A o \in oplog : o.end \in Nat /\ o.end <= n
    BY DEF Times, TypeOK, Ops
  <2> QED
    BY <1>1, <1>5, <2>1
<1> HIDE DEF rec
<1>7. IsFiniteSet(oplog') /\ Cardinality(oplog') = n + 1
  BY <1>1, <1>2, <1>6, FS_AddElement
<1> QED
  BY <1>1, <1>2, <1>5, <1>6, <1>7 DEF rec, TypeOK

\* The ways in which a request is served.
SameCall(p) ==
    /\ call' \in [Procs -> CallRecs]
    /\ \A q \in Procs \ {p} : call'[q] = call[q]
    /\ call'[p].op = call[p].op /\ call'[p].val = call[p].val /\ call'[p].ver = call[p].ver
    /\ call'[p].start = call[p].start /\ call'[p].resent = call[p].resent
    /\ call[p].reply = NoReply /\ call[p].op # "none"

Reads(p) ==
    /\ call[p].op = "get" /\ UNCHANGED <<kv, forgot>>
    /\ call'[p].reply = [val |-> kv.val, ver |-> kv.ver,
                         err |-> IF kv.ver = 0 THEN "ErrNoKey" ELSE "OK"]
Executes(p) ==
    /\ call[p].op = "put" /\ call[p].ver = kv.ver /\ UNCHANGED forgot
    /\ kv' = [val |-> call[p].val, ver |-> kv.ver + 1]
    /\ call'[p].reply = [val |-> None, ver |-> 0, err |-> "OK"]
Forgets(p) ==
    /\ call[p].op = "put" /\ call[p].ver = kv.ver /\ UNCHANGED kv
    /\ forgot = "not yet" /\ forgot' = "once"
    /\ call'[p].reply = [val |-> None, ver |-> 0, err |-> "OK"]
Refuses(p) ==
    /\ call[p].op = "put" /\ call[p].ver # kv.ver /\ UNCHANGED <<kv, forgot>>
    /\ call'[p].reply = [val |-> None, ver |-> 0,
                         err |-> IF kv.ver = 0 THEN "ErrNoKey" ELSE "ErrVersion"]

\* What the server does with a request.
LEMMA ServeCases ==
    ASSUME TypeOK, NEW p \in Procs, Serve(p)
    PROVE  /\ SameCall(p) /\ UNCHANGED <<params, pc, local, tester, oplog>>
           /\ kv' \in States /\ forgot' \in {"never", "not yet", "once"}
           /\ Reads(p) \/ Executes(p) \/ Forgets(p) \/ Refuses(p)
<1>1. /\ call \in [Procs -> CallRecs] /\ call[p] \in CallRecs /\ call[p].op \in {"none", "get", "put"}
      /\ kv \in States /\ kv.ver \in Nat /\ kv.val \in Vals /\ call[p].val \in Vals
      /\ call[p].ver \in Nat /\ forgot \in {"never", "not yet", "once"}
  BY DEF TypeOK, CallRecs, States
<1>2. call[p].op # "none" /\ call[p].reply = NoReply /\ UNCHANGED <<params, pc, local, tester, oplog>>
  BY DEF Serve
<1>3. ASSUME NEW r \in Replies, call' = [call EXCEPT ![p].reply = r]
      PROVE  SameCall(p) /\ call'[p].reply = r
  <2> DEFINE l == [call[p] EXCEPT !.reply = r]
  <2>2. /\ l \in CallRecs /\ l.op = call[p].op /\ l.val = call[p].val /\ l.ver = call[p].ver
        /\ l.start = call[p].start /\ l.resent = call[p].resent /\ l.reply = r
    BY <1>1 DEF CallRecs
  <2>3. call'[p] = l /\ \A q \in Procs \ {p} : call'[q] = call[q]
    BY <1>1, <1>3
  <2>4. DOMAIN call' = Procs /\ call' = [q \in Procs |-> call'[q]]
    BY <1>1, <1>3
  <2> HIDE DEF l
  <2>5. call' \in [Procs -> CallRecs]
    BY <1>1, <2>2, <2>3, <2>4
  <2> QED
    BY <1>2, <2>2, <2>3, <2>5 DEF SameCall
<1>4. CASE call[p].op = "get"
  <2> DEFINE r == [val |-> kv.val, ver |-> kv.ver, err |-> IF kv.ver = 0 THEN "ErrNoKey" ELSE "OK"]
  <2>1. r \in Replies
    BY <1>1 DEF Replies
  <2>2. kv' = kv /\ forgot' = forgot /\ call' = [call EXCEPT ![p].reply = r]
    BY <1>4 DEF Serve
  <2>3. SameCall(p) /\ call'[p].reply = r
    BY <1>3, <2>1, <2>2
  <2>4. Reads(p)
    BY <1>4, <2>2, <2>3 DEF Reads
  <2> QED
    BY <1>1, <1>2, <2>2, <2>3, <2>4
<1>5. CASE call[p].op = "put" /\ call[p].ver # kv.ver
  <2> DEFINE r == [val |-> None, ver |-> 0, err |-> IF kv.ver = 0 THEN "ErrNoKey" ELSE "ErrVersion"]
  <2>1. r \in Replies
    BY DEF Replies, Vals
  <2>2. kv' = kv /\ forgot' = forgot /\ call' = [call EXCEPT ![p].reply = r]
    BY <1>5 DEF Serve
  <2>3. SameCall(p) /\ call'[p].reply = r
    BY <1>3, <2>1, <2>2
  <2>4. Refuses(p)
    BY <1>5, <2>2, <2>3 DEF Refuses
  <2> QED
    BY <1>1, <1>2, <2>2, <2>3, <2>4
<1>6. CASE call[p].op = "put" /\ call[p].ver = kv.ver
  <2> DEFINE r == [val |-> None, ver |-> 0, err |-> "OK"]
  <2>1. r \in Replies
    BY DEF Replies, Vals
  <2>2. /\ call' = [call EXCEPT ![p].reply = r]
        /\ \/ kv' = [val |-> call[p].val, ver |-> kv.ver + 1] /\ forgot' = forgot
           \/ kv' = kv /\ forgot = "not yet" /\ forgot' = "once"
    <3>1. PICK forget \in IF forgot = "not yet" THEN BOOLEAN ELSE {FALSE} :
              /\ kv' = IF ~ forget THEN [val |-> call[p].val, ver |-> kv.ver + 1] ELSE kv
              /\ forgot' = IF forget THEN "once" ELSE forgot
              /\ call' = [call EXCEPT ![p].reply = r]
      BY <1>6 DEF Serve
    <3>2. forget = FALSE \/ (forget = TRUE /\ forgot = "not yet")
      BY Zenon
    <3> QED
      BY <3>1, <3>2
  <2>3. SameCall(p) /\ call'[p].reply = r
    BY <1>3, <2>1, <2>2
  <2>4. Executes(p) \/ Forgets(p)
    BY <1>6, <2>2, <2>3 DEF Executes, Forgets
  <2>5. kv' \in States
    <3>1. call[p].val \in Vals /\ kv.ver \in Nat
      BY <1>1
    <3>2. [val |-> call[p].val, ver |-> kv.ver + 1] \in States
      BY <3>1 DEF States
    <3> QED
      BY <1>1, <2>2, <3>2
  <2> QED
    BY <1>1, <1>2, <2>2, <2>3, <2>4, <2>5
<1> QED
  BY <1>1, <1>2, <1>4, <1>5, <1>6

\* What a lost message changes.
LEMMA LoseFacts ==
    ASSUME TypeOK, NEW p \in Procs, Lose(p)
    PROVE  /\ UNCHANGED <<params, service, pc, local, tester, oplog>>
           /\ ~ reliable /\ call[p].op = "put"
           /\ call' \in [Procs -> CallRecs] /\ \A q \in Procs \ {p} : call'[q] = call[q]
           /\ call'[p].op = "put" /\ call'[p].val = call[p].val /\ call'[p].ver = call[p].ver
           /\ call'[p].start = call[p].start /\ call'[p].resent = TRUE /\ call'[p].reply = NoReply
<1>1. call \in [Procs -> CallRecs] /\ call[p] \in CallRecs
  BY DEF TypeOK
<1> DEFINE l == [call[p] EXCEPT !.resent = TRUE, !.reply = NoReply]
<1>2. /\ l \in CallRecs /\ l.op = call[p].op /\ l.val = call[p].val /\ l.ver = call[p].ver
      /\ l.start = call[p].start /\ l.resent = TRUE /\ l.reply = NoReply
  BY <1>1, NoCallFacts DEF CallRecs
<1>3. call' = [call EXCEPT ![p] = l]
  BY <1>1 DEF Lose
<1> HIDE DEF l
<1>4. call' \in [Procs -> CallRecs] /\ call'[p] = l /\ \A q \in Procs \ {p} : call'[q] = call[q]
  BY <1>1, <1>2, <1>3
<1> QED
  BY <1>2, <1>4 DEF Lose

-----------------------------------------------------------------------------
(* Places, and what an action does to the calls, the log and the service *)

Moves(p, l) ==
    /\ pc' \in [Procs -> Places] /\ pc'[p] = l
    /\ \A q \in Procs \ {p} : pc'[q] = pc[q]

LEMMA GotoMoves ==
    ASSUME TypeOK, NEW p \in Procs, NEW l \in Places, Goto(p, l)
    PROVE  Moves(p, l)
  BY DEF TypeOK, Goto, Moves

Begins(p) == UNCHANGED <<forgot, kv, oplog>> /\ call[p].op = "none" /\ NewCall(p)
Ends(p)   == UNCHANGED <<forgot, kv>> /\ call[p].op # "none" /\ Returns(p) /\ NewCall(p)
Still     == UNCHANGED <<forgot, kv, oplog, call>>

\* A call is made where the place says so.
LEMMA InCall ==
    ASSUME Phases, NEW p \in Procs
    PROVE  /\ pc[p] \in {"get", "put"} => call[p].op = pc[p] /\ call[p].op # "none"
           /\ pc[p] \notin {"get", "put"} => call[p] = NoCall /\ call[p].op = "none"
  BY NoCallFacts DEF Phases

\* A client that runs goes to another place where clients run.
LEMMA ClientPhases ==
    ASSUME TypeOK, Phases, NEW c \in Clients, fn # "atleastonce", pc[c] # "end",
           NEW l \in {"head", "get", "put", "result", "fatal"}, Moves(c, l),
           NewCall(c) \/ (call' = call /\ call[c] = NoCall),
           IF l \in {"get", "put"} THEN call'[c].op = l ELSE call'[c] = NoCall,
           UNCHANGED <<fn, reliable, forgot>>
    PROVE  Phases'
<1>1. \A q \in Procs \ {c} : call'[q] = call[q] /\ pc'[q] = pc[q]
  BY DEF NewCall, Moves
<1>2. c \in Procs /\ c # Tester /\ Tester \in Procs /\ Clients \subseteq Procs
  BY ProcsFacts
<1>3. pc[Tester] \in {"sleep", "signal"} /\ pc'[Tester] = pc[Tester] /\ pc'[c] = l
  BY <1>1, <1>2 DEF Phases, Moves
<1>4. \A p \in Procs : IF pc'[p] \in {"get", "put"} THEN call'[p].op = pc'[p] ELSE call'[p] = NoCall
  BY <1>1, <1>3 DEF Phases
<1>5. \A d \in Clients : pc'[d] \in {"head", "get", "put", "result", "fatal"}
  BY <1>1, <1>2, <1>3 DEF Phases
<1>6. reliable => \A p \in Procs : ~ call'[p].resent
  <2>1. ~ call'[c].resent
    BY NoCallFacts DEF NewCall
  <2> QED
    BY <1>1, <2>1 DEF Phases
<1> QED
  BY <1>3, <1>4, <1>5, <1>6 DEF Phases

\* The tester goes on to a place that fits those of the clients.
LEMMA TesterPhases ==
    ASSUME TypeOK, Phases, NEW l \in Places, Moves(Tester, l),
           NewCall(Tester) \/ (call' = call /\ call[Tester] = NoCall),
           IF l \in {"get", "put"} THEN call'[Tester].op = l ELSE call'[Tester] = NoCall,
           UNCHANGED <<fn, reliable, forgot>>,
           IF fn = "atleastonce" THEN l \in {"start", "put", "get", "passed", "fatal"}
           ELSE \/ pc[Tester] \in {"sleep", "signal"} /\ l \in {"sleep", "signal"}
                \/ pc[Tester] \notin {"sleep", "signal"} /\ l \in {"get", "passed", "fatal"}
    PROVE  Phases'
<1>1. \A q \in Procs \ {Tester} : call'[q] = call[q] /\ pc'[q] = pc[q]
  BY DEF NewCall, Moves
<1>2. Tester \in Procs /\ Clients \subseteq Procs \ {Tester}
  BY ProcsFacts
<1>3. pc'[Tester] = l
  BY DEF Moves
<1>4. \A p \in Procs : IF pc'[p] \in {"get", "put"} THEN call'[p].op = pc'[p] ELSE call'[p] = NoCall
  BY <1>1, <1>3 DEF Phases
<1>5. \A d \in Clients : pc'[d] = pc[d]
  BY <1>1, <1>2
<1>6. reliable => \A p \in Procs : ~ call'[p].resent
  <2>1. ~ call'[Tester].resent
    BY NoCallFacts DEF NewCall
  <2> QED
    BY <1>1, <2>1 DEF Phases
<1> QED
  BY <1>3, <1>4, <1>5, <1>6 DEF Phases

\* Counted adds one to one of the two counters.
LEMMA CountedFacts ==
    ASSUME TypeOK, NEW c \in Clients, NEW ok \in BOOLEAN, Counted(c, ok)
    PROVE  /\ res' \in [Clients -> Results] /\ iter' \in [Clients -> Nat]
           /\ \A d \in Clients \ {c} : res'[d] = res[d] /\ iter'[d] = iter[d]
           /\ iter'[c] = iter[c] + 1
           /\ res'[c].nok = res[c].nok + IF ok THEN 1 ELSE 0
           /\ res'[c].nmaybe = res[c].nmaybe + IF ok THEN 0 ELSE 1
           /\ Moves(c, "head") /\ NewCall(c) /\ call'[c] = NoCall
<1>1. c \in Procs
  BY ProcsFacts
<1>2. Moves(c, "head")
  BY <1>1, GotoMoves DEF Counted, Places
<1>3. NewCall(c) /\ call'[c] = NoCall
  BY <1>1, NoMoreCallsNew DEF Counted
<1>4. iter' \in [Clients -> Nat] /\ iter'[c] = iter[c] + 1 /\ \A d \in Clients \ {c} : iter'[d] = iter[d]
  <2>1. iter \in [Clients -> Nat]
    BY DEF TypeOK
  <2>2. iter' = [iter EXCEPT ![c] = @ + 1]
    BY DEF Counted
  <2> QED
    BY <2>1, <2>2
<1>5. res[c] \in Results /\ res[c].nok \in Nat /\ res[c].nmaybe \in Nat /\ res \in [Clients -> Results]
  BY DEF TypeOK, Results
<1> DEFINE r == IF ok THEN [res[c] EXCEPT !.nok = @ + 1] ELSE [res[c] EXCEPT !.nmaybe = @ + 1]
<1>6. res' = [res EXCEPT ![c] = r]
  <2>1. CASE ok = TRUE
    <3>1. res' = [res EXCEPT ![c].nok = @ + 1]
      BY <2>1 DEF Counted
    <3>2. r = [res[c] EXCEPT !.nok = @ + 1]
      BY <2>1
    <3> HIDE DEF r
    <3> QED
      BY <1>5, <3>1, <3>2
  <2>2. CASE ok = FALSE
    <3>1. res' = [res EXCEPT ![c].nmaybe = @ + 1]
      BY <2>2 DEF Counted
    <3>2. r = [res[c] EXCEPT !.nmaybe = @ + 1]
      BY <2>2
    <3> HIDE DEF r
    <3> QED
      BY <1>5, <3>1, <3>2
  <2> QED
    BY <2>1, <2>2
<1>7. /\ r \in Results
      /\ r.nok = res[c].nok + IF ok THEN 1 ELSE 0
      /\ r.nmaybe = res[c].nmaybe + IF ok THEN 0 ELSE 1
  <2>1. CASE ok = TRUE
    BY <1>5, <2>1 DEF Results
  <2>2. CASE ok = FALSE
    BY <1>5, <2>2 DEF Results
  <2> QED
    BY <2>1, <2>2
<1> HIDE DEF r
<1>8. res' \in [Clients -> Results] /\ res'[c] = r /\ \A d \in Clients \ {c} : res'[d] = res[d]
  BY <1>5, <1>6, <1>7
<1> QED
  BY <1>2, <1>3, <1>4, <1>7, <1>8

-----------------------------------------------------------------------------
(* Each action *)

Basic == TypeOK /\ Phases /\ Times

LEMMA LogFinite == Times => IsFiniteSet(oplog)
  BY DEF Times

\* For each action: the types, the phases, and what the later lemmas need to know of the step.
LEMMA TakeDoneBasic ==
    ASSUME Basic, NEW c \in Clients, TakeDone(c)
    PROVE  /\ TypeOK' /\ Phases' /\ Still /\ Moves(c, "result")
           /\ UNCHANGED <<params, local, tester>> /\ pc[c] = "head" /\ pc[Tester] = "signal"
           /\ fn # "atleastonce"
<1>1. TypeOK /\ Phases /\ c \in Procs
  BY ProcsFacts DEF Basic
<1>2. Moves(c, "result")
  BY <1>1, GotoMoves DEF TakeDone, Places
<1>3. UNCHANGED <<params, service, call, local, tester, oplog>> /\ pc[c] = "head" /\ pc[Tester] = "signal"
  BY DEF TakeDone
<1>4. fn # "atleastonce" /\ call[c] = NoCall
  BY <1>1, <1>3, InCall DEF Phases
<1>5. Phases'
  BY <1>1, <1>2, <1>3, <1>4, ClientPhases DEF params, service
<1>6. TypeOK'
  BY <1>1, <1>2, <1>3 DEF TypeOK, Moves, params, service, local, tester
<1> QED
  BY <1>2, <1>3, <1>4, <1>5, <1>6 DEF Still, service

LEMMA AppendIterBasic ==
    ASSUME Basic, NEW c \in Clients, AppendIter(c)
    PROVE  /\ TypeOK' /\ Phases' /\ Begins(c) /\ Moves(c, "get") /\ call'[c].op = "get"
           /\ call'[c].start = Cardinality(oplog')
           /\ UNCHANGED <<params, local, tester>> /\ pc[c] = "head" /\ fn = "append"
<1>1. TypeOK /\ Phases /\ c \in Procs /\ IsFiniteSet(oplog) /\ None \in Vals
  BY ProcsFacts, LogFinite DEF Basic, Vals
<1>2. Moves(c, "get")
  BY <1>1, GotoMoves DEF AppendIter, Places
<1>3. UNCHANGED <<params, service, local, tester, oplog>> /\ pc[c] = "head" /\ fn = "append"
  BY DEF AppendIter
<1>4. NewCall(c) /\ call'[c].op = "get" /\ call'[c].start = Cardinality(oplog')
  BY <1>1, <1>3, CallsNew DEF AppendIter
<1>5. call[c].op = "none"
  BY <1>1, <1>3, InCall
<1>6. Phases'
  BY <1>1, <1>2, <1>3, <1>4, ClientPhases DEF params, service
<1>7. TypeOK'
  BY <1>1, <1>2, <1>3, <1>4 DEF TypeOK, Moves, NewCall, params, service, local, tester
<1> QED
  BY <1>2, <1>3, <1>4, <1>5, <1>6, <1>7 DEF Begins, service

LEMMA AppendGotBasic ==
    ASSUME Basic, AppendInv, NEW c \in Clients, AppendGot(c)
    PROVE  /\ TypeOK' /\ Phases' /\ Ends(c)
           /\ UNCHANGED <<params, local, tester>> /\ pc[c] = "get" /\ fn = "append"
           /\ Err(c) = "OK" /\ call[c].reply.val \in Seq(Entries)
           /\ Moves(c, "put") /\ call'[c].op = "put"
           /\ call'[c].val = Append(call[c].reply.val, Entry(c, iter[c]))
           /\ call'[c].ver = call[c].reply.ver
           /\ call'[c].start = Cardinality(oplog')
<1>1. TypeOK /\ Phases /\ Times /\ c \in Procs
  BY ProcsFacts DEF Basic
<1>2. UNCHANGED <<params, service>> /\ pc[c] = "get" /\ fn = "append" /\ Returns(c)
      /\ UNCHANGED <<local, tester>>
  BY DEF AppendGot, Fatal
<1>3. call[c].op = "get" /\ call[c].op # "none"
  BY <1>1, <1>2, InCall
<1>4. IsFiniteSet(oplog') /\ oplog' \subseteq Ops /\ call[c].reply # NoReply
  BY <1>1, <1>2, <1>3, ReturnsFacts
<1>5. call[c].reply.val \in Seq(Entries) /\ call[c].reply.err = "OK"
  BY <1>1, <1>2, <1>4 DEF AppendInv, AppendList, ListRead
<1>6. Err(c) = "OK"
  BY <1>3, <1>5 DEF Err
<1>7. Goto(c, "put") /\ Calls(c, "put", Append(call[c].reply.val, Entry(c, iter[c])), call[c].reply.ver)
  BY <1>6 DEF AppendGot
<1>8. Append(call[c].reply.val, Entry(c, iter[c])) \in Vals /\ call[c].reply.ver \in Nat
  <2>1. Entry(c, iter[c]) \in Entries
    BY <1>1 DEF TypeOK, Entry, Entries
  <2>2. call[c].reply.ver \in Nat
    BY <1>1 DEF TypeOK, CallRecs, Replies
  <2> QED
    BY <1>5, <2>1, <2>2 DEF Vals
<1>9. /\ NewCall(c) /\ call'[c].op = "put" /\ call'[c].ver = call[c].reply.ver
      /\ call'[c].val = Append(call[c].reply.val, Entry(c, iter[c]))
      /\ call'[c].start = Cardinality(oplog')
  <2>1. PICK val, v : val = Append(call[c].reply.val, Entry(c, iter[c])) /\ v = call[c].reply.ver
    OBVIOUS
  <2>2. val \in Vals /\ v \in Nat /\ Calls(c, "put", val, v)
    BY <1>7, <1>8, <2>1
  <2>3. /\ NewCall(c) /\ call'[c].op = "put" /\ call'[c].ver = v /\ call'[c].val = val
        /\ call'[c].start = Cardinality(oplog')
    BY <1>1, <1>4, <2>2, CallsNew
  <2> QED
    BY <2>1, <2>3
<1>10. Moves(c, "put")
  BY <1>1, <1>7, GotoMoves DEF Places
<1>11. Phases'
  BY <1>1, <1>2, <1>9, <1>10, ClientPhases DEF params, service
<1>12. TypeOK'
  BY <1>1, <1>2, <1>4, <1>9, <1>10 DEF TypeOK, Moves, NewCall, params, service, local, tester
<1> QED
  BY <1>2, <1>3, <1>5, <1>6, <1>9, <1>10, <1>11, <1>12 DEF Ends, service

LEMMA AppendPutBasic ==
    ASSUME Basic, NEW c \in Clients, AppendPut(c)
    PROVE  /\ TypeOK' /\ Phases' /\ Ends(c)
           /\ UNCHANGED <<params, ver, err, tester>> /\ pc[c] = "put" /\ fn = "append"
           /\ \/ /\ Err(c) \in {"OK", "ErrMaybe"}
                 /\ \A d \in Clients \ {c} : res'[d] = res[d] /\ iter'[d] = iter[d]
                 /\ iter'[c] = iter[c] + 1
                 /\ res'[c].nok = res[c].nok + IF Err(c) = "OK" THEN 1 ELSE 0
                 /\ res'[c].nmaybe = res[c].nmaybe + IF Err(c) = "OK" THEN 0 ELSE 1
                 /\ Moves(c, "head") /\ call'[c] = NoCall
              \/ /\ Err(c) \notin {"OK", "ErrMaybe"} /\ UNCHANGED <<iter, res>>
                 /\ Moves(c, "get") /\ call'[c].op = "get"
                 /\ call'[c].start = Cardinality(oplog')
<1>1. TypeOK /\ Phases /\ Times /\ c \in Procs /\ None \in Vals
  BY ProcsFacts DEF Basic, Vals
<1>2. UNCHANGED <<params, service, ver, err, tester>> /\ pc[c] = "put" /\ fn = "append" /\ Returns(c)
  BY DEF AppendPut
<1>3. call[c].op = "put" /\ call[c].op # "none"
  BY <1>1, <1>2, InCall
<1>4. IsFiniteSet(oplog') /\ oplog' \subseteq Ops
  BY <1>1, <1>2, <1>3, ReturnsFacts
<1>5. CASE LeavesLoop(Err(c))
  <2>1. PICK ok \in BOOLEAN : ok = (Err(c) = "OK") /\ Counted(c, ok)
    BY <1>5 DEF AppendPut
  <2>2. /\ res' \in [Clients -> Results] /\ iter' \in [Clients -> Nat]
        /\ \A d \in Clients \ {c} : res'[d] = res[d] /\ iter'[d] = iter[d]
        /\ iter'[c] = iter[c] + 1
        /\ res'[c].nok = res[c].nok + IF ok THEN 1 ELSE 0
        /\ res'[c].nmaybe = res[c].nmaybe + IF ok THEN 0 ELSE 1
        /\ Moves(c, "head") /\ NewCall(c) /\ call'[c] = NoCall
    BY <1>1, <2>1, CountedFacts
  <2>3. Phases'
    BY <1>1, <1>2, <2>2, ClientPhases DEF params, service
  <2>4. TypeOK'
    BY <1>1, <1>2, <1>4, <2>2 DEF TypeOK, Moves, NewCall, params, service, local, tester
  <2>5. Ends(c)
    BY <1>2, <1>3, <2>2 DEF Ends, service
  <2> QED
    BY <1>2, <1>5, <2>1, <2>2, <2>3, <2>4, <2>5 DEF LeavesLoop
<1>6. CASE ~ LeavesLoop(Err(c))
  <2>1. Goto(c, "get") /\ Calls(c, "get", None, 0) /\ UNCHANGED <<iter, res>>
    BY <1>6 DEF AppendPut
  <2>2. NewCall(c) /\ call'[c].op = "get" /\ call'[c].start = Cardinality(oplog')
    BY <1>1, <1>4, <2>1, CallsNew
  <2>3. Moves(c, "get")
    BY <1>1, <2>1, GotoMoves DEF Places
  <2>4. Phases'
    BY <1>1, <1>2, <2>2, <2>3, ClientPhases DEF params, service
  <2>5. TypeOK'
    BY <1>1, <1>2, <1>4, <2>1, <2>2, <2>3 DEF TypeOK, Moves, NewCall, params, service, local, tester
  <2>6. Ends(c)
    BY <1>2, <1>3, <2>2 DEF Ends, service
  <2> QED
    BY <1>2, <1>6, <2>1, <2>2, <2>3, <2>4, <2>5, <2>6 DEF LeavesLoop
<1> QED
  BY <1>5, <1>6

LEMMA PutIterBasic ==
    ASSUME Basic, NEW c \in Clients, PutIter(c)
    PROVE  /\ TypeOK' /\ Phases' /\ Begins(c) /\ Moves(c, "put") /\ call'[c].op = "put"
           /\ call'[c].val = <<Entry(c, ver[c])>> /\ call'[c].ver = ver[c]
           /\ call'[c].start = Cardinality(oplog')
           /\ UNCHANGED <<params, local, tester>> /\ pc[c] = "head" /\ fn = "put"
<1>1. TypeOK /\ Phases /\ c \in Procs /\ IsFiniteSet(oplog)
  BY ProcsFacts, LogFinite DEF Basic
<1>2. Moves(c, "put")
  BY <1>1, GotoMoves DEF PutIter, Places
<1>3. UNCHANGED <<params, service, local, tester, oplog>> /\ pc[c] = "head" /\ fn = "put"
  BY DEF PutIter
<1>4. /\ NewCall(c) /\ call'[c].op = "put" /\ call'[c].start = Cardinality(oplog')
      /\ call'[c].val = <<Entry(c, ver[c])>> /\ call'[c].ver = ver[c]
  <2>1. PICK val, v : val = <<Entry(c, ver[c])>> /\ v = ver[c]
    OBVIOUS
  <2>2. v \in Nat /\ val \in Vals /\ Calls(c, "put", val, v)
    <3>1. ver[c] \in Nat
      BY <1>1 DEF TypeOK
    <3>2. Entry(c, ver[c]) \in Entries
      BY <1>1, <3>1 DEF Entry, Entries
    <3> QED
      BY <2>1, <3>1, <3>2 DEF PutIter, Vals
  <2>3. /\ NewCall(c) /\ call'[c].op = "put" /\ call'[c].val = val /\ call'[c].ver = v
        /\ call'[c].start = Cardinality(oplog')
    BY <1>1, <1>3, <2>2, CallsNew
  <2> QED
    BY <2>1, <2>3
<1>5. call[c].op = "none"
  BY <1>1, <1>3, InCall
<1>6. Phases'
  BY <1>1, <1>2, <1>3, <1>4, ClientPhases DEF params, service
<1>7. TypeOK'
  BY <1>1, <1>2, <1>3, <1>4 DEF TypeOK, Moves, NewCall, params, service, local, tester
<1> QED
  BY <1>2, <1>3, <1>4, <1>5, <1>6, <1>7 DEF Begins, service

LEMMA FatalMoves ==
    ASSUME TypeOK, NEW p \in Procs, Fatal(p)
    PROVE  /\ Moves(p, "fatal") /\ NewCall(p) /\ call'[p] = NoCall
           /\ UNCHANGED <<params, service, local, tester>>
  BY GotoMoves, NoMoreCallsNew DEF Fatal, Places

LEMMA PutPutBasic ==
    ASSUME Basic, NEW c \in Clients, PutPut(c)
    PROVE  /\ TypeOK' /\ Phases' /\ Ends(c)
           /\ UNCHANGED <<params, iter, ver, res, tester>> /\ pc[c] = "put" /\ fn = "put"
           /\ \/ /\ Err(c) \notin {"OK", "ErrVersion", "ErrMaybe"}
                 /\ Moves(c, "fatal") /\ call'[c] = NoCall /\ err' = err
              \/ /\ Err(c) \in {"OK", "ErrVersion", "ErrMaybe"}
                 /\ err'[c] = Err(c) /\ \A d \in Clients \ {c} : err'[d] = err[d]
                 /\ Moves(c, "get") /\ call'[c].op = "get"
<1>1. TypeOK /\ Phases /\ Times /\ c \in Procs /\ None \in Vals
  BY ProcsFacts DEF Basic, Vals
<1>2. /\ UNCHANGED <<params, service, iter, ver, res, tester>> /\ pc[c] = "put" /\ fn = "put"
      /\ Returns(c)
  BY DEF PutPut, Fatal, local
<1>3. call[c].op = "put" /\ call[c].op # "none"
  BY <1>1, <1>2, InCall
<1>4. IsFiniteSet(oplog') /\ oplog' \subseteq Ops
  BY <1>1, <1>2, <1>3, ReturnsFacts
<1>5. CASE Err(c) \notin {"OK", "ErrVersion", "ErrMaybe"}
  <2>1. Fatal(c)
    BY <1>5 DEF PutPut
  <2>2. Moves(c, "fatal") /\ NewCall(c) /\ call'[c] = NoCall /\ UNCHANGED <<params, service, local, tester>>
    BY <1>1, <2>1, FatalMoves
  <2>3. Phases'
    BY <1>1, <1>2, <2>2, ClientPhases DEF params, service
  <2>4. TypeOK'
    BY <1>1, <1>2, <1>4, <2>2 DEF TypeOK, Moves, NewCall, params, service, local, tester
  <2> QED
    BY <1>2, <1>3, <1>5, <2>2, <2>3, <2>4 DEF Ends, service, local
<1>6. CASE Err(c) \in {"OK", "ErrVersion", "ErrMaybe"}
  <2>1. err' = [err EXCEPT ![c] = Err(c)] /\ Goto(c, "get") /\ Calls(c, "get", None, 0)
    BY <1>6 DEF PutPut
  <2>2. NewCall(c) /\ call'[c].op = "get"
    BY <1>1, <1>4, <2>1, CallsNew
  <2>3. Moves(c, "get")
    BY <1>1, <2>1, GotoMoves DEF Places
  <2>4. err' \in [Clients -> Errs] /\ err'[c] = Err(c) /\ \A d \in Clients \ {c} : err'[d] = err[d]
    BY <1>1, <1>6, <2>1 DEF TypeOK, Errs
  <2>5. Phases'
    BY <1>1, <1>2, <2>2, <2>3, ClientPhases DEF params, service
  <2>6. TypeOK'
    BY <1>1, <1>2, <1>4, <2>2, <2>3, <2>4 DEF TypeOK, Moves, NewCall, params, service, tester
  <2> QED
    BY <1>2, <1>3, <1>6, <2>2, <2>3, <2>4, <2>5, <2>6 DEF Ends, service
<1> QED
  BY <1>5, <1>6

LEMMA PutGotBasic ==
    ASSUME Basic, NEW c \in Clients, PutGot(c)
    PROVE  /\ TypeOK' /\ Phases' /\ Ends(c)
           /\ UNCHANGED <<params, err, tester>> /\ pc[c] = "get" /\ fn = "put"
           /\ \/ /\ Err(c) # "OK" \/ WrongValue(c, call[c].reply.val[1], call[c].reply.ver)
                 /\ Moves(c, "fatal") /\ call'[c] = NoCall /\ UNCHANGED <<iter, ver, res>>
              \/ /\ Err(c) = "OK"
                 /\ ver'[c] = call[c].reply.ver /\ \A q \in Procs \ {c} : ver'[q] = ver[q]
                 /\ \/ /\ err[c] \in {"OK", "ErrMaybe"}
                       /\ \A d \in Clients \ {c} : res'[d] = res[d] /\ iter'[d] = iter[d]
                       /\ iter'[c] = iter[c] + 1
                       /\ res'[c].nok = res[c].nok + IF err[c] = "OK" THEN 1 ELSE 0
                       /\ res'[c].nmaybe = res[c].nmaybe + IF err[c] = "OK" THEN 0 ELSE 1
                       /\ Moves(c, "head") /\ call'[c] = NoCall
                    \/ /\ err[c] \notin {"OK", "ErrMaybe"} /\ UNCHANGED <<iter, res>>
                       /\ Moves(c, "put") /\ call'[c].op = "put"
                       /\ call'[c].val = <<Entry(c, call[c].reply.ver)>>
                       /\ call'[c].ver = call[c].reply.ver
<1>1. TypeOK /\ Phases /\ Times /\ c \in Procs
  BY ProcsFacts DEF Basic
<1>2. /\ UNCHANGED <<params, service, err, tester>> /\ pc[c] = "get" /\ fn = "put" /\ Returns(c)
  BY DEF PutGot, Fatal, local
<1>3. call[c].op = "get" /\ call[c].op # "none"
  BY <1>1, <1>2, InCall
<1>4. IsFiniteSet(oplog') /\ oplog' \subseteq Ops
  BY <1>1, <1>2, <1>3, ReturnsFacts
<1>5. CASE Err(c) # "OK" \/ WrongValue(c, call[c].reply.val[1], call[c].reply.ver)
  <2>1. Fatal(c)
    BY <1>5 DEF PutGot
  <2>2. Moves(c, "fatal") /\ NewCall(c) /\ call'[c] = NoCall /\ UNCHANGED <<params, service, local, tester>>
    BY <1>1, <2>1, FatalMoves
  <2>3. Phases'
    BY <1>1, <1>2, <2>2, ClientPhases DEF params, service
  <2>4. TypeOK'
    BY <1>1, <1>2, <1>4, <2>2 DEF TypeOK, Moves, NewCall, params, service, local, tester
  <2> QED
    BY <1>2, <1>3, <1>5, <2>2, <2>3, <2>4 DEF Ends, service, local
<1>6. CASE ~ (Err(c) # "OK" \/ WrongValue(c, call[c].reply.val[1], call[c].reply.ver))
  <2>1. call[c].reply.ver \in Nat
    BY <1>1 DEF TypeOK, CallRecs, Replies
  <2>2. ver' = [ver EXCEPT ![c] = call[c].reply.ver]
    BY <1>6 DEF PutGot
  <2>3. /\ ver' \in [Procs -> Nat]
        /\ ver'[c] = call[c].reply.ver /\ \A q \in Procs \ {c} : ver'[q] = ver[q]
    BY <1>1, <2>1, <2>2 DEF TypeOK
  <2>4. CASE LeavesLoop(err[c])
    <3>1. PICK ok \in BOOLEAN : ok = (err[c] = "OK") /\ Counted(c, ok)
      BY <1>6, <2>4 DEF PutGot
    <3>2. /\ res' \in [Clients -> Results] /\ iter' \in [Clients -> Nat]
          /\ \A d \in Clients \ {c} : res'[d] = res[d] /\ iter'[d] = iter[d]
          /\ iter'[c] = iter[c] + 1
          /\ res'[c].nok = res[c].nok + IF ok THEN 1 ELSE 0
          /\ res'[c].nmaybe = res[c].nmaybe + IF ok THEN 0 ELSE 1
          /\ Moves(c, "head") /\ NewCall(c) /\ call'[c] = NoCall
      BY <1>1, <3>1, CountedFacts
    <3>3. Phases'
      BY <1>1, <1>2, <3>2, ClientPhases DEF params, service
    <3>4. TypeOK'
      BY <1>1, <1>2, <1>4, <2>3, <3>2 DEF TypeOK, Moves, NewCall, params, service, tester
    <3>5. Ends(c)
      BY <1>2, <1>3, <3>2 DEF Ends, service
    <3> QED
      BY <1>2, <1>6, <2>3, <2>4, <3>1, <3>2, <3>3, <3>4, <3>5 DEF LeavesLoop
  <2>5. CASE ~ LeavesLoop(err[c])
    <3>1. PICK val, v : val = <<Entry(c, call[c].reply.ver)>> /\ v = call[c].reply.ver
      OBVIOUS
    <3>2. Goto(c, "put") /\ Calls(c, "put", val, v) /\ UNCHANGED <<iter, res>>
      BY <1>6, <2>5, <3>1 DEF PutGot
    <3>3. v \in Nat /\ val \in Vals
      <4>1. Entry(c, v) \in Entries
        BY <1>1, <2>1, <3>1 DEF Entry, Entries
      <4> QED
        BY <2>1, <3>1, <4>1 DEF Vals
    <3>4. NewCall(c) /\ call'[c].op = "put" /\ call'[c].val = val /\ call'[c].ver = v
      BY <1>1, <1>4, <3>2, <3>3, CallsNew
    <3>5. Moves(c, "put")
      BY <1>1, <3>2, GotoMoves DEF Places
    <3>6. Phases'
      BY <1>1, <1>2, <3>4, <3>5, ClientPhases DEF params, service
    <3>7. TypeOK'
      BY <1>1, <1>2, <1>4, <2>3, <3>2, <3>4, <3>5 DEF TypeOK, Moves, NewCall, params, service, tester
    <3>8. Ends(c)
      BY <1>2, <1>3, <3>4 DEF Ends, service
    <3> QED
      BY <1>2, <1>6, <2>3, <2>5, <3>1, <3>2, <3>4, <3>5, <3>6, <3>7, <3>8 DEF LeavesLoop
  <2> QED
    BY <2>4, <2>5
<1> QED
  BY <1>5, <1>6

-----------------------------------------------------------------------------
(* The tester's actions *)

LEMMA SignalBasic ==
    ASSUME Basic, Signal
    PROVE  /\ TypeOK' /\ Phases' /\ Still /\ Moves(Tester, "signal")
           /\ UNCHANGED <<params, local, tester>>
           /\ pc[Tester] = "sleep" /\ \E c \in Clients : iter[c] > 0
<1>1. TypeOK /\ Phases /\ Tester \in Procs
  BY ProcsFacts DEF Basic
<1>2. Moves(Tester, "signal")
  BY <1>1, GotoMoves DEF Signal, Places
<1>3. /\ UNCHANGED <<params, service, call, local, tester, oplog>>
      /\ pc[Tester] = "sleep" /\ \E c \in Clients : iter[c] > 0
  BY DEF Signal
<1>4. fn # "atleastonce" /\ call[Tester] = NoCall
  BY <1>1, <1>3, InCall DEF Phases
<1>5. Phases'
  BY <1>1, <1>2, <1>3, <1>4, TesterPhases DEF params, service, Places
<1>6. TypeOK'
  BY <1>1, <1>2, <1>3 DEF TypeOK, Moves, params, service, local, tester
<1> QED
  BY <1>2, <1>3, <1>5, <1>6 DEF Still, service

LEMMA CountsTyped ==
    ASSUME TypeOK
    PROVE  /\ Counts \in Results
           /\ [c \in Clients |-> res[c].nok] \in [Clients -> Nat]
           /\ [c \in Clients |-> res[c].nmaybe] \in [Clients -> Nat]
<1>1. \A c \in Clients : res[c].nok \in Nat /\ res[c].nmaybe \in Nat
  BY DEF TypeOK, Results
<1>2. /\ [c \in Clients |-> res[c].nok] \in [Clients -> Nat]
      /\ [c \in Clients |-> res[c].nmaybe] \in [Clients -> Nat]
  BY <1>1
<1>3. PICK f, g : f = [c \in Clients |-> res[c].nok] /\ g = [c \in Clients |-> res[c].nmaybe]
  OBVIOUS
<1>4. Sum(f) \in Nat /\ Sum(g) \in Nat
  BY <1>2, <1>3, UnitsFinite
<1>5. total.nok \in Nat /\ total.nmaybe \in Nat
  BY DEF TypeOK, Results
<1>6. Counts = [nok |-> total.nok + Sum(f), nmaybe |-> total.nmaybe + Sum(g)]
  BY <1>3 DEF Counts
<1> QED
  BY <1>2, <1>4, <1>5, <1>6 DEF Results

LEMMA CollectBasic ==
    ASSUME Basic, Collect
    PROVE  /\ TypeOK' /\ Phases' /\ Begins(Tester)
           /\ pc[Tester] = "signal" /\ (\A c \in Clients : pc[c] = "result")
           /\ pc'[Tester] = "get" /\ (\A c \in Clients : pc'[c] = "end")
           /\ call'[Tester].op = "get" /\ call'[Tester].start = Cardinality(oplog')
           /\ total' = Counts /\ fn # "atleastonce"
           /\ UNCHANGED <<params, local, round, verdict>>
<1>1. TypeOK /\ Phases /\ Tester \in Procs /\ IsFiniteSet(oplog) /\ None \in Vals
  BY ProcsFacts, LogFinite DEF Basic, Vals
<1>2. /\ UNCHANGED <<params, service, local, round, verdict, oplog>> /\ total' = Counts
      /\ pc[Tester] = "signal" /\ (\A c \in Clients : pc[c] = "result")
      /\ pc' = [p \in Procs |-> IF p = Tester THEN "get" ELSE "end"]
      /\ Calls(Tester, "get", None, 0)
  BY DEF Collect
<1>3. pc' \in [Procs -> Places] /\ pc'[Tester] = "get" /\ \A c \in Clients : pc'[c] = "end"
  BY <1>2, ProcsFacts DEF Places
<1>4. NewCall(Tester) /\ call'[Tester].op = "get" /\ call'[Tester].start = Cardinality(oplog')
  BY <1>1, <1>2, CallsNew
<1>5. call[Tester].op = "none" /\ fn # "atleastonce"
  BY <1>1, <1>2, InCall DEF Phases
<1>6. \A c \in Clients : call'[c] = NoCall
  <2>1. \A c \in Clients : call[c] = NoCall /\ c \in Procs \ {Tester}
    BY <1>1, <1>2, ProcsFacts DEF Phases
  <2> QED
    BY <1>4, <2>1 DEF NewCall
<1>7. Phases'
  <2>1. \A p \in Procs : IF pc'[p] \in {"get", "put"} THEN call'[p].op = pc'[p] ELSE call'[p] = NoCall
    BY <1>3, <1>4, <1>6, ProcsFacts
  <2>2. \A p \in Procs : ~ call'[p].resent
    BY <1>4, <1>6, ProcsFacts, NoCallFacts DEF NewCall
  <2> QED
    BY <1>1, <1>2, <1>3, <1>5, <2>1, <2>2 DEF Phases, params, service
<1>8. TypeOK'
  BY <1>1, <1>2, <1>3, <1>4, CountsTyped DEF TypeOK, NewCall, params, service, local
<1> QED
  BY <1>2, <1>3, <1>4, <1>5, <1>7, <1>8 DEF Begins, service

LEMMA CheckBasic ==
    ASSUME Basic, Check
    PROVE  /\ TypeOK' /\ Phases' /\ Ends(Tester) /\ pc[Tester] = "get" /\ fn # "atleastonce"
           /\ UNCHANGED <<params, local, total, round>> /\ call'[Tester] = NoCall
           /\ \/ /\ Moves(Tester, "passed") /\ verdict' # "illegal" /\ CheckPorcupine
                 /\ Err(Tester) = "OK"
                 /\ fn = "put" => CheckPutConcurrent(call[Tester].reply.ver)
              \/ /\ Moves(Tester, "fatal")
                 /\ \/ Err(Tester) # "OK"
                    \/ fn = "put" /\ ~ CheckPutConcurrent(call[Tester].reply.ver)
                    \/ fn # "put" /\ ~ CheckAppends(call[Tester].reply.val, call[Tester].reply.ver)
                    \/ CheckPorcupine /\ verdict' = "illegal"
<1>1. TypeOK /\ Phases /\ Times /\ Tester \in Procs
  BY ProcsFacts DEF Basic
<1>2. /\ UNCHANGED <<params, service, local, total, round>> /\ pc[Tester] = "get"
      /\ fn # "atleastonce" /\ Returns(Tester) /\ NoMoreCalls(Tester)
  BY DEF Check
<1>3. call[Tester].op # "none"
  BY <1>1, <1>2, InCall
<1>4. IsFiniteSet(oplog') /\ oplog' \subseteq Ops
  BY <1>1, <1>2, <1>3, ReturnsFacts
<1>5. NewCall(Tester) /\ call'[Tester] = NoCall
  BY <1>1, <1>2, NoMoreCallsNew
<1>6. PICK l \in {"passed", "fatal"} :
          /\ Goto(Tester, l)
          /\ verdict' \in {"none", "ok", "illegal", "unknown"}
          /\ \/ /\ l = "passed" /\ verdict' # "illegal" /\ CheckPorcupine
                /\ Err(Tester) = "OK"
                /\ fn = "put" => CheckPutConcurrent(call[Tester].reply.ver)
             \/ /\ l = "fatal"
                /\ \/ Err(Tester) # "OK"
                   \/ fn = "put" /\ ~ CheckPutConcurrent(call[Tester].reply.ver)
                   \/ fn # "put" /\ ~ CheckAppends(call[Tester].reply.val, call[Tester].reply.ver)
                   \/ CheckPorcupine /\ verdict' = "illegal"
  <2> DEFINE passed == Err(Tester) = "OK" /\ IF fn = "put"
                           THEN CheckPutConcurrent(call[Tester].reply.ver)
                           ELSE CheckAppends(call[Tester].reply.val, call[Tester].reply.ver)
  <2>1. /\ IF passed THEN CheckPorcupine ELSE UNCHANGED verdict
        /\ Goto(Tester, IF passed /\ verdict' # "illegal" THEN "passed" ELSE "fatal")
    BY DEF Check
  <2>2. verdict' \in {"none", "ok", "illegal", "unknown"}
    <3>1. verdict \in {"none", "ok", "illegal", "unknown"}
      BY <1>1 DEF TypeOK
    <3> HIDE DEF passed
    <3> QED
      BY <2>1, <3>1 DEF CheckPorcupine
  <2>3. CASE passed /\ verdict' # "illegal"
    <3>1. Goto(Tester, "passed") /\ CheckPorcupine
      BY <2>1, <2>3, Zenon
    <3> QED
      BY <2>2, <2>3, <3>1
  <2>4. CASE ~ passed
    <3>1. Goto(Tester, "fatal")
      BY <2>1, <2>4, Zenon
    <3> QED
      BY <2>2, <2>4, <3>1
  <2>5. CASE passed /\ verdict' = "illegal"
    <3>1. Goto(Tester, "fatal") /\ CheckPorcupine
      BY <2>1, <2>5, Zenon
    <3> QED
      BY <2>2, <2>5, <3>1
  <2> QED
    BY <2>3, <2>4, <2>5
<1>7. Moves(Tester, l)
  BY <1>1, <1>6, GotoMoves DEF Places
<1>8. pc[Tester] \notin {"sleep", "signal"} /\ l \in Places
  BY <1>2 DEF Places
<1>9. Phases'
  BY <1>1, <1>2, <1>5, <1>7, <1>8, TesterPhases DEF params, service
<1>10. TypeOK'
  BY <1>1, <1>2, <1>4, <1>5, <1>6, <1>7 DEF TypeOK, Moves, NewCall, params, service, local
<1>11. Ends(Tester)
  BY <1>2, <1>3, <1>5 DEF Ends, service
<1> QED
  BY <1>2, <1>5, <1>6, <1>7, <1>9, <1>10, <1>11

LEMMA NextRoundBasic ==
    ASSUME Basic, NextRound
    PROVE  /\ TypeOK' /\ Phases' /\ Still /\ fn = "put" /\ pc[Tester] = "passed"
           /\ pc'[Tester] = "sleep" /\ (\A c \in Clients : pc'[c] = "head")
           /\ (\A p \in Procs : call[p] = NoCall /\ ver'[p] = 0)
           /\ (\A c \in Clients : iter'[c] = 0 /\ res'[c] = NoRes)
           /\ UNCHANGED <<params, err, total>>
<1>1. TypeOK /\ Phases
  BY DEF Basic
<1>2. /\ fn = "put" /\ pc[Tester] = "passed" /\ round' = round + 1
      /\ pc' = [p \in Procs |-> IF p = Tester THEN "sleep" ELSE "head"]
      /\ iter' = [c \in Clients |-> 0] /\ ver' = [p \in Procs |-> 0]
      /\ res' = [c \in Clients |-> NoRes] /\ verdict' = "none"
      /\ UNCHANGED <<params, service, call, err, total, oplog>>
  BY DEF NextRound
<1>3. pc' \in [Procs -> Places] /\ pc'[Tester] = "sleep" /\ \A c \in Clients : pc'[c] = "head"
  BY <1>2, ProcsFacts DEF Places
<1>4. \A p \in Procs : call[p] = NoCall
  <2>1. \A c \in Clients : pc[c] = "end"
    BY <1>1, <1>2 DEF Phases
  <2> QED
    BY <1>1, <1>2, <2>1, ProcsFacts, InCall
<1>5. Phases'
  BY <1>1, <1>2, <1>3, <1>4, ProcsFacts DEF Phases, params, service
<1>6. NoRes \in Results
  BY DEF NoRes, Results
<1>7. TypeOK'
  <2>1. iter' \in [Clients -> Nat] /\ ver' \in [Procs -> Nat] /\ res' \in [Clients -> Results]
    BY <1>2, <1>6
  <2>2. round' \in Nat
    <3>1. round \in Nat
      BY <1>1 DEF TypeOK
    <3> QED
      BY <1>2, <3>1
  <2> QED
    BY <1>1, <1>2, <1>3, <2>1, <2>2 DEF TypeOK, params, service
<1> QED
  BY <1>2, <1>3, <1>4, <1>5, <1>7 DEF Still, service

LEMMA AtLeastOncePutBasic ==
    ASSUME Basic, AtLeastOncePut
    PROVE  /\ TypeOK' /\ Phases' /\ Begins(Tester) /\ Moves(Tester, "put")
           /\ call'[Tester].op = "put" /\ call'[Tester].val = <<Entry(Tester, round)>>
           /\ call'[Tester].ver = ver[Tester] /\ pc[Tester] = "start" /\ fn = "atleastonce"
           /\ UNCHANGED <<params, local, tester>>
<1>1. TypeOK /\ Phases /\ Tester \in Procs /\ IsFiniteSet(oplog)
  BY ProcsFacts, LogFinite DEF Basic
<1>2. Moves(Tester, "put")
  BY <1>1, GotoMoves DEF AtLeastOncePut, Places
<1>3. /\ UNCHANGED <<params, service, local, tester, oplog>>
      /\ pc[Tester] = "start" /\ fn = "atleastonce"
  BY DEF AtLeastOncePut
<1>4. /\ NewCall(Tester) /\ call'[Tester].op = "put"
      /\ call'[Tester].val = <<Entry(Tester, round)>> /\ call'[Tester].ver = ver[Tester]
  <2>1. PICK val, v : val = <<Entry(Tester, round)>> /\ v = ver[Tester]
    OBVIOUS
  <2>2. v \in Nat /\ val \in Vals /\ Calls(Tester, "put", val, v)
    <3>1. ver[Tester] \in Nat /\ round \in Nat
      BY <1>1 DEF TypeOK
    <3>2. Entry(Tester, round) \in Entries
      BY <1>1, <3>1 DEF Entry, Entries
    <3> QED
      BY <2>1, <3>1, <3>2 DEF AtLeastOncePut, Vals
  <2>3. NewCall(Tester) /\ call'[Tester].op = "put" /\ call'[Tester].val = val /\ call'[Tester].ver = v
    BY <1>1, <1>3, <2>2, CallsNew
  <2> QED
    BY <2>1, <2>3
<1>5. call[Tester].op = "none"
  BY <1>1, <1>3, InCall
<1>6. Phases'
  BY <1>1, <1>2, <1>3, <1>4, TesterPhases DEF params, service, Places
<1>7. TypeOK'
  BY <1>1, <1>2, <1>3, <1>4 DEF TypeOK, Moves, NewCall, params, service, local, tester
<1> QED
  BY <1>2, <1>3, <1>4, <1>5, <1>6, <1>7 DEF Begins, service

LEMMA AtLeastOncePutDoneBasic ==
    ASSUME Basic, AtLeastOncePutDone
    PROVE  /\ TypeOK' /\ Phases' /\ Ends(Tester) /\ pc[Tester] = "put" /\ fn = "atleastonce"
           /\ UNCHANGED <<params, iter, err, res, tester>>
           /\ ver'[Tester] = NextVersion(ver[Tester], Err(Tester))
           /\ \/ Err(Tester) = "OK" /\ Moves(Tester, "get") /\ call'[Tester].op = "get"
              \/ /\ Err(Tester) \in {"ErrMaybe", "ErrVersion"} \/ ver'[Tester] = 0
                 /\ Err(Tester) # "OK"
                 /\ Moves(Tester, "put") /\ call'[Tester].op = "put"
                 /\ call'[Tester].val = call[Tester].val /\ call'[Tester].ver = ver'[Tester]
              \/ /\ Err(Tester) \notin {"OK", "ErrMaybe", "ErrVersion"}
                 /\ Moves(Tester, "fatal") /\ call'[Tester] = NoCall
<1>1. TypeOK /\ Phases /\ Times /\ Tester \in Procs /\ None \in Vals
  BY ProcsFacts DEF Basic, Vals
<1>2. /\ UNCHANGED <<params, service, iter, err, res, tester>> /\ pc[Tester] = "put"
      /\ fn = "atleastonce" /\ Returns(Tester)
  BY DEF AtLeastOncePutDone
<1>3. call[Tester].op # "none"
  BY <1>1, <1>2, InCall
<1>4. IsFiniteSet(oplog') /\ oplog' \subseteq Ops
  BY <1>1, <1>2, <1>3, ReturnsFacts
<1>5. PICK v : v = NextVersion(ver[Tester], Err(Tester))
  OBVIOUS
<1>6. v \in Nat
  <2>1. ver[Tester] \in Nat
    BY <1>1 DEF TypeOK
  <2> QED
    BY <1>5, <2>1 DEF NextVersion
<1>7. /\ ver' = [ver EXCEPT ![Tester] = v]
      /\ IF Err(Tester) = "OK"
         THEN Goto(Tester, "get") /\ Calls(Tester, "get", None, 0)
         ELSE IF Err(Tester) \in {"ErrMaybe", "ErrVersion"} \/ v = 0
              THEN Goto(Tester, "put") /\ Calls(Tester, "put", call[Tester].val, v)
              ELSE Goto(Tester, "fatal") /\ NoMoreCalls(Tester)
  BY <1>5, Zenon DEF AtLeastOncePutDone
<1>8. ver' \in [Procs -> Nat] /\ ver'[Tester] = v
  BY <1>1, <1>6, <1>7 DEF TypeOK
<1>9. ASSUME NEW l \in {"get", "put", "fatal"}, Moves(Tester, l), NewCall(Tester),
             IF l \in {"get", "put"} THEN call'[Tester].op = l ELSE call'[Tester] = NoCall
      PROVE  TypeOK' /\ Phases' /\ Ends(Tester)
  <2>1. Phases'
    BY <1>1, <1>2, <1>9, TesterPhases DEF params, service, Places
  <2>2. TypeOK'
    BY <1>1, <1>2, <1>4, <1>8, <1>9 DEF TypeOK, Moves, NewCall, params, service, tester
  <2> QED
    BY <1>2, <1>3, <1>9, <2>1, <2>2 DEF Ends, service
<1>10. CASE Err(Tester) = "OK"
  <2>1. Goto(Tester, "get") /\ Calls(Tester, "get", None, 0)
    BY <1>7, <1>10
  <2>2. NewCall(Tester) /\ call'[Tester].op = "get"
    BY <1>1, <1>4, <2>1, CallsNew
  <2>3. Moves(Tester, "get")
    BY <1>1, <2>1, GotoMoves DEF Places
  <2>4. TypeOK' /\ Phases' /\ Ends(Tester)
    BY <1>9, <2>2, <2>3
  <2> QED
    BY <1>2, <1>5, <1>8, <1>10, <2>2, <2>3, <2>4
<1>11. CASE Err(Tester) # "OK" /\ (Err(Tester) \in {"ErrMaybe", "ErrVersion"} \/ v = 0)
  <2>1. PICK val : val = call[Tester].val
    OBVIOUS
  <2>2. Goto(Tester, "put") /\ Calls(Tester, "put", val, v)
    BY <1>7, <1>11, <2>1, Zenon
  <2>3. val \in Vals
    BY <1>1, <2>1 DEF TypeOK, CallRecs
  <2>4. NewCall(Tester) /\ call'[Tester].op = "put" /\ call'[Tester].val = val /\ call'[Tester].ver = v
    BY <1>1, <1>4, <1>6, <2>2, <2>3, CallsNew
  <2>5. Moves(Tester, "put")
    BY <1>1, <2>2, GotoMoves DEF Places
  <2>6. TypeOK' /\ Phases' /\ Ends(Tester)
    BY <1>9, <2>4, <2>5
  <2> QED
    BY <1>2, <1>5, <1>8, <1>11, <2>1, <2>4, <2>5, <2>6
<1>12. CASE Err(Tester) # "OK" /\ ~ (Err(Tester) \in {"ErrMaybe", "ErrVersion"} \/ v = 0)
  <2>1. Goto(Tester, "fatal") /\ NoMoreCalls(Tester)
    BY <1>7, <1>12, Zenon
  <2>2. NewCall(Tester) /\ call'[Tester] = NoCall
    BY <1>1, <2>1, NoMoreCallsNew
  <2>3. Moves(Tester, "fatal")
    BY <1>1, <2>1, GotoMoves DEF Places
  <2>4. TypeOK' /\ Phases' /\ Ends(Tester)
    BY <1>9, <2>2, <2>3
  <2> QED
    BY <1>2, <1>5, <1>8, <1>12, <2>2, <2>3, <2>4
<1> QED
  BY <1>10, <1>11, <1>12

LEMMA CheckGetBasic ==
    ASSUME Basic, CheckGet
    PROVE  /\ TypeOK' /\ Phases' /\ Ends(Tester) /\ pc[Tester] = "get" /\ fn = "atleastonce"
           /\ UNCHANGED <<params, local, total, verdict>> /\ call'[Tester] = NoCall
           /\ LET good == /\ Err(Tester) = "OK"
                          /\ call[Tester].reply.val = <<Entry(Tester, round)>>
                          /\ call[Tester].reply.ver = ver[Tester]
              IN  (Moves(Tester, "start") /\ good) \/ (Moves(Tester, "fatal") /\ ~ good)
<1>1. TypeOK /\ Phases /\ Times /\ Tester \in Procs
  BY ProcsFacts DEF Basic
<1>2. /\ UNCHANGED <<params, service, local, total, verdict>> /\ pc[Tester] = "get"
      /\ fn = "atleastonce" /\ Returns(Tester) /\ NoMoreCalls(Tester) /\ round' = round + 1
  BY DEF CheckGet
<1>3. call[Tester].op # "none"
  BY <1>1, <1>2, InCall
<1>4. IsFiniteSet(oplog') /\ oplog' \subseteq Ops
  BY <1>1, <1>2, <1>3, ReturnsFacts
<1>5. NewCall(Tester) /\ call'[Tester] = NoCall
  BY <1>1, <1>2, NoMoreCallsNew
<1> DEFINE good == /\ Err(Tester) = "OK"
                   /\ call[Tester].reply.val = <<Entry(Tester, round)>>
                   /\ call[Tester].reply.ver = ver[Tester]
<1>6. PICK l \in {"start", "fatal"} : Goto(Tester, l) /\ (l = "start" <=> good)
  BY DEF CheckGet
<1>7. Moves(Tester, l) /\ l \in Places
  BY <1>1, <1>6, GotoMoves DEF Places
<1>8. Phases'
  BY <1>1, <1>2, <1>5, <1>7, TesterPhases DEF params, service
<1>9. TypeOK'
  <2>1. round' \in Nat
    <3>1. round \in Nat
      BY <1>1 DEF TypeOK
    <3> QED
      BY <1>2, <3>1
  <2> QED
    BY <1>1, <1>2, <1>4, <1>5, <1>7, <2>1 DEF TypeOK, Moves, NewCall, params, service, local
<1>10. Ends(Tester)
  BY <1>2, <1>3, <1>5 DEF Ends, service
<1>11. (Moves(Tester, "start") /\ good) \/ (Moves(Tester, "fatal") /\ ~ good)
  <2> HIDE DEF good
  <2>1. l = "start" \/ l = "fatal"
    BY <1>6
  <2> QED
    BY <1>6, <1>7, <2>1
<1> QED
  BY <1>2, <1>5, <1>8, <1>9, <1>10, <1>11

LEMMA AtLeastOnceEndBasic ==
    ASSUME Basic, AtLeastOnceEnd
    PROVE  /\ TypeOK' /\ Phases' /\ Still /\ pc[Tester] = "start" /\ fn = "atleastonce"
           /\ UNCHANGED <<params, local, total, round>> /\ CheckPorcupine
           /\ \/ Moves(Tester, "passed")
              \/ Moves(Tester, "fatal") /\ verdict' = "illegal"
<1>1. TypeOK /\ Phases /\ Tester \in Procs
  BY ProcsFacts DEF Basic
<1>2. /\ UNCHANGED <<params, service, call, local, total, round, oplog>>
      /\ pc[Tester] = "start" /\ fn = "atleastonce" /\ CheckPorcupine
      /\ Goto(Tester, IF verdict' = "illegal" THEN "fatal" ELSE "passed")
  BY DEF AtLeastOnceEnd
<1>3. PICK l \in {"passed", "fatal"} : Goto(Tester, l) /\ (l = "fatal" => verdict' = "illegal")
  BY <1>2
<1>4. Moves(Tester, l) /\ l \in Places
  BY <1>1, <1>3, GotoMoves DEF Places
<1>5. call[Tester] = NoCall
  BY <1>1, <1>2, InCall
<1>6. Phases'
  BY <1>1, <1>2, <1>4, <1>5, TesterPhases DEF params, service
<1>7. verdict' \in {"none", "ok", "illegal", "unknown"}
  BY <1>2 DEF CheckPorcupine
<1>8. TypeOK'
  BY <1>1, <1>2, <1>4, <1>7 DEF TypeOK, Moves, params, service, local
<1> QED
  BY <1>2, <1>3, <1>4, <1>6, <1>8 DEF Still, service

-----------------------------------------------------------------------------
(* The network's and the service's *)

LEMMA ServeBasic ==
    ASSUME Basic, NEW p \in Procs, Serve(p)
    PROVE  TypeOK' /\ Phases'
<1>1. TypeOK /\ Phases
  BY DEF Basic
<1>2. /\ SameCall(p) /\ UNCHANGED <<params, pc, local, tester, oplog>>
      /\ kv' \in States /\ forgot' \in {"never", "not yet", "once"}
      /\ Reads(p) \/ Executes(p) \/ Forgets(p) \/ Refuses(p)
  BY <1>1, ServeCases
<1>3. TypeOK'
  BY <1>1, <1>2 DEF TypeOK, SameCall, params, local, tester
<1>4. forgot' # "never" => reliable
  BY <1>1, <1>2 DEF Phases, Reads, Executes, Forgets, Refuses
<1>5. \A q \in Procs : IF pc[q] \in {"get", "put"} THEN call'[q].op = pc[q] ELSE call'[q] = NoCall
  BY <1>1, <1>2, NoCallFacts DEF Phases, SameCall
<1>6. reliable => \A q \in Procs : ~ call'[q].resent
  BY <1>1, <1>2 DEF Phases, SameCall
<1> QED
  BY <1>1, <1>2, <1>3, <1>4, <1>5, <1>6 DEF Phases, params

LEMMA LoseBasic ==
    ASSUME Basic, NEW p \in Procs, Lose(p)
    PROVE  TypeOK' /\ Phases'
<1>1. TypeOK /\ Phases
  BY DEF Basic
<1>2. /\ UNCHANGED <<params, service, pc, local, tester, oplog>>
      /\ ~ reliable /\ call[p].op = "put"
      /\ call' \in [Procs -> CallRecs] /\ (\A q \in Procs \ {p} : call'[q] = call[q])
      /\ call'[p].op = "put"
  BY <1>1, LoseFacts
<1>3. TypeOK'
  BY <1>1, <1>2 DEF TypeOK, params, service, local, tester
<1>4. \A q \in Procs : IF pc[q] \in {"get", "put"} THEN call'[q].op = pc[q] ELSE call'[q] = NoCall
  BY <1>1, <1>2, NoCallFacts DEF Phases
<1> QED
  BY <1>1, <1>2, <1>3, <1>4 DEF Phases, params, service

-----------------------------------------------------------------------------
(* What does not depend on the kind of test: the times, the acknowledged Puts, and the order *)
(* in which the calls were executed                                                         *)

Common == Times /\ TesterReads /\ Answers /\ Acked /\ Linearized

\* While a client runs, the tester waits.
LEMMA ClientRuns ==
    ASSUME Phases, NEW c \in Clients,
           call[c].op # "none" \/ (fn # "atleastonce" /\ pc[c] # "end")
    PROVE  pc[Tester] \in {"sleep", "signal"} /\ fn # "atleastonce"
<1>1. c \in Procs
  BY ProcsFacts
<1>2. pc[c] \notin {"head", "end"} \/ (fn # "atleastonce" /\ pc[c] # "end")
  BY <1>1, InCall
<1> QED
  BY <1>2 DEF Phases

LEMMA LogTimes ==
    ASSUME TypeOK, Times
    PROVE  /\ Cardinality(oplog) \in Nat
           /\ \A o \in oplog : o.start \in Nat /\ o.end \in Nat /\ o.start < o.end /\ o.end <= Cardinality(oplog)
           /\ \A q \in Procs : call[q].start \in Nat /\ call[q].start <= Cardinality(oplog)
<1>1. Cardinality(oplog) \in Nat
  BY CardFacts DEF Times
<1>2. \A o \in oplog : o.start \in Nat /\ o.end \in Nat
  BY DEF TypeOK, Ops
<1>3. \A q \in Procs : call[q].start \in Nat
  BY DEF TypeOK, CallRecs
<1> QED
  BY <1>1, <1>2, <1>3 DEF Times

\* A new call has no place in the order yet.
LEMMA BeginsCommon ==
    ASSUME TypeOK, Common, NEW p \in Procs, Begins(p), fn' = fn,
           pc'[Tester] = "get" => p = Tester,
           fn # "atleastonce" /\ pc'[Tester] = "get" => call'[Tester].start = Cardinality(oplog')
    PROVE  Common'
<1>1. Times /\ Acked /\ Answers /\ Linearized
  BY DEF Common
<1>2. /\ UNCHANGED <<forgot, kv, oplog>> /\ call[p].op = "none"
      /\ call'[p].reply = NoReply /\ call'[p].start \in {0, Cardinality(oplog')}
      /\ \A q \in Procs \ {p} : call'[q] = call[q]
  BY DEF Begins, NewCall
<1>3. Times'
  <2>1. \A q \in Procs : call'[q].start <= Cardinality(oplog)
    BY <1>1, <1>2, LogTimes
  <2> QED
    BY <1>1, <1>2, <2>1 DEF Times
<1>4. TesterReads'
  BY <1>2 DEF TesterReads
<1>5. Answers'
  BY <1>1, <1>2 DEF Answers
<1>6. Acked'
  <2>1. \A q \in Procs : AckedCall(q)' => AckedCall(q) /\ call'[q] = call[q]
    BY <1>2, NoCallFacts DEF AckedCall
  <2>2. AckedPuts' = AckedPuts
    BY <1>2 DEF AckedPuts
  <2> QED
    BY <1>1, <1>2, <2>1, <2>2 DEF Acked
<1>7. Linearized'
  <2>1. SUFFICES ASSUME forgot = "never" PROVE Ordered(oplog, call', kv)
    BY <1>2 DEF Linearized
  <2>2. Ordered(oplog, call, kv)
    BY <1>1, <2>1 DEF Linearized
  <2>3. PICK log, cl, cl2, s : log = oplog /\ cl = call /\ cl2 = call' /\ s = kv
    OBVIOUS
  <2>4. Ordered(log, cl2, s)
    BY <1>2, <2>2, <2>3, OrderedBegin
  <2> QED
    BY <2>3, <2>4
<1> QED
  BY <1>3, <1>4, <1>5, <1>6, <1>7 DEF Common

\* A call that returns is logged with its place in the order.
LEMMA EndsCommon ==
    ASSUME TypeOK, Common, NEW p \in Procs, Ends(p), fn' = fn,
           pc'[Tester] = "get" => p = Tester,
           fn # "atleastonce" => pc'[Tester] # "get"
    PROVE  Common'
<1>1. Times /\ Acked /\ Answers /\ Linearized
  BY DEF Common
<1>2. PICK rec, t, e : t = Cardinality(oplog) + 1 /\ e = Err(p) /\ rec = Record(call[p], e, t)
  OBVIOUS
<1>3. /\ UNCHANGED <<forgot, kv>> /\ call[p].op # "none" /\ Returns(p)
      /\ call'[p].reply = NoReply /\ call'[p].start \in {0, Cardinality(oplog')}
      /\ \A q \in Procs \ {p} : call'[q] = call[q]
  BY DEF Ends, NewCall
<1>4. /\ oplog' = oplog \cup {rec} /\ rec \in Ops /\ rec \notin oplog /\ IsFiniteSet(oplog')
      /\ Cardinality(oplog') = t /\ Cardinality(oplog) \in Nat /\ call[p].reply # NoReply
  BY <1>1, <1>2, <1>3, ReturnsFacts
<1>5. /\ rec.op = call[p].op /\ rec.ver = call[p].ver /\ rec.err = e
      /\ rec.start = call[p].start /\ rec.end = t
  BY <1>2 DEF Record
<1>6. Times'
  <2>1. \A q \in Procs : call'[q].start <= Cardinality(oplog')
    BY <1>1, <1>2, <1>3, <1>4, LogTimes
  <2>2. \A o \in oplog' : o.start < o.end /\ o.end <= Cardinality(oplog')
    BY <1>1, <1>2, <1>4, <1>5, LogTimes
  <2>3. \A o, q \in oplog' : o.end = q.end => o = q
    <3>1. \A o \in oplog : o.end # t
      BY <1>1, <1>2, LogTimes
    <3> QED
      BY <1>1, <1>4, <1>5, <3>1 DEF Times
  <2> QED
    BY <1>1, <1>3, <1>4, <2>1, <2>2, <2>3 DEF Times
<1>7. TesterReads'
  BY <1>3 DEF TesterReads
<1>8. Answers'
  BY <1>1, <1>3 DEF Answers
<1>9. Acked'
  <2>1. \A q \in Procs : AckedCall(q)' => q # p /\ AckedCall(q) /\ call'[q] = call[q]
    BY <1>3, NoCallFacts DEF AckedCall
  <2>2. \A o \in AckedPuts' : o \in AckedPuts \/ (o = rec /\ AckedCall(p))
    <3>1. e = "OK" => call[p].reply.err = "OK"
      BY <1>2 DEF Err
    <3> QED
      BY <1>4, <1>5, <3>1 DEF AckedPuts, AckedCall
  <2> QED
    BY <1>1, <1>3, <1>5, <2>1, <2>2 DEF Acked
<1>10. Linearized'
  <2>1. SUFFICES ASSUME forgot = "never" PROVE Ordered(oplog', call', kv)
    BY <1>3 DEF Linearized
  <2>2. Ordered(oplog, call, kv)
    BY <1>1, <2>1 DEF Linearized
  <2>3. PICK log, cl, cl2, s : log = oplog /\ cl = call /\ cl2 = call' /\ s = kv
    OBVIOUS
  <2>4. t \in Nat /\ (\A o \in log : o.start < t /\ o.end < t) /\ (\A q \in Procs : cl[q].start < t)
    BY <1>1, <1>2, <2>3, LogTimes
  <2>5. log \subseteq Ops
    BY <2>3 DEF TypeOK
  <2>6. e = IF cl[p].op = "put" /\ cl[p].resent /\ cl[p].reply.err = "ErrVersion"
            THEN "ErrMaybe" ELSE cl[p].reply.err
    BY <1>2, <2>3 DEF Err
  <2>7. cl[p].reply # NoReply /\ cl[p].reply.err # "none"
    BY <1>1, <1>4, <2>3 DEF Answers
  <2>8. Record(cl[p], e, t) \in Ops
    BY <1>2, <1>4, <2>3
  <2>9. cl2[p].reply = NoReply /\ \A q \in Procs \ {p} : cl2[q] = cl[q]
    BY <1>3, <2>3
  <2>10. Ordered(log, cl, s)
    BY <2>2, <2>3
  <2>11. Ordered(log \cup {Record(cl[p], e, t)}, cl2, s)
    BY <2>4, <2>5, <2>6, <2>7, <2>8, <2>9, <2>10, OrderedReturn
  <2> QED
    BY <1>2, <1>4, <2>3, <2>11
<1> QED
  BY <1>6, <1>7, <1>8, <1>9, <1>10 DEF Common

LEMMA StillCommon ==
    ASSUME TypeOK, Common, Still, fn' = fn, pc'[Tester] # "get"
    PROVE  Common'
  BY DEF Common, Still, Times, TesterReads, Answers, Acked, AckedPuts, AckedCall, Linearized

LEMMA LoseCommon ==
    ASSUME TypeOK, Phases, Common, NEW p \in Procs, Lose(p)
    PROVE  Common'
<1>1. Times /\ Acked /\ Answers /\ Linearized /\ TesterReads
  BY DEF Common
<1>2. /\ UNCHANGED <<params, service, pc, local, tester, oplog>> /\ call[p].op = "put"
      /\ \A q \in Procs \ {p} : call'[q] = call[q]
      /\ call'[p].op = "put" /\ call'[p].val = call[p].val /\ call'[p].ver = call[p].ver
      /\ call'[p].start = call[p].start /\ call'[p].resent = TRUE /\ call'[p].reply = NoReply
  BY LoseFacts
<1>3. UNCHANGED <<fn, forgot, kv, pc, oplog>>
  BY <1>2 DEF params, service
<1>4. Times'
  <2>1. \A q \in Procs : call'[q].start = call[q].start
    BY <1>2
  <2>2. Tester \in Procs
    BY ProcsFacts
  <2> QED
    BY <1>1, <1>3, <2>1, <2>2 DEF Times
<1>5. TesterReads'
  <2>1. pc[Tester] = "get" => p # Tester
    BY <1>2, InCall
  <2>2. pc[Tester] = "get" => call'[Tester] = call[Tester]
    BY <1>2, <2>1, ProcsFacts
  <2> QED
    BY <1>1, <1>3, <2>2 DEF TesterReads
<1>6. Answers'
  BY <1>1, <1>2 DEF Answers
<1>7. Acked'
  <2>1. \A q \in Procs : AckedCall(q)' => AckedCall(q) /\ call'[q] = call[q]
    BY <1>2, NoCallFacts DEF AckedCall
  <2>2. AckedPuts' = AckedPuts
    BY <1>3 DEF AckedPuts
  <2> QED
    BY <1>1, <1>3, <2>1, <2>2 DEF Acked
<1>8. Linearized'
  <2>1. SUFFICES ASSUME forgot = "never" PROVE Ordered(oplog, call', kv)
    BY <1>3 DEF Linearized
  <2>2. PICK log, cl, cl2, s : log = oplog /\ cl = call /\ cl2 = call' /\ s = kv
    OBVIOUS
  <2>3. Ordered(log, cl, s)
    BY <1>1, <2>1, <2>2 DEF Linearized
  <2>4. Ordered(log, cl2, s)
    BY <1>2, <2>2, <2>3, OrderedLose
  <2> QED
    BY <2>2, <2>4
<1> QED
  BY <1>4, <1>5, <1>6, <1>7, <1>8 DEF Common

\* A correct service can give the call a place in the order when it serves it.
Timely(p) ==
    forgot = "never" =>
        /\ call[p].op = "get" => kv.ver >= 1
        /\ call[p].op = "put" => call[p].ver <= kv.ver

\* A call that is served takes the next place, or the one that its first attempt has.
LEMMA ServeLinearized ==
    ASSUME TypeOK, NEW p \in Procs, forgot = "never", Ordered(oplog, call, kv),
           Timely(p), SameCall(p), Reads(p) \/ Executes(p) \/ Refuses(p)
    PROVE  Ordered(oplog, call', kv')
<1>1. PICK log, cl, cl2, s, s2 : log = oplog /\ cl = call /\ cl2 = call' /\ s = kv /\ s2 = kv'
  OBVIOUS
<1>2. PICK n, L, at, st : Explains(n, L, at, st, log, cl, s)
  BY <1>1 DEF Ordered
<1>3. /\ cl \in [Procs -> CallRecs] /\ s \in States /\ s.ver \in Nat /\ s.val \in Vals
      /\ (\A q \in Procs : cl[q].ver \in Nat)
      /\ cl[p].val \in Vals /\ cl[p].ver \in Nat /\ cl[p].start \in Nat
  BY <1>1 DEF TypeOK, CallRecs, States
<1>4. /\ \A q \in Procs \ {p} : cl2[q] = cl[q]
      /\ cl2[p].op = cl[p].op /\ cl2[p].val = cl[p].val /\ cl2[p].ver = cl[p].ver
      /\ cl2[p].start = cl[p].start /\ cl2[p].resent = cl[p].resent
      /\ cl[p].reply = NoReply /\ cl[p].op # "none"
  BY <1>1 DEF SameCall
<1>5. Waiting(cl[p], at[p], L, st, s) /\ n \in Nat
  BY <1>2 DEF Explains, Runs
<1>6. None \in Vals
  BY DEF Vals
<1>7. CASE Reads(p)
  <2>1. /\ cl[p].op = "get" /\ s2 = s /\ s.ver >= 1
        /\ cl2[p].reply = [val |-> s.val, ver |-> s.ver, err |-> "OK"]
    BY <1>1, <1>3, <1>7 DEF Reads, Timely
  <2>2. at[p] = 0
    BY <1>4, <1>5, <2>1, NoCallFacts DEF Waiting
  <2>3. PICK o : o = [op |-> "get", val |-> cl[p].val, ver |-> cl[p].ver, out |-> s.val,
                      err |-> "OK", start |-> cl[p].start, end |-> 0]
    OBVIOUS
  <2>4. o \in Ops
    BY <1>3, <2>3 DEF Ops, Errs
  <2>5. Step(s, o) = [ok |-> TRUE, state |-> s2]
    BY <2>1, <2>3 DEF Step
  <2>6. ASSUME NEW L2, NEW st2, L2[n + 1] = o, st2[(n + 1) - 1] = s
        PROVE  Waiting(cl2[p], n + 1, L2, st2, s2)
    BY <1>4, <1>5, <2>1, <2>3, <2>6 DEF Waiting
  <2>7. s.ver <= s2.ver /\ s2 \in States
    BY <1>3, <2>1
  <2>8. Ordered(log, cl2, s2)
    BY <1>2, <1>3, <1>4, <2>2, <2>4, <2>5, <2>6, <2>7, OrderedNext
  <2> QED
    BY <1>1, <2>8 DEF SameCall
<1>8. ASSUME cl[p].op = "put"
      PROVE  \E o \in Ops : o = [op |-> "put", val |-> cl[p].val, ver |-> cl[p].ver, out |-> None,
                                 err |-> "ErrMaybe", start |-> cl[p].start, end |-> 0]
  BY <1>3, <1>6 DEF Ops, Errs
<1>9. CASE Executes(p)
  <2>1. /\ cl[p].op = "put" /\ cl[p].ver = s.ver /\ s2 = [val |-> cl[p].val, ver |-> s.ver + 1]
        /\ cl2[p].reply = [val |-> None, ver |-> 0, err |-> "OK"]
    BY <1>1, <1>9 DEF Executes
  <2>2. at[p] = 0
    BY <1>3, <1>4, <1>5, <2>1 DEF Waiting
  <2>3. PICK o \in Ops : o = [op |-> "put", val |-> cl[p].val, ver |-> cl[p].ver, out |-> None,
                              err |-> "ErrMaybe", start |-> cl[p].start, end |-> 0]
    BY <1>8, <2>1
  <2>4. Step(s, o) = [ok |-> TRUE, state |-> s2]
    BY <2>1, <2>3 DEF Step
  <2>5. s2 \in States /\ s2.ver = s.ver + 1
    BY <1>3, <2>1 DEF States
  <2>6. ASSUME NEW L2, NEW st2, L2[n + 1] = o, st2[(n + 1) - 1] = s
        PROVE  Waiting(cl2[p], n + 1, L2, st2, s2)
    <3>1. cl2[p].reply.err = "OK" /\ cl2[p].reply.val = None /\ cl2[p].reply # NoReply
      BY <2>1, NoCallFacts
    <3>2. cl2[p].ver < s2.ver /\ n + 1 # 0
      BY <1>3, <1>4, <1>5, <2>1, <2>5
    <3>3. /\ o.op = "put" /\ o.val = cl2[p].val /\ o.ver = cl2[p].ver /\ o.start = cl2[p].start
          /\ o.out = None /\ o.err = "ErrMaybe"
      BY <1>4, <2>3
    <3> QED
      BY <1>4, <2>1, <2>6, <3>1, <3>2, <3>3 DEF Waiting
  <2>7. s.ver <= s2.ver
    BY <1>3, <2>5
  <2>8. Ordered(log, cl2, s2)
    BY <1>2, <1>3, <1>4, <2>2, <2>3, <2>4, <2>5, <2>6, <2>7, OrderedNext
  <2> QED
    BY <1>1, <2>8
<1>10. CASE Refuses(p)
  <2>1. cl[p].op = "put" /\ cl[p].ver < s.ver /\ s2 = s
    BY <1>1, <1>3, <1>10 DEF Refuses, Timely
  <2>2. cl2[p].reply = [val |-> None, ver |-> 0, err |-> "ErrVersion"]
    BY <1>1, <1>3, <1>10, <2>1 DEF Refuses
  <2>3. CASE at[p] # 0
    <3>1. Ordered(log, cl2, s)
      BY <1>2, <1>4, <2>1, <2>2, <2>3, OrderedAgain
    <3> QED
      BY <1>1, <2>1, <3>1
  <2>4. CASE at[p] = 0
    <3>3. PICK o \in Ops : o = [op |-> "put", val |-> cl[p].val, ver |-> cl[p].ver, out |-> None,
                                err |-> "ErrMaybe", start |-> cl[p].start, end |-> 0]
      BY <1>8, <2>1
    <3>4. Step(s, o) = [ok |-> TRUE, state |-> s2]
      <4>1. o.op = "put" /\ o.ver = cl[p].ver /\ o.err = "ErrMaybe" /\ s.ver # o.ver
        BY <1>3, <2>1, <3>3
      <4> QED
        BY <2>1, <4>1 DEF Step
    <3>6. ASSUME NEW L2, NEW st2, L2[n + 1] = o, st2[(n + 1) - 1] = s
          PROVE  Waiting(cl2[p], n + 1, L2, st2, s2)
      <4>1. cl2[p].reply.err = "ErrVersion" /\ cl2[p].reply.val = None /\ cl2[p].reply # NoReply
        BY <2>2, NoCallFacts
      <4>2. cl2[p].ver < s2.ver /\ n + 1 # 0 /\ s.ver # cl2[p].ver
        BY <1>3, <1>4, <1>5, <2>1
      <4>3. /\ o.op = "put" /\ o.val = cl2[p].val /\ o.ver = cl2[p].ver /\ o.start = cl2[p].start
            /\ o.out = None /\ o.err = "ErrMaybe"
        BY <1>4, <3>3
      <4> QED
        BY <1>4, <2>1, <3>6, <4>1, <4>2, <4>3 DEF Waiting
    <3>7. s.ver <= s2.ver /\ s2 \in States
      BY <1>3, <2>1
    <3>8. Ordered(log, cl2, s2)
      BY <1>2, <1>3, <1>4, <2>4, <3>3, <3>4, <3>6, <3>7, OrderedNext
    <3> QED
      BY <1>1, <3>8
  <2> QED
    BY <2>3, <2>4
<1> QED
  BY <1>7, <1>9, <1>10

LEMMA ServeCommon ==
    ASSUME TypeOK, Phases, Common, NEW p \in Procs, Timely(p), Serve(p)
    PROVE  Common'
<1>1. Times /\ Acked /\ Answers /\ Linearized /\ TesterReads
  BY DEF Common
<1>2. /\ SameCall(p) /\ UNCHANGED <<params, pc, local, tester, oplog>>
      /\ Reads(p) \/ Executes(p) \/ Forgets(p) \/ Refuses(p)
  BY ServeCases
<1>3. /\ UNCHANGED <<fn, pc, oplog>> /\ call[p].reply = NoReply /\ call[p].op # "none"
      /\ \A q \in Procs \ {p} : call'[q] = call[q]
      /\ call'[p].op = call[p].op /\ call'[p].ver = call[p].ver /\ call'[p].start = call[p].start
  BY <1>2 DEF params, SameCall
<1>4. Times'
  <2>1. \A q \in Procs : call'[q].start = call[q].start
    BY <1>3
  <2>2. Tester \in Procs
    BY ProcsFacts
  <2> QED
    BY <1>1, <1>3, <2>1, <2>2 DEF Times
<1>5. TesterReads'
  <2>1. SUFFICES ASSUME pc[Tester] = "get" PROVE TesterReads'
    BY <1>3 DEF TesterReads
  <2>2. p = Tester /\ call[p].op = "get"
    BY <1>3, <2>1, ProcsFacts, ClientRuns, InCall
  <2>3. Reads(p)
    BY <1>2, <2>2 DEF Executes, Forgets, Refuses
  <2>4. UNCHANGED kv /\ call'[Tester].reply = [val |-> kv.val, ver |-> kv.ver,
                                                err |-> IF kv.ver = 0 THEN "ErrNoKey" ELSE "OK"]
    BY <2>2, <2>3 DEF Reads
  <2>5. /\ call'[Tester].reply.val = kv.val /\ call'[Tester].reply.ver = kv.ver
        /\ call'[Tester].reply.err = IF kv.ver = 0 THEN "ErrNoKey" ELSE "OK"
    BY <2>4
  <2> QED
    BY <2>4, <2>5 DEF TesterReads
<1>6. Answers'
  <2>1. call'[p].reply.err # "none"
    <3>1. CASE Reads(p)
      <4>1. PICK e : e = IF kv.ver = 0 THEN "ErrNoKey" ELSE "OK"
        OBVIOUS
      <4>2. call'[p].reply = [val |-> kv.val, ver |-> kv.ver, err |-> e]
        BY <3>1, <4>1 DEF Reads
      <4>3. e # "none" /\ call'[p].reply.err = e
        BY <4>1, <4>2
      <4> QED
        BY <4>3
    <3>2. CASE Executes(p) \/ Forgets(p)
      <4>1. call'[p].reply = [val |-> None, ver |-> 0, err |-> "OK"]
        BY <3>2 DEF Executes, Forgets
      <4> QED
        BY <4>1
    <3>3. CASE Refuses(p)
      <4>1. PICK e : e = IF kv.ver = 0 THEN "ErrNoKey" ELSE "ErrVersion"
        OBVIOUS
      <4>2. call'[p].reply = [val |-> None, ver |-> 0, err |-> e]
        BY <3>3, <4>1 DEF Refuses
      <4>3. e # "none" /\ call'[p].reply.err = e
        BY <4>1, <4>2
      <4> QED
        BY <4>3
    <3> QED
      BY <1>2, <3>1, <3>2, <3>3
  <2> QED
    BY <1>1, <1>3, <2>1 DEF Answers
<1>7. Acked'
  <2>1. SUFFICES ASSUME forgot' # "once" PROVE Acked'
    BY DEF Acked
  <2>2. AckedPuts' = AckedPuts /\ \A o \in AckedPuts : o.ver \in Nat
    BY <1>3 DEF AckedPuts, TypeOK, Ops
  <2>3. kv.ver \in Nat /\ \A q \in Procs : call[q].ver \in Nat
    BY DEF TypeOK, States, CallRecs
  <2>4. \A q \in Procs \ {p} : (AckedCall(q)' <=> AckedCall(q)) /\ call'[q].ver = call[q].ver
    BY <1>3 DEF AckedCall
  <2>5. CASE Reads(p) \/ Refuses(p)
    <3>1. ~ AckedCall(p)' /\ UNCHANGED <<kv, forgot>>
      BY <1>3, <2>5 DEF Reads, Refuses, AckedCall
    <3> QED
      BY <1>1, <2>1, <2>2, <2>4, <3>1 DEF Acked
  <2>6. CASE Executes(p)
    <3>1. kv'.ver = kv.ver + 1 /\ call'[p].ver = kv.ver /\ UNCHANGED forgot
      BY <1>3, <2>6 DEF Executes
    <3>2. /\ \A o \in AckedPuts : o.ver < kv.ver
          /\ \A q \in Procs \ {p} : AckedCall(q)' => call'[q].ver < kv.ver
      BY <1>1, <2>1, <2>4, <3>1 DEF Acked
    <3>3. \A o \in AckedPuts : o.ver # kv.ver
      BY <2>2, <2>3, <3>2
    <3>4. \A q \in Procs \ {p} : AckedCall(q)' => call'[q].ver # kv.ver
      BY <2>3, <2>4, <3>2
    <3>5. /\ \A o \in AckedPuts' : o.ver < kv'.ver
          /\ \A q \in Procs : AckedCall(q)' => call'[q].ver < kv'.ver
      BY <2>2, <2>3, <2>4, <3>1, <3>2
    <3> QED
      BY <1>1, <2>1, <2>2, <2>4, <3>1, <3>3, <3>4, <3>5 DEF Acked
  <2> QED
    BY <1>2, <2>1, <2>5, <2>6 DEF Forgets
<1>8. Linearized'
  <2>1. SUFFICES ASSUME forgot' = "never" PROVE Ordered(oplog, call', kv')
    BY <1>3 DEF Linearized
  <2>2. forgot = "never" /\ ~ Forgets(p)
    BY <1>2, <2>1 DEF Reads, Executes, Forgets, Refuses
  <2> QED
    BY <1>1, <1>2, <2>2, ServeLinearized DEF Linearized
<1> QED
  BY <1>4, <1>5, <1>6, <1>7, <1>8 DEF Common

LEMMA ReplyFacts ==
    ASSUME NEW p \in Procs
    PROVE  /\ Reads(p) => /\ call'[p].reply.val = kv.val /\ call'[p].reply.ver = kv.ver
                          /\ call'[p].reply.err = IF kv.ver = 0 THEN "ErrNoKey" ELSE "OK"
           /\ Executes(p) \/ Forgets(p) => call'[p].reply.err = "OK"
           /\ Refuses(p) => call'[p].reply.err = IF kv.ver = 0 THEN "ErrNoKey" ELSE "ErrVersion"
<1>1. ASSUME Reads(p)
      PROVE  /\ call'[p].reply.val = kv.val /\ call'[p].reply.ver = kv.ver
             /\ call'[p].reply.err = IF kv.ver = 0 THEN "ErrNoKey" ELSE "OK"
  <2>1. PICK e : e = IF kv.ver = 0 THEN "ErrNoKey" ELSE "OK"
    OBVIOUS
  <2>2. call'[p].reply = [val |-> kv.val, ver |-> kv.ver, err |-> e]
    BY <1>1, <2>1 DEF Reads
  <2>3. call'[p].reply.val = kv.val /\ call'[p].reply.ver = kv.ver /\ call'[p].reply.err = e
    BY <2>2
  <2> QED
    BY <2>1, <2>3
<1>2. ASSUME Executes(p) \/ Forgets(p)
      PROVE  call'[p].reply.err = "OK"
  <2>1. call'[p].reply = [val |-> None, ver |-> 0, err |-> "OK"]
    BY <1>2 DEF Executes, Forgets
  <2> QED
    BY <2>1
<1>3. ASSUME Refuses(p)
      PROVE  call'[p].reply.err = IF kv.ver = 0 THEN "ErrNoKey" ELSE "ErrVersion"
  <2>1. PICK e : e = IF kv.ver = 0 THEN "ErrNoKey" ELSE "ErrVersion"
    OBVIOUS
  <2>2. call'[p].reply = [val |-> None, ver |-> 0, err |-> e]
    BY <1>3, <2>1 DEF Refuses
  <2>3. call'[p].reply.err = e
    BY <2>2
  <2> QED
    BY <2>1, <2>3
<1> QED
  BY <1>1, <1>2, <1>3

-----------------------------------------------------------------------------
(* Clients that append *)

AppendState == AppendList /\ AppendCalls /\ EntriesInOrder /\ AppendCount

\* q is where it was, or in no call.
SamePlace(q) == pc'[q] = pc[q] \/ (pc[q] \notin {"get", "put"} /\ pc'[q] \notin {"get", "put"})

\* A step of p that leaves the list alone disturbs only what is said of p.
LEMMA AppendOthers ==
    ASSUME AppendState, kv' = kv, forgot' = "never" => forgot = "never", NEW p \in Procs,
           \A q \in Procs \ {p} : call'[q] = call[q] /\ SamePlace(q),
           \A c \in Clients \ {p} : iter'[c] = iter[c] /\ res'[c] = res[c],
           ListRead(p)',
           p \in Clients => AppendCall(p)' /\ InOrder(p)' /\ (forgot' = "never" => Enough(p)')
    PROVE  AppendState'
<1>1. AppendList /\ AppendCalls /\ EntriesInOrder /\ AppendCount
  BY DEF AppendState
<1>2. ASSUME NEW q \in Procs \ {p} PROVE ListRead(q)'
  BY <1>1 DEF AppendList, ListRead, SamePlace
<1>3. ASSUME NEW c \in Clients \ {p}
      PROVE  AppendCall(c)' /\ InOrder(c)' /\ (forgot' = "never" => Enough(c)')
  <2>1. c \in Procs \ {p} /\ call'[c] = call[c] /\ SamePlace(c) /\ iter'[c] = iter[c] /\ res'[c] = res[c]
    BY ProcsFacts
  <2>2. AppendCall(c) /\ InOrder(c) /\ (forgot' = "never" => Enough(c))
    BY <1>1 DEF AppendCalls, EntriesInOrder, AppendCount
  <2>3. AppendCall(c)'
    BY <2>1, <2>2 DEF AppendCall, SamePlace
  <2>4. InOrder(c)'
    BY <2>1, <2>2 DEF InOrder, SamePlace, Mine
  <2>5. Enough(c) => Enough(c)'
    BY <2>1 DEF Enough, Mine, AckedCall
  <2> QED
    BY <2>2, <2>3, <2>4, <2>5
<1>4. AppendList'
  BY <1>1, <1>2 DEF AppendList
<1> QED
  BY <1>3, <1>4 DEF AppendState, AppendCalls, EntriesInOrder, AppendCount

LEMMA MineFinite ==
    ASSUME AppendList, NEW c \in Clients
    PROVE  IsFiniteSet(Mine(c)) /\ Cardinality(Mine(c)) \in Nat
<1>1. kv.val \in Seq(Entries)
  BY DEF AppendList
<1>2. IsFiniteSet(DOMAIN kv.val)
  BY <1>1, FS_Interval
<1>3. IsFiniteSet(Mine(c))
  BY <1>2, FS_Subset DEF Mine
<1> QED
  BY <1>3, FS_CardinalityType

\* A client that is in no Put, and begins or ends something else.
LEMMA AppendElsewhere ==
    ASSUME AppendState, TypeOK, NEW c \in Clients, UNCHANGED <<kv, forgot, iter, res>>,
           pc[c] # "put", pc'[c] # "put", call'[c].reply = NoReply,
           \A q \in Procs \ {c} : call'[q] = call[q] /\ pc'[q] = pc[q]
    PROVE  AppendState'
<1>1. AppendCall(c) /\ InOrder(c) /\ (forgot = "never" => Enough(c))
  BY DEF AppendState, AppendCalls, EntriesInOrder, AppendCount
<1>2. ListRead(c)' /\ AppendCall(c)'
  BY DEF ListRead, AppendCall
<1>3. InOrder(c)'
  BY <1>1 DEF InOrder, Mine
<1>4. Enough(c) => Enough(c)'
  <2>1. ~ AckedCall(c)' /\ res[c].nok \in Nat
    BY NoCallFacts DEF AckedCall, TypeOK, Results
  <2>2. SUFFICES ASSUME Enough(c) PROVE Cardinality(Mine(c)) >= res[c].nok
    BY <2>1 DEF Enough, Mine
  <2>3. Cardinality(Mine(c)) \in Nat
    BY MineFinite DEF AppendState
  <2> QED
    BY <2>1, <2>2, <2>3 DEF Enough
<1>5. c \in Procs /\ \A q \in Procs \ {c} : call'[q] = call[q] /\ SamePlace(q)
  BY ProcsFacts DEF SamePlace
<1> QED
  BY <1>1, <1>2, <1>3, <1>4, <1>5, AppendOthers

\* The entry that is put next extends the list that was read.
LEMMA AppendGotState ==
    ASSUME AppendState, Basic, AppendInv, NEW c \in Clients, AppendGot(c)
    PROVE  AppendState'
<1>1. /\ Ends(c) /\ UNCHANGED <<params, local, tester>> /\ pc[c] = "get"
      /\ call[c].reply.val \in Seq(Entries)
      /\ Moves(c, "put") /\ call'[c].val = Append(call[c].reply.val, Entry(c, iter[c]))
      /\ call'[c].ver = call[c].reply.ver
  BY AppendGotBasic
<1>2. /\ UNCHANGED <<kv, forgot, iter, res>> /\ call[c].reply # NoReply /\ call'[c].reply = NoReply
      /\ pc'[c] = "put" /\ \A q \in Procs \ {c} : call'[q] = call[q] /\ pc'[q] = pc[q]
  BY <1>1 DEF Ends, NewCall, Moves, local, Returns
<1>3. /\ AppendList /\ InOrder(c) /\ (forgot = "never" => Enough(c)) /\ c \in Procs
      /\ ListRead(c)
  BY ProcsFacts DEF AppendState, EntriesInOrder, AppendCount, AppendList
<1>4. ListRead(c)'
  BY <1>2 DEF ListRead
<1>5. AppendCall(c)'
  <2>1. PICK r, e : r = call[c].reply.val /\ e = Entry(c, iter[c])
    OBVIOUS
  <2>2. iter[c] \in Nat
    BY DEF Basic, TypeOK
  <2>3. e \in Entries
    BY <1>3, <2>1, <2>2 DEF Entry, Entries
  <2>4. /\ r \in Seq(Entries) /\ call[c].reply.ver = Len(r) + 1 /\ Len(r) <= Len(kv.val)
        /\ \A k \in 1..Len(r) : r[k] = kv.val[k]
    BY <1>1, <1>2, <1>3, <2>1 DEF ListRead, Prefix
  <2>5. Len(r) \in Nat /\ Len(kv.val) \in Nat /\ kv.ver = Len(kv.val) + 1
    BY <1>3, <2>4 DEF AppendList
  <2>6. /\ Append(r, e) \in Seq(Entries) /\ Len(Append(r, e)) = Len(r) + 1
        /\ Append(r, e)[Len(r) + 1] = e /\ \A k \in 1..Len(r) : Append(r, e)[k] = r[k]
    BY <2>3, <2>4, <2>5
  <2>7. call'[c].val = Append(r, e) /\ call'[c].ver = Len(r) + 1 /\ kv' = kv
    BY <1>1, <1>2, <2>1, <2>4
  <2>8. /\ call'[c].val \in Seq(Entries) /\ call'[c].ver = Len(call'[c].val)
        /\ call'[c].ver >= 1 /\ call'[c].ver <= kv'.ver
        /\ call'[c].val[call'[c].ver] = e
    BY <2>5, <2>4, <2>6, <2>7
  <2>9. \A k \in 1..(call'[c].ver - 1) : call'[c].val[k] = kv'.val[k]
    BY <2>4, <2>5, <2>6, <2>7
  <2>10. e = Entry(c, iter[c])' /\ call'[c].reply.err = "none"
    BY <1>2, <2>1, NoCallFacts DEF Entry
  <2> QED
    BY <2>8, <2>9, <2>10 DEF AppendCall
<1>6. InOrder(c)'
  BY <1>1, <1>2, <1>3 DEF InOrder, Mine
<1>7. Enough(c) => Enough(c)'
  <2>1. ~ AckedCall(c)' /\ ~ AckedCall(c)
    <3>1. call[c].op = "get"
      BY <1>1, <1>3, InCall DEF Basic
    <3> QED
      BY <1>2, <3>1, NoCallFacts DEF AckedCall
  <2> QED
    BY <1>2, <2>1 DEF Enough, Mine
<1>8. \A q \in Procs \ {c} : call'[q] = call[q] /\ SamePlace(q)
  BY <1>2 DEF SamePlace
<1>9. \A d \in Clients \ {c} : iter'[d] = iter[d] /\ res'[d] = res[d]
  BY <1>2
<1> QED
  BY <1>2, <1>3, <1>4, <1>5, <1>6, <1>7, <1>8, <1>9, AppendOthers

\* A Put is counted, or read again for, only as its answer allows.
LEMMA AppendPutState ==
    ASSUME AppendState, Basic, Answers, NEW c \in Clients, AppendPut(c)
    PROVE  AppendState'
<1>1. /\ Ends(c) /\ pc[c] = "put" /\ c \in Procs
      /\ \/ /\ Err(c) \in {"OK", "ErrMaybe"}
            /\ \A d \in Clients \ {c} : res'[d] = res[d] /\ iter'[d] = iter[d]
            /\ iter'[c] = iter[c] + 1
            /\ res'[c].nok = res[c].nok + IF Err(c) = "OK" THEN 1 ELSE 0
            /\ res'[c].nmaybe = res[c].nmaybe + IF Err(c) = "OK" THEN 0 ELSE 1
            /\ Moves(c, "head")
         \/ Err(c) \notin {"OK", "ErrMaybe"} /\ UNCHANGED <<iter, res>> /\ Moves(c, "get")
  BY AppendPutBasic, ProcsFacts
<1>2. /\ UNCHANGED <<kv, forgot>> /\ call[c].reply # NoReply /\ call'[c].reply = NoReply
      /\ pc'[c] # "put" /\ \A q \in Procs \ {c} : call'[q] = call[q] /\ pc'[q] = pc[q]
  BY <1>1 DEF Ends, NewCall, Moves, Returns
<1>3. AppendList /\ AppendCall(c) /\ InOrder(c) /\ (forgot = "never" => Enough(c)) /\ ListRead(c)
  BY <1>1 DEF AppendState, EntriesInOrder, AppendCount, AppendCalls, AppendList
<1>4. ListRead(c)' /\ AppendCall(c)'
  BY <1>2 DEF ListRead, AppendCall
<1>5. /\ res[c].nok \in Nat /\ res[c].nmaybe \in Nat /\ iter[c] \in Nat
      /\ \A k \in Mine(c) : kv.val[k].n \in Nat
  <2>1. kv.val \in Seq(Entries)
    BY <1>3 DEF AppendList
  <2>2. \A k \in Mine(c) : kv.val[k] \in Entries
    BY <2>1 DEF Mine
  <2> QED
    BY <2>2 DEF Basic, TypeOK, Results, Entries
<1>6. /\ \A d \in Clients \ {c} : iter'[d] = iter[d] /\ res'[d] = res[d]
      /\ \A q \in Procs \ {c} : call'[q] = call[q] /\ SamePlace(q)
  BY <1>1, <1>2 DEF SamePlace
<1>7. Mine(c)' = Mine(c) /\ kv' = kv
  BY <1>2 DEF Mine
<1>8. ~ AckedCall(c)'
  BY <1>2, NoCallFacts DEF AckedCall
<1>9. Cardinality(Mine(c)) \in Nat
  BY <1>3, MineFinite
<1>10. CASE Err(c) \in {"OK", "ErrMaybe"}
  <2>1. InOrder(c)'
    <3>1. iter'[c] = res'[c].nok + res'[c].nmaybe
      <4>1. iter[c] = res[c].nok + res[c].nmaybe
        BY <1>3 DEF InOrder
      <4> QED
        BY <1>1, <1>5, <1>10, <4>1
    <3>2. \A k \in Mine(c) : kv.val[k].n < iter'[c]
      <4>1. \A k \in Mine(c) : kv.val[k].n <= iter[c]
        BY <1>3 DEF InOrder
      <4>2. iter'[c] = iter[c] + 1
        BY <1>1, <1>10
      <4> QED
        BY <1>5, <4>1, <4>2
    <3>3. iter'[c] \in Nat
      BY <1>1, <1>5, <1>10
    <3>4. \A k \in Mine(c)' : kv'.val[k].n <= iter'[c] /\ kv'.val[k].n # iter'[c]
      BY <1>5, <1>7, <3>2, <3>3
    <3>5. \A j, k \in Mine(c)' : j < k => kv'.val[j].n < kv'.val[k].n
      BY <1>3, <1>7 DEF InOrder
    <3> QED
      BY <3>1, <3>4, <3>5 DEF InOrder
  <2>2. Enough(c) => Enough(c)'
    <3>1. AckedCall(c) <=> Err(c) = "OK"
      <4>1. call[c].op = "put"
        BY <1>1, InCall DEF Basic
      <4> QED
        BY <4>1 DEF AckedCall, Err
    <3>2. res'[c].nok = res[c].nok + IF AckedCall(c) THEN 1 ELSE 0
      BY <1>1, <1>10, <3>1
    <3>3. res'[c].nok \in Nat
      BY <1>5, <3>2
    <3> QED
      BY <1>7, <1>8, <1>9, <3>2, <3>3 DEF Enough
  <2> QED
    BY <1>1, <1>2, <1>3, <1>4, <1>6, <2>1, <2>2, AppendOthers
<1>11. CASE Err(c) \notin {"OK", "ErrMaybe"}
  <2>1. \A k \in Mine(c) : kv.val[k].n # iter[c]
    <3>1. call[c].op = "put" /\ call[c].reply.err \in {"OK", "ErrVersion"}
      <4>1. call[c].op = "put"
        BY <1>1, InCall DEF Basic
      <4>2. call[c].reply.err # "none"
        BY <1>1, <1>2 DEF Answers
      <4> QED
        BY <1>1, <1>3, <4>1, <4>2 DEF AppendCall
    <3>2. ~ (call[c].reply.err = "OK" \/ call[c].resent)
      BY <1>11, <3>1 DEF Err
    <3> QED
      BY <1>3, <3>2 DEF InOrder
  <2>2. UNCHANGED <<iter, res>>
    BY <1>1, <1>11
  <2>3. InOrder(c)'
    BY <1>3, <1>7, <2>1, <2>2 DEF InOrder
  <2>4. Enough(c) => Enough(c)'
    <3>1. res'[c].nok = res[c].nok
      BY <2>2
    <3> QED
      BY <1>5, <1>7, <1>8, <1>9, <3>1 DEF Enough
  <2> QED
    BY <1>1, <1>2, <1>3, <1>4, <1>6, <2>3, <2>4, AppendOthers
<1> QED
  BY <1>10, <1>11

LEMMA AppendLoseState ==
    ASSUME AppendState, Basic, fn = "append", NEW p \in Procs, Lose(p)
    PROVE  AppendState'
<1>1. /\ UNCHANGED <<forgot, kv, pc, iter, res>> /\ call[p].op = "put"
      /\ \A q \in Procs \ {p} : call'[q] = call[q]
      /\ call'[p].val = call[p].val /\ call'[p].ver = call[p].ver
      /\ call'[p].resent = TRUE /\ call'[p].reply = NoReply
  BY LoseFacts DEF Basic, service, local
<1>2. pc[p] = "put" /\ p \in Clients
  <2>1. pc[p] = "put"
    BY <1>1, InCall DEF Basic
  <2> QED
    BY <2>1, ProcsFacts DEF Basic, Phases
<1>3. AppendList /\ AppendCall(p) /\ InOrder(p) /\ (forgot = "never" => Enough(p))
  BY <1>2 DEF AppendState, EntriesInOrder, AppendCount, AppendCalls
<1>4. ListRead(p)'
  BY <1>1 DEF ListRead
<1>5. AppendCall(p)'
  BY <1>1, <1>3, NoCallFacts DEF AppendCall, Entry
<1>6. InOrder(p)'
  BY <1>1, <1>3 DEF InOrder, Mine
<1>7. Enough(p) => Enough(p)'
  <2>1. ~ AckedCall(p)' /\ res[p].nok \in Nat /\ Cardinality(Mine(p)) \in Nat
    BY <1>1, <1>2, <1>3, NoCallFacts, MineFinite DEF AckedCall, Basic, TypeOK, Results
  <2>2. Mine(p)' = Mine(p) /\ res' = res
    BY <1>1 DEF Mine
  <2> QED
    BY <2>1, <2>2 DEF Enough
<1>8. \A q \in Procs \ {p} : call'[q] = call[q] /\ SamePlace(q)
  BY <1>1 DEF SamePlace
<1> QED
  BY <1>1, <1>2, <1>3, <1>4, <1>5, <1>6, <1>7, <1>8, AppendOthers

LEMMA AppendReads ==
    ASSUME AppendState, Basic, fn = "append", NEW p \in Procs, SameCall(p),
           UNCHANGED <<pc, iter, res>>, Reads(p)
    PROVE  AppendState'
<1>1. /\ UNCHANGED <<forgot, kv>> /\ call[p].op = "get"
      /\ \A q \in Procs \ {p} : call'[q] = call[q]
      /\ call'[p].op = "get" /\ call[p].reply = NoReply
  BY DEF SameCall, Reads
<1>2. pc[p] = "get"
  BY <1>1, InCall DEF Basic
<1>3. AppendList /\ kv.val \in Seq(Entries) /\ kv.ver = Len(kv.val) + 1
  BY DEF AppendState, AppendList
<1>4. ListRead(p)'
  <2>1. Len(kv.val) \in Nat /\ kv.ver # 0
    BY <1>3
  <2>2. call'[p].reply.val = kv.val /\ call'[p].reply.ver = kv.ver /\ call'[p].reply.err = "OK"
    BY <2>1, ReplyFacts
  <2>3. Prefix(kv.val, kv.val)
    BY <2>1 DEF Prefix
  <2> QED
    BY <1>1, <1>3, <2>2, <2>3 DEF ListRead
<1>5. ASSUME p \in Clients
      PROVE  AppendCall(p)' /\ InOrder(p)' /\ (forgot' = "never" => Enough(p)')
  <2>1. InOrder(p) /\ (forgot = "never" => Enough(p))
    BY <1>5 DEF AppendState, EntriesInOrder, AppendCount
  <2>2. AppendCall(p)'
    BY <1>2 DEF AppendCall
  <2>3. InOrder(p)'
    BY <1>1, <1>2, <2>1 DEF InOrder, Mine
  <2>4. Enough(p) => Enough(p)'
    <3>1. ~ AckedCall(p)' /\ ~ AckedCall(p)
      BY <1>1 DEF AckedCall
    <3> QED
      BY <1>1, <3>1 DEF Enough, Mine
  <2> QED
    BY <1>1, <2>1, <2>2, <2>3, <2>4
<1>6. \A q \in Procs \ {p} : call'[q] = call[q] /\ SamePlace(q)
  BY <1>1 DEF SamePlace
<1> QED
  BY <1>1, <1>4, <1>5, <1>6, AppendOthers

\* A refused or forgotten Put adds no entry; a forgotten one ends the claim of AppendCount.
LEMMA AppendRefuses ==
    ASSUME AppendState, Basic, fn = "append", NEW p \in Procs, SameCall(p),
           UNCHANGED <<pc, iter, res>>, Refuses(p) \/ Forgets(p)
    PROVE  AppendState'
<1>1. /\ UNCHANGED kv /\ (forgot' = "never" => forgot = "never" /\ Refuses(p)) /\ call[p].op = "put"
      /\ \A q \in Procs \ {p} : call'[q] = call[q]
      /\ call'[p].val = call[p].val /\ call'[p].ver = call[p].ver
      /\ call'[p].resent = call[p].resent /\ call'[p].op = "put" /\ call[p].reply = NoReply
  BY DEF SameCall, Refuses, Forgets
<1>2. pc[p] = "put" /\ p \in Clients
  <2>1. pc[p] = "put"
    BY <1>1, InCall DEF Basic
  <2> QED
    BY <2>1, ProcsFacts DEF Basic, Phases
<1>3. AppendList /\ AppendCall(p) /\ InOrder(p) /\ (forgot = "never" => Enough(p))
  BY <1>2 DEF AppendState, EntriesInOrder, AppendCount, AppendCalls
<1>4. kv.ver # 0
  <2>1. kv.val \in Seq(Entries) /\ kv.ver = Len(kv.val) + 1
    BY <1>3 DEF AppendList
  <2> QED
    BY <2>1
<1>5. /\ call'[p].reply.err \in {"OK", "ErrVersion"}
      /\ Refuses(p) => call'[p].reply.err = "ErrVersion"
  BY <1>4, ReplyFacts
<1>6. ListRead(p)' /\ AppendCall(p)'
  BY <1>1, <1>2, <1>3, <1>5 DEF ListRead, AppendCall, Entry
<1>7. InOrder(p)'
  <2>1. \A k \in Mine(p) : kv.val[k].n = iter[p] => call[p].ver < kv.ver /\ call[p].resent
    BY <1>1, <1>3, NoCallFacts DEF InOrder
  <2> QED
    BY <1>1, <1>2, <1>3, <2>1 DEF InOrder, Mine
<1>8. forgot' = "never" => Enough(p)'
  <2>1. SUFFICES ASSUME forgot' = "never" PROVE Enough(p)'
    OBVIOUS
  <2>2. ~ AckedCall(p)' /\ ~ AckedCall(p) /\ Enough(p)
    BY <1>1, <1>3, <1>5, <2>1, NoCallFacts DEF AckedCall
  <2> QED
    BY <1>1, <2>2 DEF Enough, Mine
<1>9. \A q \in Procs \ {p} : call'[q] = call[q] /\ SamePlace(q)
  BY <1>1 DEF SamePlace
<1> QED
  BY <1>1, <1>2, <1>6, <1>7, <1>8, <1>9, AppendOthers

\* The only step that changes the list.
LEMMA AppendExecutes ==
    ASSUME AppendState, Basic, fn = "append", NEW p \in Procs, SameCall(p),
           UNCHANGED <<pc, iter, res>>, Executes(p)
    PROVE  AppendState'
<1>1. /\ UNCHANGED forgot /\ call[p].op = "put" /\ call[p].ver = kv.ver
      /\ kv'.val = call[p].val /\ kv'.ver = kv.ver + 1
      /\ \A q \in Procs \ {p} : call'[q] = call[q]
      /\ call'[p].val = call[p].val /\ call'[p].ver = call[p].ver
      /\ call'[p].resent = call[p].resent /\ call'[p].op = "put" /\ call[p].reply = NoReply
  BY DEF SameCall, Executes
<1>2. pc[p] = "put" /\ p \in Clients
  <2>1. pc[p] = "put"
    BY <1>1, InCall DEF Basic
  <2> QED
    BY <2>1, ProcsFacts DEF Basic, Phases
<1>3. AppendList /\ AppendCall(p) /\ InOrder(p)
  BY <1>2 DEF AppendState, EntriesInOrder, AppendCalls
<1>4. PICK s, t, v, i : s = kv.val /\ t = kv'.val /\ v = kv.ver /\ i = iter[p]
  OBVIOUS
<1>5. /\ s \in Seq(Entries) /\ v = Len(s) + 1 /\ Len(s) \in Nat /\ v \in Nat
      /\ t \in Seq(Entries) /\ Len(t) = v /\ t[v] = Entry(p, i)
      /\ \A k \in 1..Len(s) : t[k] = s[k]
  <2>1. s \in Seq(Entries) /\ v = Len(s) + 1
    BY <1>3, <1>4 DEF AppendList
  <2>2. Len(s) \in Nat /\ v \in Nat /\ v - 1 = Len(s)
    BY <2>1
  <2>3. /\ t \in Seq(Entries) /\ v = Len(t) /\ t[v] = Entry(p, i)
        /\ \A k \in 1..(v - 1) : t[k] = s[k]
    BY <1>1, <1>2, <1>3, <1>4 DEF AppendCall
  <2> QED
    BY <2>1, <2>2, <2>3
<1>6. /\ DOMAIN s = 1..Len(s) /\ DOMAIN t = 1..v /\ v \notin 1..Len(s) /\ v \in 1..v
      /\ \A k \in 1..v : k \in 1..Len(s) \/ k = v
      /\ \A k \in 1..Len(s) : k \in 1..v /\ k < v /\ ~ (v < k)
  BY <1>5
<1>7. Entry(p, i).id = p /\ Entry(p, i).n = i
  BY DEF Entry
<1>8. AppendList'
  <2>1. ASSUME NEW q \in Procs PROVE ListRead(q)'
    <3>1. CASE q = p
      BY <1>2, <3>1 DEF ListRead
    <3>2. CASE q # p
      <4>1. SUFFICES ASSUME pc[q] = "get", call[q].reply # NoReply PROVE ListRead(q)'
        BY <1>1, <3>2 DEF ListRead
      <4>2. PICK r : r = call[q].reply
        OBVIOUS
      <4>3. /\ r.val \in Seq(Entries) /\ r.ver = Len(r.val) + 1 /\ r.err = "OK"
            /\ Len(r.val) <= Len(s) /\ \A k \in 1..Len(r.val) : r.val[k] = s[k]
        BY <1>3, <1>4, <4>1, <4>2 DEF AppendList, ListRead, Prefix
      <4>4. Len(r.val) \in Nat
        BY <4>3
      <4>5. Len(r.val) <= Len(t) /\ \A k \in 1..Len(r.val) : r.val[k] = t[k]
        BY <1>5, <4>3, <4>4
      <4>6. call'[q].reply = r
        BY <1>1, <3>2, <4>2
      <4> QED
        BY <1>4, <4>3, <4>5, <4>6 DEF ListRead, Prefix
    <3> QED
      BY <3>1, <3>2
  <2> QED
    BY <1>1, <1>4, <1>5, <2>1 DEF AppendList
<1>9. AppendCalls'
  <2>1. ASSUME NEW c \in Clients PROVE AppendCall(c)'
    <3>1. SUFFICES ASSUME pc[c] = "put" PROVE AppendCall(c)'
      BY DEF AppendCall
    <3>2. PICK l : l = call[c]
      OBVIOUS
    <3>3. /\ l.val \in Seq(Entries) /\ l.ver = Len(l.val) /\ l.ver >= 1 /\ l.ver <= v
          /\ l.val[l.ver] = Entry(c, iter[c]) /\ \A k \in 1..(l.ver - 1) : l.val[k] = s[k]
          /\ l.reply.err \in {"none", "OK", "ErrVersion"}
      BY <1>4, <3>1, <3>2 DEF AppendState, AppendCalls, AppendCall
    <3>4. l.ver \in Nat
      BY <3>3
    <3>5. l.ver <= v + 1 /\ \A k \in 1..(l.ver - 1) : l.val[k] = t[k]
      BY <1>5, <3>3, <3>4
    <3>6. /\ call'[c].val = l.val /\ call'[c].ver = l.ver
          /\ call'[c].reply.err \in {"none", "OK", "ErrVersion"}
      <4>1. CASE c = p
        BY <1>1, <3>2, <4>1, ReplyFacts
      <4>2. CASE c # p
        BY <1>1, <3>2, <3>3, <4>2, ProcsFacts
      <4> QED
        BY <4>1, <4>2
    <3>7. kv'.ver = v + 1 /\ kv'.val = t /\ Entry(c, iter[c])' = Entry(c, iter[c])
      BY <1>1, <1>4 DEF Entry
    <3> QED
      BY <3>3, <3>5, <3>6, <3>7 DEF AppendCall
  <2> QED
    BY <2>1 DEF AppendCalls
<1>10. /\ Mine(p)' = Mine(p) \cup {v} /\ v \notin Mine(p)
       /\ \A c \in Clients \ {p} : Mine(c)' = Mine(c)
       /\ \A c \in Clients : \A k \in Mine(c) : t[k] = s[k] /\ k \in 1..Len(s) /\ k < v /\ ~ (v < k)
  <2>1. \A c \in Clients : Mine(c) = {k \in 1..Len(s) : s[k].id = c}
    BY <1>4, <1>6 DEF Mine
  <2>2. ASSUME NEW c \in Clients PROVE Mine(c)' = {k \in 1..v : t[k].id = c}
    <3>1. Mine(c)' = {k \in DOMAIN t : t[k].id = c}
      BY <1>4 DEF Mine
    <3> QED
      BY <1>6, <3>1
  <2>3. t[v].id = p
    BY <1>5, <1>7
  <2>4. Mine(p)' = Mine(p) \cup {v}
    BY <1>2, <1>5, <1>6, <2>1, <2>2, <2>3
  <2>5. ASSUME NEW c \in Clients, c # p PROVE Mine(c)' = Mine(c)
    <3>1. Mine(c)' = {k \in 1..v : t[k].id = c} /\ Mine(c) = {k \in 1..Len(s) : s[k].id = c}
      BY <2>1, <2>2
    <3>2. \A k : k \in 1..v /\ t[k].id = c <=> k \in 1..Len(s) /\ s[k].id = c
      BY <1>5, <1>6, <2>3, <2>5
    <3> QED
      BY <3>1, <3>2
  <2> QED
    BY <1>2, <1>5, <1>6, <2>1, <2>4, <2>5
<1>11. EntriesInOrder'
  <2>1. ASSUME NEW c \in Clients, c # p PROVE InOrder(c)'
    <3>1. InOrder(c) /\ call'[c] = call[c]
      BY <1>1, <2>1, ProcsFacts DEF AppendState, EntriesInOrder
    <3>2. \A k \in Mine(c) : kv'.val[k] = kv.val[k]
      BY <1>4, <1>10
    <3>3. call[c].ver < kv.ver => call[c].ver < kv'.ver
      <4>1. call[c].ver \in Nat /\ kv.ver \in Nat
        BY ProcsFacts DEF Basic, TypeOK, CallRecs, States
      <4> QED
        BY <1>1, <4>1
    <3> QED
      BY <1>10, <2>1, <3>1, <3>2, <3>3 DEF InOrder
  <2>2. InOrder(p)'
    <3>1. \A k \in Mine(p) : s[k].n # i
      <4>1. ~ (call[p].ver < kv.ver)
        BY <1>1, <1>4, <1>5
      <4> QED
        BY <1>3, <1>4, <4>1 DEF InOrder
    <3>2. \A k \in Mine(p) : s[k].n < i
      <4>1. i \in Nat /\ \A k \in Mine(p) : s[k].n \in Nat
        <5>1. \A k \in Mine(p) : s[k] \in Entries
          BY <1>2, <1>5, <1>10
        <5> QED
          BY <1>2, <1>4, <5>1 DEF Basic, TypeOK, Entries
      <4> QED
        BY <1>3, <1>4, <3>1, <4>1 DEF InOrder
    <3>3. i \in Nat /\ i <= i /\ ~ (v < v)
      <4>1. i \in Nat
        BY <1>2, <1>4 DEF Basic, TypeOK
      <4> QED
        BY <1>5, <4>1
    <3>4. /\ t[v].n = i
          /\ \A k \in Mine(p) : t[k].n < i /\ t[k].n = s[k].n /\ t[k].n <= i /\ t[k].n # i
      <4>1. \A k \in Mine(p) : s[k].n \in Nat
        <5>1. \A k \in Mine(p) : s[k] \in Entries
          BY <1>2, <1>5, <1>10
        <5> QED
          BY <5>1 DEF Entries
      <4> QED
        BY <1>2, <1>5, <1>7, <1>10, <3>2, <3>3, <4>1
    <3>5. \A j, k \in Mine(p)' : j < k => t[j].n < t[k].n
      <4>1. \A j, k \in Mine(p) : j < k => s[j].n < s[k].n
        BY <1>3, <1>4 DEF InOrder
      <4> QED
        BY <1>2, <1>10, <3>3, <3>4, <4>1
    <3>6. \A k \in Mine(p)' : t[k].n <= i
      BY <1>10, <3>3, <3>4
    <3>7. call'[p].ver < kv'.ver /\ call'[p].reply.err = "OK" /\ pc'[p] = "put"
      BY <1>1, <1>2, <1>4, <1>5, ReplyFacts
    <3>8. iter'[p] = i /\ kv'.val = t /\ iter'[p] = res'[p].nok + res'[p].nmaybe
      BY <1>3, <1>4 DEF InOrder
    <3> QED
      BY <3>5, <3>6, <3>7, <3>8 DEF InOrder
  <2> QED
    BY <2>1, <2>2 DEF EntriesInOrder
<1>12. AppendCount'
  <2>1. SUFFICES ASSUME forgot = "never", NEW c \in Clients PROVE Enough(c)'
    BY <1>1 DEF AppendCount
  <2>2. Enough(c) /\ IsFiniteSet(Mine(c)) /\ Cardinality(Mine(c)) \in Nat /\ res[c].nok \in Nat
    BY <1>3, <2>1, MineFinite DEF AppendState, AppendCount, Basic, TypeOK, Results
  <2>3. CASE c # p
    BY <1>1, <1>10, <2>2, <2>3, ProcsFacts DEF Enough, AckedCall
  <2>4. CASE c = p
    <3>1. ~ AckedCall(c)
      BY <1>1, <2>4, NoCallFacts DEF AckedCall
    <3>2. Cardinality(Mine(c)') = Cardinality(Mine(c)) + 1
      BY <1>10, <2>2, <2>4, FS_AddElement
    <3>3. Cardinality(Mine(c)) >= res[c].nok
      BY <2>2, <3>1 DEF Enough
    <3>4. AckedCall(c)'
      BY <1>1, <2>4, ReplyFacts DEF AckedCall
    <3> QED
      BY <2>2, <3>2, <3>3, <3>4 DEF Enough
  <2> QED
    BY <2>3, <2>4
<1> QED
  BY <1>8, <1>9, <1>11, <1>12 DEF AppendState

LEMMA AppendServeState ==
    ASSUME AppendState, Basic, fn = "append", NEW p \in Procs, Serve(p)
    PROVE  AppendState'
<1>1. /\ SameCall(p) /\ UNCHANGED <<params, pc, local, tester, oplog>>
      /\ Reads(p) \/ Executes(p) \/ Forgets(p) \/ Refuses(p)
  BY ServeCases DEF Basic
<1>2. UNCHANGED <<pc, iter, res>>
  BY <1>1 DEF local
<1> QED
  BY <1>1, <1>2, AppendReads, AppendRefuses, AppendExecutes

LEMMA LogNotEmpty ==
    ASSUME TypeOK, Times, AppendLog
    PROVE  Cardinality(oplog) \in Nat /\ Cardinality(oplog) >= 1
<1>1. FirstPut \in oplog /\ FirstPut.end = 1
  BY DEF AppendLog, FirstPut
<1>2. Cardinality(oplog) \in Nat /\ \A o \in oplog : o.end <= Cardinality(oplog)
  BY LogTimes
<1> QED
  BY <1>1, <1>2

LEMMA AppendLogSame ==
    ASSUME TypeOK, Times, AppendLog, oplog' = oplog,
           \A q \in Procs : pc'[q] \in {"get", "put"} =>
               \/ /\ pc'[q] = pc[q] /\ call'[q].start = call[q].start
                  /\ call'[q].val = call[q].val /\ call'[q].ver = call[q].ver
               \/ pc'[q] = "get" /\ call'[q].start = Cardinality(oplog')
    PROVE  AppendLog'
<1>1. \A q \in Procs : pc'[q] \in {"get", "put"} => call'[q].start >= 1
  BY LogNotEmpty DEF AppendLog
<1>2. \A q \in Procs : pc'[q] = "put" => Extends(oplog', call'[q].val, call'[q].ver, call'[q].start)
  BY DEF AppendLog
<1> QED
  BY <1>1, <1>2 DEF AppendLog

\* A Put in the log extends what an earlier Get has read.
LEMMA AppendLogEnds ==
    ASSUME TypeOK, Phases, Times, AppendLog, AppendList, NEW p \in Procs, Ends(p),
           \A q \in Procs \ {p} : pc'[q] = pc[q],
           pc'[p] \in {"get", "put"} => call'[p].start = Cardinality(oplog'),
           pc'[p] = "put" =>
               /\ pc[p] = "get" /\ call'[p].ver = call[p].reply.ver
               /\ \E e \in Entries : call'[p].val = Append(call[p].reply.val, e)
    PROVE  AppendLog'
<1>1. PICK rec, n : n = Cardinality(oplog) /\ rec = Record(call[p], Err(p), n + 1)
  OBVIOUS
<1>2. Returns(p) /\ call[p].op # "none" /\ \A q \in Procs \ {p} : call'[q] = call[q]
  BY DEF Ends, NewCall
<1>3. /\ oplog' = oplog \cup {rec} /\ rec \notin oplog /\ Cardinality(oplog') = n + 1
      /\ call[p].reply # NoReply
  BY <1>1, <1>2, ReturnsFacts
<1>4. n \in Nat /\ n >= 1
  BY <1>1, LogNotEmpty
<1>5. /\ rec.op = call[p].op /\ rec.val = call[p].val /\ rec.ver = call[p].ver
      /\ rec.out = call[p].reply.val /\ rec.start = call[p].start /\ rec.end = n + 1
  BY <1>1 DEF Record
<1>6. pc[p] \in {"get", "put"} /\ call[p].op = pc[p]
  BY <1>2, InCall
<1>7. pc[p] = "get" => call[p].reply.val \in Seq(Entries) /\ call[p].reply.ver = Len(call[p].reply.val) + 1
  BY <1>3 DEF AppendList, ListRead
<1>8. FirstPut \in oplog' /\ \A o \in oplog' \ {FirstPut} : o.start >= 1
  BY <1>3, <1>5, <1>6 DEF AppendLog
<1>9. ASSUME NEW o \in oplog' \ {FirstPut}, o.op = "put"
      PROVE  Extends(oplog', o.val, o.ver, o.start)
  <2>1. Extends(oplog, o.val, o.ver, o.start)
    <3>1. CASE o = rec
      BY <1>5, <1>6, <1>9, <3>1 DEF AppendLog
    <3>2. CASE o # rec
      BY <1>3, <1>9, <3>2 DEF AppendLog
    <3> QED
      BY <3>1, <3>2
  <2>2. PICK log2 : log2 = oplog'
    OBVIOUS
  <2>3. Extends(log2, o.val, o.ver, o.start)
    BY <1>3, <2>1, <2>2 DEF Extends
  <2> QED
    BY <2>2, <2>3
<1>10. \A o \in oplog' : o.op = "get" => o.out \in Seq(Entries)
  BY <1>3, <1>5, <1>6, <1>7 DEF AppendLog
<1>11. \A q \in Procs : pc'[q] \in {"get", "put"} => call'[q].start >= 1
  <2>1. n + 1 >= 1
    BY <1>4
  <2> QED
    BY <1>2, <1>3, <2>1 DEF AppendLog
<1>12. ASSUME NEW q \in Procs, pc'[q] = "put"
       PROVE  Extends(oplog', call'[q].val, call'[q].ver, call'[q].start)
  <2>1. CASE q # p
    <3>1. Extends(oplog, call[q].val, call[q].ver, call[q].start)
      BY <1>12, <2>1 DEF AppendLog
    <3> QED
      BY <1>2, <1>3, <2>1, <3>1 DEF Extends
  <2>2. CASE q = p
    <3> PICK s : s = call[p].reply.val
      OBVIOUS
    <3>1. PICK e \in Entries : s = call[p].reply.val /\ call'[p].val = Append(s, e)
      BY <1>12, <2>2
    <3>2. s \in Seq(Entries) /\ call'[p].ver = Len(s) + 1
      BY <1>7, <1>12, <2>2, <3>1
    <3>3. /\ Append(s, e) \in Seq(Entries) /\ Len(Append(s, e)) = Len(s) + 1 /\ Len(s) \in Nat
          /\ \A k \in 1..Len(s) : s[k] = Append(s, e)[k]
      BY <3>2
    <3>4. Prefix(s, Append(s, e))
      BY <3>3 DEF Prefix
    <3>5. call'[p].start = n + 1 /\ n + 1 <= n + 1
      BY <1>3, <1>4, <1>12, <2>2
    <3>6. rec \in oplog' /\ rec.op = "get" /\ rec.out = s /\ rec.end = n + 1
      BY <1>3, <1>5, <1>6, <1>12, <2>2, <3>1
    <3> QED
      BY <2>2, <3>1, <3>2, <3>3, <3>4, <3>5, <3>6 DEF Extends
  <2> QED
    BY <2>1, <2>2
<1> QED
  BY <1>8, <1>9, <1>10, <1>11, <1>12 DEF AppendLog

\* What a verdict says of the log.
LEMMA PorcupineOk ==
    ASSUME CheckPorcupine
    PROVE  /\ verdict' = "ok" => Linearizable(oplog')
           /\ verdict' = "illegal" => ~ Linearizable(oplog')
<1>1. PICK log : log = oplog'
  OBVIOUS
<1>2. verdict' = (IF Linearizable(log) THEN "ok" ELSE "illegal") \/ verdict' = "unknown"
  BY <1>1 DEF CheckPorcupine
<1>3. (verdict' = "ok" => Linearizable(log)) /\ (verdict' = "illegal" => ~ Linearizable(log))
  BY <1>2
<1> QED
  BY <1>1, <1>3

\* porcupine's order shows that no acknowledged append is missing from what the tester read.
LEMMA AppendPassedByCheck ==
    ASSUME Basic, TypeOK', Times', TesterReads, AppendState, AppendLog', fn = "append",
           pc[Tester] = "get", Ends(Tester), Err(Tester) = "OK", CheckPorcupine
    PROVE  AppendPassed'
<1>1. SUFFICES ASSUME verdict' = "ok" PROVE AppendPassed'
  BY DEF AppendPassed
<1>2. PICK log, n, f : log = oplog' /\ n = Cardinality(oplog) /\ f = Record(call[Tester], Err(Tester), n + 1)
  OBVIOUS
<1>3. /\ TypeOK /\ Phases /\ Times /\ Tester \in Procs /\ kv' = kv
      /\ call[Tester].op # "none" /\ Returns(Tester)
  BY ProcsFacts DEF Basic, Ends
<1>4. log = oplog \cup {f} /\ log \in SUBSET Ops /\ IsFiniteSet(log) /\ call[Tester].reply # NoReply
  BY <1>2, <1>3, ReturnsFacts
<1>5. f.op = "get" /\ f.out = kv.val /\ f.start = n
  <2>1. call[Tester].op = "get"
    BY <1>3, InCall
  <2>2. call[Tester].start = n
    BY <1>2, <1>3 DEF Times
  <2>3. call[Tester].reply.val = kv.val
    BY <1>4 DEF TesterReads
  <2> QED
    BY <1>2, <2>1, <2>2, <2>3 DEF Record
<1>6. ListLog(log, f)
  <2>1. \A o \in log \ {f} : o.end <= f.start
    BY <1>2, <1>3, <1>4, <1>5, LogTimes
  <2> QED
    BY <1>2, <1>4, <1>5, <2>1 DEF ListLog, AppendLog
<1>7. Linearizable(log)
  BY <1>1, <1>2, PorcupineOk
<1>8. PICK s : Agrees(log, s) /\ s.val = f.out
  BY <1>4, <1>6, <1>7, LinearizableShows
<1>9. kv'.val = s.val /\ kv'.ver = s.ver /\ s.val \in Seq(Entries) /\ s.ver = Len(s.val) + 1
  BY <1>3, <1>5, <1>8 DEF AppendState, AppendList, Agrees
<1>10. \A o \in AckedPuts' : o \in log /\ IsAcked(o)
  BY <1>2 DEF AckedPuts, IsAcked
<1>11. /\ \A o \in AckedPuts' : o.ver < kv'.ver
       /\ \A o, q \in AckedPuts' : o.ver = q.ver => o = q
  BY <1>8, <1>9, <1>10 DEF Agrees
<1>12. ASSUME NEW o \in AckedPuts', o.val # <<>>
       PROVE  \E k \in DOMAIN kv'.val : kv'.val[k] = o.val[Len(o.val)]
  <2>1. o \in log /\ IsAcked(o) /\ o # FirstPut
    BY <1>10, <1>12 DEF FirstPut
  <2>2. Extends(log, o.val, o.ver, o.start)
    BY <1>2, <2>1 DEF AppendLog, IsAcked
  <2>3. PICK g \in log : g.out \in Seq(Entries) /\ Len(o.val) = o.ver /\ o.ver = Len(g.out) + 1
    BY <2>2 DEF Extends
  <2>4. Len(g.out) \in Nat /\ Len(s.val) \in Nat
    BY <1>9, <2>3
  <2>5. o.ver >= 1 /\ o.ver \in Nat
    BY <2>3, <2>4
  <2>6. o.ver < s.ver /\ o.val[o.ver] = s.val[o.ver]
    BY <1>8, <2>1, <2>5 DEF Agrees
  <2>7. o.ver \in DOMAIN s.val
    BY <1>9, <2>4, <2>5, <2>6
  <2> QED
    BY <1>9, <2>3, <2>6, <2>7
<1> QED
  BY <1>11, <1>12 DEF AppendPassed

-----------------------------------------------------------------------------
(* Clients that append: each action *)

\* The parts of AppendInv that the clients' steps and the tester's check disturb.
LEMMA AppendInvParts ==
    AppendInv <=> (fn = "append" => AppendState /\ AppendLog /\ AppendPassed)
  BY DEF AppendInv, AppendState

LEMMA AppendTakeDone ==
    ASSUME Basic, AppendInv, NEW c \in Clients, TakeDone(c)
    PROVE  AppendInv'
<1>1. /\ TypeOK /\ Phases /\ Times /\ Still /\ Moves(c, "result") /\ UNCHANGED <<params, local, tester>>
      /\ pc[c] = "head" /\ pc[Tester] = "signal" /\ c \in Procs /\ c # Tester /\ Tester \in Procs
  BY TakeDoneBasic, ProcsFacts DEF Basic
<1>2. /\ UNCHANGED <<fn, forgot, kv, oplog, call, iter, res>> /\ call[c] = NoCall
      /\ pc'[c] = "result" /\ \A q \in Procs \ {c} : pc'[q] = pc[q]
  BY <1>1, InCall DEF Still, Moves, params, local
<1>3. SUFFICES ASSUME fn = "append" PROVE AppendState' /\ AppendLog' /\ AppendPassed'
  BY <1>2, AppendInvParts DEF AppendInv, AppendState
<1>4. AppendState /\ AppendLog
  BY <1>3, AppendInvParts
<1>5. AppendState'
  BY <1>1, <1>2, <1>4, AppendElsewhere, NoCallFacts
<1>6. AppendLog'
  BY <1>1, <1>2, <1>4, AppendLogSame
<1>7. AppendPassed'
  BY <1>1, <1>2 DEF AppendPassed
<1> QED
  BY <1>5, <1>6, <1>7

LEMMA AppendAppendIter ==
    ASSUME Basic, AppendInv, NEW c \in Clients, AppendIter(c)
    PROVE  AppendInv'
<1>1. /\ TypeOK /\ Phases /\ Times /\ Begins(c) /\ Moves(c, "get") /\ UNCHANGED <<params, local, tester>>
      /\ pc[c] = "head" /\ fn = "append" /\ call'[c].start = Cardinality(oplog')
      /\ c \in Procs /\ c # Tester /\ Tester \in Procs
  BY AppendIterBasic, ProcsFacts DEF Basic
<1>2. /\ UNCHANGED <<fn, forgot, kv, oplog, iter, res>> /\ call'[c].reply = NoReply /\ pc'[c] = "get"
      /\ \A q \in Procs \ {c} : pc'[q] = pc[q] /\ call'[q] = call[q]
  BY <1>1 DEF Begins, NewCall, Moves, params, local
<1>3. AppendState /\ AppendLog
  BY <1>1, AppendInvParts
<1>4. AppendState'
  BY <1>1, <1>2, <1>3, AppendElsewhere
<1>5. AppendLog'
  BY <1>1, <1>2, <1>3, AppendLogSame
<1>6. AppendPassed'
  <2>1. pc[Tester] # "passed"
    BY <1>1, ClientRuns
  <2> QED
    BY <1>1, <1>2, <2>1 DEF AppendPassed
<1> QED
  BY <1>4, <1>5, <1>6 DEF AppendInv, AppendState

LEMMA AppendAppendGot ==
    ASSUME Basic, AppendInv, NEW c \in Clients, AppendGot(c)
    PROVE  AppendInv'
<1>1. /\ TypeOK /\ Phases /\ Times /\ Ends(c) /\ Moves(c, "put") /\ UNCHANGED <<params, local, tester>>
      /\ pc[c] = "get" /\ fn = "append" /\ call'[c].start = Cardinality(oplog')
      /\ call'[c].val = Append(call[c].reply.val, Entry(c, iter[c]))
      /\ call'[c].ver = call[c].reply.ver
      /\ c \in Procs /\ c # Tester /\ Tester \in Procs
  BY AppendGotBasic, ProcsFacts DEF Basic
<1>2. pc'[c] = "put" /\ \A q \in Procs \ {c} : pc'[q] = pc[q]
  BY <1>1 DEF Moves
<1>3. AppendState /\ AppendLog /\ AppendList
  BY <1>1, AppendInvParts DEF AppendState
<1>4. AppendState'
  BY <1>3, AppendGotState
<1>5. AppendLog'
  <2>1. Entry(c, iter[c]) \in Entries
    <3>1. iter[c] \in Nat
      BY <1>1 DEF TypeOK
    <3> QED
      BY <1>1, <3>1 DEF Entry, Entries
  <2>2. \E e \in Entries : call'[c].val = Append(call[c].reply.val, e)
    BY <1>1, <2>1
  <2> QED
    BY <1>1, <1>2, <1>3, <2>2, AppendLogEnds
<1>6. AppendPassed'
  <2>1. pc[Tester] # "passed"
    BY <1>1, ClientRuns
  <2> QED
    BY <1>1, <1>2, <2>1 DEF AppendPassed
<1> QED
  BY <1>4, <1>5, <1>6 DEF AppendInv, AppendState

LEMMA AppendAppendPut ==
    ASSUME Basic, AppendInv, Answers, NEW c \in Clients, AppendPut(c)
    PROVE  AppendInv'
<1>1. /\ TypeOK /\ Phases /\ Times /\ Ends(c) /\ pc[c] = "put" /\ fn = "append"
      /\ \/ Moves(c, "head")
         \/ Moves(c, "get") /\ call'[c].start = Cardinality(oplog')
      /\ c \in Procs /\ c # Tester /\ Tester \in Procs
  BY AppendPutBasic, ProcsFacts DEF Basic
<1>2. /\ pc'[c] = "head" \/ (pc'[c] = "get" /\ call'[c].start = Cardinality(oplog'))
      /\ \A q \in Procs \ {c} : pc'[q] = pc[q]
  BY <1>1 DEF Moves
<1>3. AppendState /\ AppendLog /\ AppendList
  BY <1>1, AppendInvParts DEF AppendState
<1>4. AppendState'
  BY <1>3, AppendPutState
<1>5. AppendLog'
  BY <1>1, <1>2, <1>3, AppendLogEnds
<1>6. AppendPassed'
  <2>1. pc[Tester] # "passed"
    BY <1>1, ClientRuns
  <2> QED
    BY <1>1, <1>2, <2>1 DEF AppendPassed
<1> QED
  BY <1>4, <1>5, <1>6 DEF AppendInv, AppendState

LEMMA AppendSignal ==
    ASSUME Basic, AppendInv, Signal
    PROVE  AppendInv'
<1>1. /\ TypeOK /\ Phases /\ Times /\ Still /\ Moves(Tester, "signal") /\ UNCHANGED <<params, local, tester>>
      /\ pc[Tester] = "sleep" /\ Tester \in Procs /\ Tester \notin Clients
  BY SignalBasic, ProcsFacts DEF Basic
<1>2. /\ UNCHANGED <<fn, forgot, kv, oplog, call, iter, res>>
      /\ pc'[Tester] = "signal" /\ \A q \in Procs \ {Tester} : pc'[q] = pc[q]
  BY <1>1 DEF Still, Moves, params, local
<1>3. SUFFICES ASSUME fn = "append" PROVE AppendState' /\ AppendLog' /\ AppendPassed'
  BY <1>2 DEF AppendInv, AppendState
<1>4. AppendState /\ AppendLog
  BY <1>3, AppendInvParts
<1>5. AppendState'
  <2>1. ListRead(Tester)'
    BY <1>2 DEF ListRead
  <2>2. \A q \in Procs \ {Tester} : call'[q] = call[q] /\ SamePlace(q)
    BY <1>2 DEF SamePlace
  <2> QED
    BY <1>1, <1>2, <1>4, <2>1, <2>2, AppendOthers
<1>6. AppendLog'
  BY <1>1, <1>2, <1>4, AppendLogSame
<1>7. AppendPassed'
  BY <1>2 DEF AppendPassed
<1> QED
  BY <1>5, <1>6, <1>7

LEMMA AppendCollect ==
    ASSUME Basic, AppendInv, Collect
    PROVE  AppendInv'
<1>1. /\ TypeOK /\ Phases /\ Times /\ Begins(Tester) /\ UNCHANGED <<params, local, round, verdict>>
      /\ (\A c \in Clients : pc[c] = "result") /\ pc'[Tester] = "get"
      /\ (\A c \in Clients : pc'[c] = "end") /\ call'[Tester].start = Cardinality(oplog')
      /\ Tester \in Procs /\ Tester \notin Clients
  BY CollectBasic, ProcsFacts DEF Basic
<1>2. /\ UNCHANGED <<fn, forgot, kv, oplog, iter, res>> /\ call'[Tester].reply = NoReply
      /\ \A q \in Procs \ {Tester} : call'[q] = call[q] /\ pc[q] = "result" /\ pc'[q] = "end"
  BY <1>1, ProcsFacts DEF Begins, NewCall, params, local
<1>3. SUFFICES ASSUME fn = "append" PROVE AppendState' /\ AppendLog' /\ AppendPassed'
  BY <1>2 DEF AppendInv, AppendState
<1>4. AppendState /\ AppendLog
  BY <1>3, AppendInvParts
<1>5. AppendState'
  <2>1. ListRead(Tester)'
    BY <1>2 DEF ListRead
  <2>2. \A q \in Procs \ {Tester} : call'[q] = call[q] /\ SamePlace(q)
    BY <1>2 DEF SamePlace
  <2> QED
    BY <1>1, <1>2, <1>4, <2>1, <2>2, AppendOthers
<1>6. AppendLog'
  BY <1>1, <1>2, <1>4, AppendLogSame
<1>7. AppendPassed'
  BY <1>1 DEF AppendPassed
<1> QED
  BY <1>5, <1>6, <1>7

LEMMA AppendCheck ==
    ASSUME Basic, TesterReads, AppendInv, Times', Check
    PROVE  AppendInv'
<1>1. /\ TypeOK /\ Phases /\ Times /\ TypeOK' /\ Ends(Tester) /\ UNCHANGED <<params, local, total, round>>
      /\ pc[Tester] = "get" /\ Tester \in Procs /\ Tester \notin Clients
      /\ \/ Moves(Tester, "passed") /\ CheckPorcupine /\ Err(Tester) = "OK"
         \/ Moves(Tester, "fatal")
  BY CheckBasic, ProcsFacts DEF Basic
<1>2. /\ UNCHANGED <<fn, forgot, kv, iter, res>> /\ call'[Tester].reply = NoReply
      /\ pc'[Tester] \in {"passed", "fatal"}
      /\ \A q \in Procs \ {Tester} : call'[q] = call[q] /\ pc'[q] = pc[q]
  BY <1>1 DEF Ends, NewCall, Moves, params, local
<1>3. SUFFICES ASSUME fn = "append" PROVE AppendState' /\ AppendLog' /\ AppendPassed'
  BY <1>2 DEF AppendInv, AppendState
<1>4. AppendState /\ AppendLog /\ AppendList
  BY <1>3, AppendInvParts DEF AppendState
<1>5. AppendState'
  <2>1. ListRead(Tester)'
    BY <1>2 DEF ListRead
  <2>2. \A q \in Procs \ {Tester} : call'[q] = call[q] /\ SamePlace(q)
    BY <1>2 DEF SamePlace
  <2> QED
    BY <1>1, <1>2, <1>4, <2>1, <2>2, AppendOthers
<1>6. AppendLog'
  BY <1>1, <1>2, <1>4, AppendLogEnds
<1>7. AppendPassed'
  <2>1. CASE Moves(Tester, "fatal")
    BY <2>1 DEF AppendPassed, Moves
  <2>2. CASE CheckPorcupine /\ Err(Tester) = "OK"
    BY <1>1, <1>3, <1>4, <1>6, <2>2, AppendPassedByCheck
  <2> QED
    BY <1>1, <2>1, <2>2
<1> QED
  BY <1>5, <1>6, <1>7

LEMMA AppendServe ==
    ASSUME Basic, AppendInv, NEW p \in Procs, Serve(p) \/ Lose(p)
    PROVE  AppendInv'
<1>1. /\ TypeOK /\ Phases /\ Times /\ UNCHANGED <<params, pc, oplog, verdict>>
      /\ call[p].op # "none" /\ \A q \in Procs \ {p} : call'[q] = call[q]
      /\ call'[p].val = call[p].val /\ call'[p].ver = call[p].ver /\ call'[p].start = call[p].start
  <2>1. TypeOK /\ Phases /\ Times
    BY DEF Basic
  <2>2. CASE Serve(p)
    BY <2>1, <2>2, ServeCases DEF SameCall, tester
  <2>3. CASE Lose(p)
    BY <2>1, <2>3, LoseFacts DEF tester
  <2> QED
    BY <2>1, <2>2, <2>3
<1>2. SUFFICES ASSUME fn = "append" PROVE AppendState' /\ AppendLog' /\ AppendPassed'
  BY <1>1 DEF AppendInv, AppendState, params
<1>3. AppendState /\ AppendLog
  BY <1>2, AppendInvParts
<1>4. AppendState'
  BY <1>2, <1>3, AppendServeState, AppendLoseState
<1>5. AppendLog'
  BY <1>1, <1>3, AppendLogSame
<1>6. AppendPassed'
  <2>1. pc[p] \in {"get", "put"}
    BY <1>1, InCall
  <2>2. pc[Tester] # "passed"
    <3>1. CASE p = Tester
      BY <2>1, <3>1
    <3>2. CASE p \in Clients
      BY <1>1, <3>2, ClientRuns
    <3> QED
      BY <3>1, <3>2, ProcsFacts
  <2> QED
    BY <1>1, <2>2 DEF AppendPassed
<1> QED
  BY <1>4, <1>5, <1>6

\* A set of positions has a largest one.
LEMMA LargestExists ==
    ASSUME NEW n \in Nat, NEW M \in SUBSET (1..n), M # {}
    PROVE  \E k \in M : \A j \in M : j <= k
<1> DEFINE P == {m \in 0..n : (\A j \in M : m < j) \/ \E k \in M : \A j \in M : j <= m => j <= k}
<1>1. 0 \in P
  OBVIOUS
<1>2. ASSUME NEW m \in 1..n, m - 1 \in P
      PROVE  m \in P
  <2>1. \A j \in M : j \in Nat /\ (j <= m <=> j <= m - 1 \/ j = m) /\ (m - 1 < j <=> j = m \/ m < j)
    OBVIOUS
  <2>2. CASE m \in M
    <3>1. \A j \in M : j <= m => j <= m
      OBVIOUS
    <3> QED
      BY <2>2, <3>1
  <2>3. CASE m \notin M
    BY <1>2, <2>1, <2>3
  <2> QED
    BY <2>2, <2>3
<1> HIDE DEF P
<1>3. n \in P
  BY <1>1, <1>2, Iterated
<1>4. \A j \in M : j <= n /\ ~ (n < j)
  OBVIOUS
<1> QED
  BY <1>3, <1>4 DEF P

\* The entries of c in a list, and expect of CheckAppends after it has seen them.
Listed(es, c)   == {k \in DOMAIN es : es[k].id = c}
Expected(es, M) ==
    IF M = {} THEN 0 ELSE LET k == CHOOSE k \in M : \A j \in M : j <= k IN es[k].n + 1

\* CheckAppends accepts the list of a service that keeps its promises.
LEMMA AppendsAccepted ==
    ASSUME TypeOK, AppendState, forgot = "never", \A c \in Clients : pc[c] = "end",
           NEW es, NEW v, es = kv.val, v = kv.ver
    PROVE  CheckAppends(es, v)
<1>1. es \in Seq(Entries) /\ v = Len(es) + 1 /\ Len(es) \in Nat /\ AppendList
  <2>1. es \in Seq(Entries) /\ v = Len(es) + 1 /\ AppendList
    BY DEF AppendState, AppendList
  <2> QED
    BY <2>1
<1>2. ASSUME NEW c \in Clients
      PROVE  /\ \A j, k \in Listed(es, c) : j < k => es[j].n < es[k].n
             /\ Expected(es, Listed(es, c)) - Cardinality(Listed(es, c)) <= res[c].nmaybe
             /\ Expected(es, Listed(es, c)) <= res[c].nok + res[c].nmaybe
  <2> PICK M, e : M = Listed(es, c) /\ e = Expected(es, M)
    OBVIOUS
  <2>1. M = Mine(c)
    BY DEF Listed, Mine
  <2>2. InOrder(c) /\ Enough(c)
    BY DEF AppendState, EntriesInOrder, AppendCount
  <2>3. /\ \A j, k \in M : j < k => es[j].n < es[k].n
        /\ \A k \in M : es[k].n <= iter[c] /\ es[k].n # iter[c]
        /\ iter[c] = res[c].nok + res[c].nmaybe
    BY <2>1, <2>2 DEF InOrder
  <2>4. res[c].nok \in Nat /\ res[c].nmaybe \in Nat /\ Cardinality(M) \in Nat
    BY <1>1, <2>1, MineFinite DEF TypeOK, Results
  <2>5. Cardinality(M) >= res[c].nok
    BY <2>1, <2>2, <2>4 DEF Enough
  <2>6. e \in Nat /\ e <= iter[c]
    <3>1. CASE M = {}
      BY <2>3, <2>4, <3>1 DEF Expected
    <3>2. CASE M # {}
      <4>1. M \in SUBSET (1..Len(es))
        BY <1>1 DEF Listed
      <4>2. \E k \in M : \A j \in M : j <= k
        BY <1>1, <3>2, <4>1, LargestExists
      <4>3. PICK top : top = CHOOSE k \in M : \A j \in M : j <= k
        OBVIOUS
      <4>4. top \in M
        BY <4>2, <4>3
      <4>5. e = es[top].n + 1
        BY <3>2, <4>3 DEF Expected
      <4>6. es[top].n \in Nat
        <5>1. es[top] \in Entries
          BY <1>1, <4>1, <4>4
        <5> QED
          BY <5>1 DEF Entries
      <4> QED
        BY <2>3, <2>4, <4>4, <4>5, <4>6
    <3> QED
      BY <3>1, <3>2
  <2> QED
    BY <2>3, <2>4, <2>5, <2>6
<1> QED
  BY <1>1, <1>2, Zenon DEF CheckAppends, Listed, Expected

-----------------------------------------------------------------------------
(* Clients that put: what they know and read *)

PutState == PutCalls /\ PutReads

\* A step of p that leaves the key alone disturbs only what is said of p.
LEMMA PutOthers ==
    ASSUME PutState, UNCHANGED <<kv, reliable>>, forgot' # "once" => forgot # "once", NEW p \in Procs,
           \A c \in Clients \ {p} :
               /\ call'[c] = call[c] /\ SamePlace(c) /\ ver'[c] = ver[c] /\ err'[c] = err[c]
               /\ res'[c] = res[c] /\ iter'[c] = iter[c],
           p \in Clients => PutCall(p)' /\ (forgot' # "once" => PutRead(p)'),
           forgot' # "once" /\ pc'[Tester] \in {"signal", "get", "passed"} => kv.ver >= 1
    PROVE  PutState'
<1>1. ASSUME NEW c \in Clients \ {p}
      PROVE  PutCall(c)' /\ (forgot' # "once" => PutRead(c)')
  <2>1. /\ call'[c] = call[c] /\ SamePlace(c) /\ ver'[c] = ver[c] /\ err'[c] = err[c]
        /\ res'[c] = res[c] /\ iter'[c] = iter[c]
    OBVIOUS
  <2>2. PutCall(c) /\ (forgot' # "once" => PutRead(c))
    BY DEF PutState, PutCalls, PutReads
  <2>3. PutCall(c)'
    BY <2>1, <2>2 DEF PutCall, SamePlace, Entry
  <2>4. PutRead(c) => PutRead(c)'
    BY <2>1 DEF PutRead, SamePlace, AckedCall, OwnValue, Entry
  <2> QED
    BY <2>2, <2>3, <2>4
<1>2. \A c \in Clients : PutCall(c)' /\ (forgot' # "once" => PutRead(c)')
  BY <1>1
<1> QED
  BY <1>2 DEF PutState, PutCalls, PutReads

\* The types that the arithmetic needs.
LEMMA PutTypes ==
    ASSUME TypeOK, NEW c \in Clients
    PROVE  /\ c \in Procs /\ ver[c] \in Nat /\ kv.ver \in Nat /\ kv.val \in Vals /\ iter[c] \in Nat
           /\ call[c].ver \in Nat /\ call[c].reply.ver \in Nat
           /\ res[c].nok \in Nat /\ res[c].nmaybe \in Nat
<1>1. c \in Procs
  BY ProcsFacts
<1>2. call[c] \in CallRecs /\ call[c].reply \in Replies /\ call[c].ver \in Nat
  BY <1>1 DEF TypeOK, CallRecs
<1>3. ver[c] \in Nat /\ iter[c] \in Nat /\ kv \in States /\ res[c] \in Results
  BY <1>1 DEF TypeOK
<1> QED
  BY <1>1, <1>2, <1>3 DEF Replies, States, Results

LEMMA PutIterState ==
    ASSUME PutState, Basic, NEW c \in Clients, PutIter(c)
    PROVE  PutState'
<1>1. /\ Begins(c) /\ Moves(c, "put") /\ call'[c].val = <<Entry(c, ver[c])>> /\ call'[c].ver = ver[c]
      /\ UNCHANGED <<params, local, tester>> /\ pc[c] = "head" /\ c \in Procs /\ c # Tester
      /\ Tester \in Procs
  BY PutIterBasic, ProcsFacts
<1>2. /\ UNCHANGED <<kv, reliable, forgot, ver, err, res, iter>> /\ call'[c].reply = NoReply
      /\ pc'[c] = "put" /\ (\A q \in Procs \ {c} : call'[q] = call[q] /\ pc'[q] = pc[q])
  BY <1>1 DEF Begins, NewCall, Moves, params, local
<1>3. PutCall(c)'
  BY <1>1, <1>2, NoCallFacts DEF PutState, PutCalls, PutCall, Entry
<1>4. forgot # "once" => PutRead(c)'
  BY <1>1, <1>2, NoCallFacts DEF PutState, PutReads, PutRead, AckedCall
<1>5. pc'[Tester] = pc[Tester]
  BY <1>1, <1>2
<1>6. forgot # "once" /\ pc[Tester] \in {"signal", "get", "passed"} => kv.ver >= 1
  BY DEF PutState, PutReads
<1>7. \A d \in Clients \ {c} : call'[d] = call[d] /\ SamePlace(d)
  BY <1>2, ProcsFacts DEF SamePlace
<1> QED
  BY <1>1, <1>2, <1>3, <1>4, <1>5, <1>6, <1>7, PutOthers

\* The Put of a client is answered, as the version that it sends is never ahead.
LEMMA PutAnswered ==
    ASSUME PutState, Basic, Answers, NEW c \in Clients, pc[c] = "put", call[c].reply # NoReply
    PROVE  /\ call[c].op = "put" /\ call[c].reply.err \in {"OK", "ErrVersion"}
           /\ Err(c) \in {"OK", "ErrVersion", "ErrMaybe"} /\ (Err(c) = "OK" <=> AckedCall(c))
           /\ Err(c) = "ErrMaybe" <=> call[c].reply.err = "ErrVersion" /\ call[c].resent
           /\ reliable => Err(c) # "ErrMaybe"
<1>1. c \in Procs /\ call[c].op = "put"
  BY ProcsFacts, InCall DEF Basic
<1>2. call[c].reply.err \in {"OK", "ErrVersion"}
  BY <1>1 DEF PutState, PutCalls, PutCall, Answers
<1>3. reliable => ~ call[c].resent
  BY <1>1 DEF Basic, Phases
<1> QED
  BY <1>1, <1>2, <1>3 DEF Err, AckedCall

\* OnePut goes on to its Get: the answer is one that it expects.
LEMMA PutPutState ==
    ASSUME PutState, Basic, Answers, NEW c \in Clients, PutPut(c)
    PROVE  /\ PutState' /\ Moves(c, "get") /\ err'[c] = Err(c)
           /\ \A d \in Clients \ {c} : err'[d] = err[d]
<1>1. /\ Ends(c) /\ UNCHANGED <<params, iter, ver, res, tester>> /\ pc[c] = "put" /\ c \in Procs /\ c # Tester
      /\ Tester \in Procs
      /\ \/ Err(c) \notin {"OK", "ErrVersion", "ErrMaybe"}
         \/ /\ Err(c) \in {"OK", "ErrVersion", "ErrMaybe"}
            /\ err'[c] = Err(c) /\ \A d \in Clients \ {c} : err'[d] = err[d]
            /\ Moves(c, "get")
  BY PutPutBasic, ProcsFacts
<1>2. /\ UNCHANGED <<kv, reliable, forgot>> /\ call[c].reply # NoReply /\ call'[c].reply = NoReply
      /\ \A q \in Procs \ {c} : call'[q] = call[q]
  BY <1>1 DEF Ends, NewCall, Returns, params
<1>3. /\ Err(c) \in {"OK", "ErrVersion", "ErrMaybe"} /\ (Err(c) = "OK" => AckedCall(c))
      /\ (reliable => Err(c) # "ErrMaybe") /\ call[c].reply.err # "none"
  BY <1>1, <1>2, PutAnswered
<1>4. /\ err'[c] = Err(c) /\ (\A d \in Clients \ {c} : err'[d] = err[d]) /\ Moves(c, "get")
      /\ pc'[c] = "get" /\ \A q \in Procs \ {c} : pc'[q] = pc[q]
  BY <1>1, <1>3 DEF Moves
<1>5. PutCall(c) /\ (forgot # "once" => PutRead(c)) /\ kv.ver \in Nat
  BY PutTypes DEF PutState, PutCalls, PutReads, Basic
<1>6. PutCall(c)'
  BY <1>1, <1>2, <1>3, <1>4, <1>5, NoCallFacts DEF PutCall
<1>7. forgot # "once" => PutRead(c)'
  <2>1. SUFFICES ASSUME PutRead(c) PROVE PutRead(c)'
    BY <1>5
  <2>2. kv.ver >= 1
    BY <1>1, <1>3, <2>1 DEF PutRead
  <2>3. err'[c] = "OK" => kv.ver >= ver[c] + 1 /\ OwnValue(c, kv.val, kv.ver)
    BY <1>3, <1>4, <2>1 DEF PutRead
  <2>4. ~ AckedCall(c)' /\ (OwnValue(c, kv.val, kv.ver) <=> OwnValue(c, kv.val, kv.ver)')
    BY <1>1, <1>2, NoCallFacts DEF AckedCall, OwnValue, Entry
  <2> QED
    BY <1>1, <1>2, <1>4, <2>2, <2>3, <2>4 DEF PutRead
<1>8. pc'[Tester] = pc[Tester]
  BY <1>1, <1>4
<1>9. forgot # "once" /\ pc[Tester] \in {"signal", "get", "passed"} => kv.ver >= 1
  BY DEF PutState, PutReads
<1>10. \A d \in Clients \ {c} : call'[d] = call[d] /\ SamePlace(d)
  BY <1>2, <1>4, ProcsFacts DEF SamePlace
<1>11. PutState'
  BY <1>1, <1>2, <1>4, <1>6, <1>7, <1>8, <1>9, <1>10, PutOthers
<1> QED
  BY <1>4, <1>11

\* What a client reads after its Put does not make it call Fatalf if no Put was lost.
LEMMA PutGotRight ==
    ASSUME PutState, Basic, NEW c \in Clients, pc[c] = "get", call[c].reply # NoReply, forgot # "once"
    PROVE  Err(c) = "OK" /\ ~ WrongValue(c, call[c].reply.val[1], call[c].reply.ver)
<1>1. c \in Procs /\ call[c].op = "get"
  BY ProcsFacts, InCall DEF Basic
<1>2. PutRead(c)
  BY DEF PutState, PutReads
<1>3. Err(c) = "OK"
  BY <1>1, <1>2 DEF PutRead, Err
<1>4. ASSUME err[c] = "OK", call[c].reply.ver = ver[c] + 1
      PROVE  call[c].reply.val[1].id = c
  <2>1. call[c].reply.val = <<Entry(c, ver[c])>>
    BY <1>2, <1>4 DEF PutRead, OwnValue
  <2>2. call[c].reply.val[1] = Entry(c, ver[c])
    BY <2>1
  <2> QED
    BY <2>2 DEF Entry
<1> QED
  BY <1>3, <1>4 DEF WrongValue

\* OnePut counts, or puts again with the version that it has read.
LEMMA PutGotState ==
    ASSUME PutState, Basic, NEW c \in Clients, PutGot(c)
    PROVE  PutState' /\ (forgot # "once" => pc'[c] # "fatal")
<1>1. /\ Ends(c) /\ UNCHANGED <<params, err, tester>> /\ pc[c] = "get" /\ c \in Procs /\ c # Tester
      /\ Tester \in Procs
      /\ \/ /\ Err(c) # "OK" \/ WrongValue(c, call[c].reply.val[1], call[c].reply.ver)
            /\ Moves(c, "fatal") /\ call'[c] = NoCall /\ UNCHANGED <<iter, ver, res>>
         \/ /\ Err(c) = "OK"
            /\ ver'[c] = call[c].reply.ver /\ \A q \in Procs \ {c} : ver'[q] = ver[q]
            /\ \/ /\ err[c] \in {"OK", "ErrMaybe"}
                  /\ \A d \in Clients \ {c} : res'[d] = res[d] /\ iter'[d] = iter[d]
                  /\ iter'[c] = iter[c] + 1
                  /\ res'[c].nmaybe = res[c].nmaybe + IF err[c] = "OK" THEN 0 ELSE 1
                  /\ Moves(c, "head")
               \/ /\ UNCHANGED <<iter, res>> /\ Moves(c, "put")
                  /\ call'[c].val = <<Entry(c, call[c].reply.ver)>>
                  /\ call'[c].ver = call[c].reply.ver
  BY PutGotBasic, ProcsFacts
<1>2. /\ UNCHANGED <<kv, reliable, forgot>> /\ call[c].reply # NoReply /\ call'[c].reply = NoReply
      /\ \A q \in Procs \ {c} : call'[q] = call[q]
  BY <1>1 DEF Ends, NewCall, Returns, params
<1>3. \A q \in Procs \ {c} : pc'[q] = pc[q]
  BY <1>1 DEF Moves
<1>4. PutCall(c) /\ (forgot # "once" => PutRead(c))
  BY DEF PutState, PutCalls, PutReads
<1>5. ~ AckedCall(c)'
  BY <1>2, NoCallFacts DEF AckedCall
<1>6. pc'[Tester] = pc[Tester]
  BY <1>1, <1>3
<1>7. forgot # "once" /\ pc[Tester] \in {"signal", "get", "passed"} => kv.ver >= 1
  BY DEF PutState, PutReads
<1>8. /\ \A d \in Clients \ {c} : call'[d] = call[d] /\ SamePlace(d) /\ err'[d] = err[d]
      /\ \A d \in Clients \ {c} : ver'[d] = ver[d] /\ res'[d] = res[d] /\ iter'[d] = iter[d]
  BY <1>1, <1>2, <1>3, ProcsFacts DEF SamePlace
<1>9. CASE Moves(c, "fatal") /\ UNCHANGED <<iter, ver, res>> /\
           (Err(c) # "OK" \/ WrongValue(c, call[c].reply.val[1], call[c].reply.ver))
  <2>1. forgot = "once"
    BY <1>1, <1>2, <1>9, PutGotRight
  <2>2. PutCall(c)'
    BY <1>2, <1>4, <1>9 DEF PutCall, Moves
  <2> QED
    BY <1>1, <1>2, <1>8, <2>1, <2>2, PutOthers
<1>10. ASSUME forgot # "once" PROVE kv.ver >= 1
  BY <1>1, <1>4, <1>10 DEF PutRead
<1>11. CASE /\ ver'[c] = call[c].reply.ver /\ iter'[c] = iter[c] + 1 /\ Moves(c, "head")
            /\ res'[c].nmaybe = res[c].nmaybe + IF err[c] = "OK" THEN 0 ELSE 1
            /\ err[c] \in {"OK", "ErrMaybe"}
  <2>1. pc'[c] = "head"
    BY <1>11 DEF Moves
  <2>2. reliable => res'[c].nmaybe = 0
    BY <1>1, <1>4, <1>11 DEF PutCall
  <2>3. PutCall(c)'
    BY <1>1, <1>2, <1>4, <1>11, <2>1, <2>2 DEF PutCall
  <2>4. forgot # "once" => PutRead(c)'
    BY <1>2, <1>5, <1>10, <2>1 DEF PutRead
  <2> QED
    BY <1>1, <1>2, <1>6, <1>7, <1>8, <2>1, <2>3, <2>4, PutOthers
<1>12. CASE /\ ver'[c] = call[c].reply.ver /\ UNCHANGED <<iter, res>> /\ Moves(c, "put")
            /\ call'[c].val = <<Entry(c, call[c].reply.ver)>> /\ call'[c].ver = call[c].reply.ver
  <2>1. pc'[c] = "put"
    BY <1>12 DEF Moves
  <2>2. PutCall(c)'
    BY <1>1, <1>2, <1>4, <1>12, <2>1, NoCallFacts DEF PutCall, Entry
  <2>3. forgot # "once" => PutRead(c)'
    BY <1>2, <1>5, <1>10, <2>1, NoCallFacts DEF PutRead
  <2> QED
    BY <1>1, <1>2, <1>6, <1>7, <1>8, <1>12, <2>1, <2>2, <2>3, PutOthers
<1> QED
  BY <1>1, <1>9, <1>11, <1>12

\* A step that leaves the clients' calls alone, and moves them only between places without one.
LEMMA PutIdle ==
    ASSUME PutState, UNCHANGED <<kv, reliable, forgot, ver, err, res, iter>>,
           \A c \in Clients : call'[c] = call[c] /\ SamePlace(c),
           forgot # "once" /\ pc'[Tester] \in {"signal", "get", "passed"} => kv.ver >= 1
    PROVE  PutState'
<1>1. Tester \in Procs /\ Tester \notin Clients
  BY ProcsFacts
<1>2. \A c \in Clients \ {Tester} :
          /\ call'[c] = call[c] /\ SamePlace(c) /\ ver'[c] = ver[c] /\ err'[c] = err[c]
          /\ res'[c] = res[c] /\ iter'[c] = iter[c]
  OBVIOUS
<1> QED
  BY <1>1, <1>2, PutOthers

LEMMA PutLoseState ==
    ASSUME PutState, Basic, fn = "put", NEW p \in Procs, Lose(p)
    PROVE  PutState'
<1>1. /\ UNCHANGED <<kv, reliable, forgot, pc, ver, err, res, iter>> /\ call[p].op = "put"
      /\ \A q \in Procs \ {p} : call'[q] = call[q]
      /\ call'[p].val = call[p].val /\ call'[p].ver = call[p].ver /\ call'[p].reply = NoReply
  BY LoseFacts DEF Basic, service, local, params
<1>2. pc[p] = "put" /\ p \in Clients
  <2>1. pc[p] = "put"
    BY <1>1, InCall DEF Basic
  <2> QED
    BY <2>1, ProcsFacts DEF Basic, Phases
<1>3. PutCall(p)'
  BY <1>1, <1>2, NoCallFacts DEF PutState, PutCalls, PutCall, Entry
<1>4. forgot # "once" => PutRead(p)'
  BY <1>1, <1>2, NoCallFacts DEF PutState, PutReads, PutRead, AckedCall
<1>5. forgot # "once" /\ pc[Tester] \in {"signal", "get", "passed"} => kv.ver >= 1
  BY DEF PutState, PutReads
<1>6. \A c \in Clients \ {p} : call'[c] = call[c] /\ SamePlace(c)
  BY <1>1, ProcsFacts DEF SamePlace
<1> QED
  BY <1>1, <1>2, <1>3, <1>4, <1>5, <1>6, PutOthers

LEMMA PutReadsState ==
    ASSUME PutState, Basic, NEW p \in Procs, SameCall(p),
           UNCHANGED <<reliable, pc, ver, err, res, iter>>, Reads(p)
    PROVE  PutState'
<1>1. /\ UNCHANGED <<kv, forgot>> /\ call[p].op = "get"
      /\ \A q \in Procs \ {p} : call'[q] = call[q]
      /\ call'[p].op = "get"
  BY DEF SameCall, Reads
<1>2. pc[p] = "get"
  BY <1>1, InCall DEF Basic
<1>3. /\ call'[p].reply.val = kv.val /\ call'[p].reply.ver = kv.ver
      /\ call'[p].reply.err = IF kv.ver = 0 THEN "ErrNoKey" ELSE "OK"
  BY ReplyFacts
<1>4. ASSUME p \in Clients PROVE PutCall(p)' /\ (forgot' # "once" => PutRead(p)')
  <2>1. PutCall(p) /\ (forgot # "once" => PutRead(p)) /\ kv.ver \in Nat
    BY <1>4, PutTypes DEF PutState, PutCalls, PutReads, Basic
  <2>2. PutCall(p)'
    BY <1>1, <1>2, <1>3, <2>1 DEF PutCall
  <2>3. ASSUME PutRead(p) PROVE PutRead(p)'
    <3>1. kv.ver >= 1 /\ (err[p] = "OK" => kv.ver >= ver[p] + 1 /\ OwnValue(p, kv.val, kv.ver))
      BY <1>2, <2>3 DEF PutRead
    <3>2. call'[p].reply.err = "OK"
      BY <1>3, <2>1, <3>1
    <3>3. ~ AckedCall(p)'
      BY <1>1 DEF AckedCall
    <3>4. err'[p] = "OK" => OwnValue(p, kv.val, kv.ver)' /\ OwnValue(p, call[p].reply.val, call[p].reply.ver)'
      BY <1>1, <1>3, <3>1 DEF OwnValue, Entry
    <3> QED
      BY <1>1, <1>2, <3>1, <3>2, <3>3, <3>4 DEF PutRead
  <2> QED
    BY <1>1, <2>1, <2>2, <2>3
<1>5. forgot # "once" /\ pc[Tester] \in {"signal", "get", "passed"} => kv.ver >= 1
  BY DEF PutState, PutReads
<1>6. \A c \in Clients \ {p} : call'[c] = call[c] /\ SamePlace(c)
  BY <1>1, ProcsFacts DEF SamePlace
<1> QED
  BY <1>1, <1>4, <1>5, <1>6, PutOthers

LEMMA PutRefusesState ==
    ASSUME PutState, Basic, fn = "put", NEW p \in Procs, SameCall(p),
           UNCHANGED <<reliable, pc, ver, err, res, iter>>, Refuses(p) \/ Forgets(p)
    PROVE  PutState'
<1>1. /\ UNCHANGED kv /\ (forgot' # "once" => forgot # "once" /\ Refuses(p)) /\ call[p].op = "put"
      /\ \A q \in Procs \ {p} : call'[q] = call[q]
      /\ call'[p].val = call[p].val /\ call'[p].ver = call[p].ver /\ call'[p].op = "put"
  BY DEF SameCall, Refuses, Forgets
<1>2. pc[p] = "put" /\ p \in Clients
  <2>1. pc[p] = "put"
    BY <1>1, InCall DEF Basic
  <2> QED
    BY <2>1, ProcsFacts DEF Basic, Phases
<1>3. PutCall(p) /\ (forgot # "once" => PutRead(p)) /\ kv.ver \in Nat /\ ver[p] \in Nat
  BY <1>2, PutTypes DEF PutState, PutCalls, PutReads, Basic
<1>4. Refuses(p) => kv.ver # 0 /\ kv.ver >= 1
  BY <1>2, <1>3 DEF Refuses, PutCall
<1>5. /\ Refuses(p) => call'[p].reply.err = "ErrVersion"
      /\ Forgets(p) => call'[p].reply.err = "OK"
  BY <1>4, ReplyFacts
<1>6. PutCall(p)'
  BY <1>1, <1>2, <1>3, <1>5 DEF PutCall, Entry
<1>7. ASSUME forgot' # "once" PROVE PutRead(p)'
  <2>1. ~ AckedCall(p)' /\ kv.ver >= 1
    BY <1>1, <1>4, <1>5, <1>7 DEF AckedCall
  <2> QED
    BY <1>1, <1>2, <2>1 DEF PutRead
<1>8. forgot' # "once" /\ pc[Tester] \in {"signal", "get", "passed"} => kv.ver >= 1
  BY <1>1 DEF PutState, PutReads
<1>9. \A c \in Clients \ {p} : call'[c] = call[c] /\ SamePlace(c)
  BY <1>1, ProcsFacts DEF SamePlace
<1> QED
  BY <1>1, <1>2, <1>6, <1>7, <1>8, <1>9, PutOthers

LEMMA PutExecutesState ==
    ASSUME PutState, Basic, fn = "put", NEW p \in Procs, SameCall(p),
           UNCHANGED <<reliable, pc, ver, err, res, iter>>, Executes(p)
    PROVE  PutState'
<1>1. /\ UNCHANGED forgot /\ call[p].op = "put" /\ call[p].ver = kv.ver
      /\ kv'.val = call[p].val /\ kv'.ver = kv.ver + 1
      /\ \A q \in Procs \ {p} : call'[q] = call[q]
      /\ call'[p].val = call[p].val /\ call'[p].ver = call[p].ver /\ call'[p].op = "put"
  BY DEF SameCall, Executes
<1>2. pc[p] = "put" /\ p \in Clients
  <2>1. pc[p] = "put"
    BY <1>1, InCall DEF Basic
  <2> QED
    BY <2>1, ProcsFacts DEF Basic, Phases
<1>3. \A c \in Clients : PutCall(c) /\ (forgot # "once" => PutRead(c))
  BY DEF PutState, PutCalls, PutReads
<1>4. call'[p].reply.err = "OK"
  BY ReplyFacts
<1>5. kv.ver \in Nat /\ kv'.ver >= 1
  BY <1>1, <1>2, PutTypes DEF Basic
<1>6. ASSUME NEW c \in Clients, c # p
      PROVE  PutCall(c)' /\ (forgot' # "once" => PutRead(c)')
  <2>1. call'[c] = call[c] /\ ver[c] \in Nat /\ call[c].reply.ver \in Nat
    BY <1>1, <1>6, PutTypes, ProcsFacts DEF Basic
  <2>2. ver[c] <= kv.ver => ver[c] <= kv'.ver
    BY <1>1, <1>5, <2>1
  <2>3. call[c].reply.ver <= kv.ver => call[c].reply.ver <= kv'.ver
    BY <1>1, <1>5, <2>1
  <2>4. PutCall(c)'
    BY <1>3, <2>1, <2>2, <2>3 DEF PutCall, Entry
  <2>5. ASSUME PutRead(c) PROVE PutRead(c)'
    <3>1. kv.ver >= ver[c] + 1 => kv'.ver >= ver[c] + 1 /\ kv'.ver # ver[c] + 1
      BY <1>1, <1>5, <2>1
    <3>2. AckedCall(c)' <=> AckedCall(c)
      BY <2>1 DEF AckedCall
    <3>3. AckedCall(c) \/ (pc[c] = "get" /\ err[c] = "OK") => kv'.ver >= ver[c] + 1 /\ kv'.ver # ver[c] + 1
      BY <2>5, <3>1 DEF PutRead
    <3>4. pc[c] = "get" /\ call[c].reply # NoReply =>
              call[c].reply.err = "OK" /\ (err[c] = "OK" => OwnValue(c, call[c].reply.val, call[c].reply.ver)')
      BY <2>1, <2>5 DEF PutRead, OwnValue, Entry
    <3>5. kv'.ver # ver[c] + 1 => OwnValue(c, kv.val, kv.ver)'
      BY DEF OwnValue
    <3> QED
      BY <1>5, <2>1, <3>2, <3>3, <3>4, <3>5 DEF PutRead
  <2> QED
    BY <1>1, <1>3, <2>4, <2>5
<1>7. PutCall(p)' /\ PutRead(p)'
  <2>1. /\ ver[p] = kv.ver /\ ver[p] \in Nat /\ call[p].val = <<Entry(p, ver[p])>>
        /\ (reliable => res[p].nmaybe = 0)
    BY <1>1, <1>2, <1>3, PutTypes DEF PutCall, Basic
  <2>2. ver[p] <= kv'.ver /\ kv'.ver = ver[p] + 1 /\ kv'.ver >= ver[p] + 1
    BY <1>1, <1>5, <2>1
  <2>3. PutCall(p)'
    BY <1>1, <1>2, <1>4, <2>1, <2>2 DEF PutCall, Entry
  <2>4. OwnValue(p, kv.val, kv.ver)'
    BY <1>1, <2>1 DEF OwnValue, Entry
  <2> QED
    BY <1>2, <1>5, <2>2, <2>3, <2>4 DEF PutRead
<1>8. \A c \in Clients : PutCall(c)' /\ (forgot' # "once" => PutRead(c)')
  BY <1>6, <1>7
<1> QED
  BY <1>5, <1>8 DEF PutState, PutCalls, PutReads

LEMMA PutServeState ==
    ASSUME PutState, Basic, fn = "put", NEW p \in Procs, Serve(p)
    PROVE  PutState'
<1>1. /\ SameCall(p) /\ UNCHANGED <<params, pc, local, tester, oplog>>
      /\ Reads(p) \/ Executes(p) \/ Forgets(p) \/ Refuses(p)
  BY ServeCases DEF Basic
<1>2. UNCHANGED <<reliable, pc, ver, err, res, iter>>
  BY <1>1 DEF local, params
<1> QED
  BY <1>1, <1>2, PutReadsState, PutRefusesState, PutExecutesState

\* The clients of the next round start with version 0, and the key keeps its own.
LEMMA PutNextRoundState ==
    ASSUME PutState, Basic, NextRound
    PROVE  PutState'
<1>1. /\ Still /\ pc'[Tester] = "sleep" /\ (\A c \in Clients : pc'[c] = "head")
      /\ (\A p \in Procs : call[p] = NoCall /\ ver'[p] = 0)
      /\ (\A c \in Clients : iter'[c] = 0 /\ res'[c] = NoRes)
  BY NextRoundBasic
<1>2. UNCHANGED <<kv, forgot, call>>
  BY <1>1 DEF Still
<1>3. NoRes.nmaybe = 0 /\ NoRes.nok = 0
  BY DEF NoRes
<1>4. ASSUME NEW c \in Clients PROVE PutCall(c)' /\ PutRead(c)'
  <2>1. c \in Procs /\ kv.ver \in Nat
    BY PutTypes DEF Basic
  <2>2. PutCall(c)'
    BY <1>1, <1>2, <1>3, <2>1 DEF PutCall
  <2>3. ~ AckedCall(c)'
    BY <1>1, <1>2, <2>1, NoCallFacts DEF AckedCall
  <2> QED
    BY <1>1, <1>2, <2>1, <2>2, <2>3 DEF PutRead
<1> QED
  BY <1>1, <1>4 DEF PutState, PutCalls, PutReads

-----------------------------------------------------------------------------
(* Clients that put: what is counted *)

\* What is counted, and what was executed, are numbers.
LEMMA WeightTyped ==
    ASSUME TypeOK
    PROVE  /\ Weights \in [Clients -> Nat] /\ (\A c \in Clients : Weight(c) \in Nat)
           /\ total.nok \in Nat /\ total.nmaybe \in Nat /\ kv.ver \in Nat
           /\ Executed \in Nat
<1>1. ASSUME NEW c \in Clients PROVE Weight(c) \in Nat
  BY PutTypes DEF Weight
<1>2. Weights \in [Clients -> Nat]
  BY <1>1 DEF Weights
<1>3. total.nok \in Nat /\ total.nmaybe \in Nat /\ kv.ver \in Nat
  BY DEF TypeOK, Results, States
<1>4. Executed \in Nat
  BY <1>3 DEF Executed
<1> QED
  BY <1>1, <1>2, <1>3, <1>4

LEMMA WeightTypedNext ==
    ASSUME TypeOK'
    PROVE  /\ Weights' \in [Clients -> Nat] /\ (\A c \in Clients : Weight(c)' \in Nat)
           /\ total'.nok \in Nat /\ total'.nmaybe \in Nat /\ Executed' \in Nat
<1>1. ASSUME NEW c \in Clients PROVE Weight(c)' \in Nat
  <2>1. res'[c] \in Results
    BY DEF TypeOK
  <2>2. res'[c].nok \in Nat /\ res'[c].nmaybe \in Nat
    BY <2>1 DEF Results
  <2> QED
    BY <2>2 DEF Weight
<1>2. Weights' \in [Clients -> Nat]
  BY <1>1 DEF Weights
<1>3. total'.nok \in Nat /\ total'.nmaybe \in Nat /\ kv'.ver \in Nat
  BY DEF TypeOK, Results, States
<1>4. Executed' \in Nat
  BY <1>3 DEF Executed
<1> QED
  BY <1>1, <1>2, <1>3, <1>4

\* A step that executes nothing loses no weight.
LEMMA PutCountKept ==
    ASSUME TypeOK, TypeOK', PutCount, UNCHANGED <<total, reliable>>,
           pc[Tester] \in {"sleep", "signal"}, pc'[Tester] \in {"sleep", "signal"},
           NoFatal' => /\ NoFatal /\ Executed' = Executed
                       /\ \A c \in Clients : /\ Weight(c) <= Weight(c)'
                                             /\ reliable => Weight(c)' = Weight(c)
    PROVE  PutCount'
<1>1. SUFFICES ASSUME NoFatal' PROVE Executed' <= AllCounted' /\ (reliable => Executed' = AllCounted')
  BY DEF PutCount
<1>2. PICK f, g, t, x : f = Weights /\ g = Weights' /\ t = total.nok + total.nmaybe /\ x = Executed
  OBVIOUS
<1>3. f \in [Clients -> Nat] /\ g \in [Clients -> Nat] /\ t \in Nat /\ x \in Nat
  BY <1>2, WeightTyped, WeightTypedNext
<1>4. \A c \in Clients : f[c] <= g[c] /\ (reliable => g[c] = f[c])
  BY <1>1, <1>2 DEF Weights
<1>5. Sum(f) <= Sum(g) /\ Sum(f) \in Nat /\ Sum(g) \in Nat
  BY <1>3, <1>4, SumMono, UnitsFinite
<1>6. reliable => g = f
  BY <1>3, <1>4
<1>7. x <= t + Sum(f) /\ (reliable => x = t + Sum(f))
  BY <1>1, <1>2 DEF PutCount, AllCounted
<1>8. AllCounted' = t + Sum(g) /\ Executed' = x
  BY <1>1, <1>2 DEF AllCounted, Sum
<1>9. x <= t + Sum(g)
  BY <1>3, <1>5, <1>7
<1> QED
  BY <1>6, <1>7, <1>8, <1>9

\* A Put that is executed, or forgotten, adds one to the weight of its client.
LEMMA PutCountOneMore ==
    ASSUME TypeOK, TypeOK', PutCount, UNCHANGED <<total, reliable, pc>>,
           pc[Tester] \in {"sleep", "signal"},
           Executed' = Executed + 1, NEW a \in Clients, Weight(a)' = Weight(a) + 1,
           \A c \in Clients \ {a} : Weight(c) <= Weight(c)' /\ (reliable => Weight(c)' = Weight(c))
    PROVE  PutCount'
<1>1. SUFFICES ASSUME NoFatal PROVE Executed' <= AllCounted' /\ (reliable => Executed' = AllCounted')
  BY DEF PutCount, NoFatal
<1>2. PICK f, g, t, x : f = Weights /\ g = Weights' /\ t = total.nok + total.nmaybe /\ x = Executed
  OBVIOUS
<1>3. f \in [Clients -> Nat] /\ g \in [Clients -> Nat] /\ t \in Nat /\ x \in Nat
  BY <1>2, WeightTyped, WeightTypedNext
<1>4. g[a] = f[a] + 1 /\ \A c \in Clients \ {a} : f[c] <= g[c] /\ (reliable => g[c] = f[c])
  BY <1>2 DEF Weights
<1>5. PICK h : h = [f EXCEPT ![a] = f[a] + 1]
  OBVIOUS
<1>6. h \in [Clients -> Nat] /\ h[a] = f[a] + 1 /\ \A c \in Clients \ {a} : f[c] = h[c]
  BY <1>3, <1>5
<1>7. Sum(h) = Sum(f) + 1
  BY <1>3, <1>6, SumOneMore
<1>8. \A c \in Clients : h[c] <= g[c]
  BY <1>3, <1>4, <1>6
<1>9. Sum(h) <= Sum(g) /\ Sum(f) \in Nat /\ Sum(g) \in Nat
  BY <1>3, <1>6, <1>8, SumMono, UnitsFinite
<1>10. reliable => g = h
  BY <1>3, <1>4, <1>6
<1>11. x <= t + Sum(f) /\ (reliable => x = t + Sum(f))
  BY <1>1, <1>2 DEF PutCount, AllCounted
<1>12. AllCounted' = t + Sum(g) /\ Executed' = x + 1
  BY <1>2 DEF AllCounted, Sum
<1>13. x + 1 <= t + Sum(g) /\ (reliable => x + 1 = t + Sum(g))
  BY <1>3, <1>7, <1>9, <1>10, <1>11
<1> QED
  BY <1>12, <1>13

\* The weight of a client that no step has touched.
LEMMA WeightSame ==
    ASSUME NEW c \in Clients, call'[c] = call[c], SamePlace(c), err'[c] = err[c], res'[c] = res[c],
           kv' = kv
    PROVE  Weight(c)' = Weight(c)
<1>1. Uncounted(c)' <=> Uncounted(c)
  BY DEF Uncounted, AckedCall, SamePlace
<1> QED
  BY <1>1 DEF Weight

\* A client that is in no call has nothing uncounted.
LEMMA WeightIdle ==
    ASSUME Basic, NEW c \in Clients, pc[c] \notin {"get", "put"}
    PROVE  ~ Uncounted(c) /\ Weight(c) = res[c].nok + res[c].nmaybe
<1>1. c \in Procs /\ call[c] = NoCall /\ res[c].nok \in Nat /\ res[c].nmaybe \in Nat
  BY InCall, PutTypes DEF Basic
<1>2. ~ Uncounted(c)
  BY <1>1, NoCallFacts DEF Uncounted, AckedCall
<1> QED
  BY <1>1, <1>2 DEF Weight

\* A client that has a new call has nothing uncounted, unless it has put and goes on to read.
LEMMA WeightNew ==
    ASSUME TypeOK', NEW c \in Clients, NewCall(c), pc'[c] = "get" => err'[c] \notin {"OK", "ErrMaybe"}
    PROVE  Weight(c)' = res'[c].nok + res'[c].nmaybe
<1>1. call'[c].reply.err = "none" /\ call'[c].resent = FALSE
  BY NoCallFacts DEF NewCall
<1>2. ~ Uncounted(c)'
  BY <1>1 DEF Uncounted, AckedCall
<1>3. res'[c] \in Results
  BY DEF TypeOK
<1>4. res'[c].nok \in Nat /\ res'[c].nmaybe \in Nat
  BY <1>3 DEF Results
<1> QED
  BY <1>2, <1>4 DEF Weight

\* The parts of PutInv: what clients know, and what is counted.
LEMMA PutInvParts ==
    PutInv <=> (fn = "put" => PutState /\ PutCount)
  BY DEF PutInv, PutState

LEMMA PutTakeDone ==
    ASSUME Basic, PutInv, NEW c \in Clients, TakeDone(c)
    PROVE  PutInv'
<1>1. /\ TypeOK /\ TypeOK' /\ Still /\ Moves(c, "result") /\ UNCHANGED <<params, local, tester>>
      /\ pc[c] = "head" /\ pc[Tester] = "signal" /\ c \in Procs /\ c # Tester /\ Tester \in Procs
  BY TakeDoneBasic, ProcsFacts DEF Basic
<1>2. /\ UNCHANGED <<fn, reliable, forgot, kv, call, ver, err, iter, res, total>>
      /\ pc'[c] = "result" /\ \A q \in Procs \ {c} : pc'[q] = pc[q]
  BY <1>1 DEF Still, Moves, params, local, tester
<1>3. SUFFICES ASSUME fn = "put" PROVE PutState' /\ PutCount'
  BY <1>2 DEF PutInv, PutState
<1>4. PutState /\ PutCount
  BY <1>3, PutInvParts
<1>5. \A d \in Clients : call'[d] = call[d] /\ SamePlace(d)
  BY <1>1, <1>2, ProcsFacts DEF SamePlace
<1>6. pc'[Tester] = "signal"
  BY <1>1, <1>2
<1>7. PutState'
  <2>1. forgot # "once" => kv.ver >= 1
    BY <1>1, <1>4 DEF PutState, PutReads
  <2> QED
    BY <1>2, <1>4, <1>5, <2>1, PutIdle
<1>8. PutCount'
  <2>1. ASSUME NEW d \in Clients PROVE Weight(d) <= Weight(d)' /\ Weight(d)' = Weight(d)
    BY <1>1, <1>2, <1>5, WeightSame, WeightTyped
  <2>2. NoFatal' => NoFatal
    BY <1>1, <1>2, ProcsFacts DEF NoFatal
  <2>3. Executed' = Executed
    BY <1>2 DEF Executed
  <2> QED
    BY <1>1, <1>2, <1>4, <1>6, <2>1, <2>2, <2>3, PutCountKept
<1> QED
  BY <1>7, <1>8

LEMMA PutSignal ==
    ASSUME Basic, PutInv, Signal
    PROVE  PutInv'
<1>1. /\ TypeOK /\ TypeOK' /\ Still /\ Moves(Tester, "signal") /\ UNCHANGED <<params, local, tester>>
      /\ pc[Tester] = "sleep" /\ Tester \in Procs /\ (\E c \in Clients : iter[c] > 0)
  BY SignalBasic, ProcsFacts DEF Basic
<1>2. /\ UNCHANGED <<fn, reliable, forgot, kv, call, ver, err, iter, res, total>>
      /\ pc'[Tester] = "signal" /\ \A q \in Procs \ {Tester} : pc'[q] = pc[q]
  BY <1>1 DEF Still, Moves, params, local, tester
<1>3. SUFFICES ASSUME fn = "put" PROVE PutState' /\ PutCount'
  BY <1>2 DEF PutInv, PutState
<1>4. PutState /\ PutCount
  BY <1>3, PutInvParts
<1>5. \A d \in Clients : call'[d] = call[d] /\ SamePlace(d) /\ pc'[d] = pc[d]
  BY <1>2, ProcsFacts DEF SamePlace
<1>6. PutState'
  <2>1. forgot # "once" => kv.ver >= 1
    BY <1>1, <1>4 DEF PutState, PutReads, PutRead
  <2> QED
    BY <1>2, <1>4, <1>5, <2>1, PutIdle
<1>7. PutCount'
  <2>1. ASSUME NEW d \in Clients PROVE Weight(d) <= Weight(d)' /\ Weight(d)' = Weight(d)
    BY <1>1, <1>2, <1>5, WeightSame, WeightTyped
  <2>2. NoFatal' => NoFatal
    BY <1>5 DEF NoFatal
  <2>3. Executed' = Executed
    BY <1>2 DEF Executed
  <2> QED
    BY <1>1, <1>2, <1>4, <2>1, <2>2, <2>3, PutCountKept
<1> QED
  BY <1>6, <1>7

LEMMA PutPutIter ==
    ASSUME Basic, PutInv, NEW c \in Clients, PutIter(c)
    PROVE  PutInv'
<1>1. /\ TypeOK /\ TypeOK' /\ Phases /\ Begins(c) /\ Moves(c, "put") /\ UNCHANGED <<params, local, tester>>
      /\ pc[c] = "head" /\ fn = "put" /\ c \in Procs /\ c # Tester /\ Tester \in Procs
  BY PutIterBasic, ProcsFacts DEF Basic
<1>2. /\ UNCHANGED <<fn, reliable, forgot, kv, ver, err, iter, res, total>> /\ NewCall(c)
      /\ pc'[c] = "put" /\ \A q \in Procs \ {c} : pc'[q] = pc[q] /\ call'[q] = call[q]
  BY <1>1 DEF Begins, NewCall, Moves, params, local, tester
<1>3. PutState /\ PutCount
  BY <1>1, PutInvParts
<1>4. PutState'
  BY <1>3, PutIterState
<1>5. pc[Tester] \in {"sleep", "signal"} /\ pc'[Tester] \in {"sleep", "signal"}
  BY <1>1, <1>2, ClientRuns
<1>6. PutCount'
  <2>1. ASSUME NEW d \in Clients PROVE Weight(d)' = Weight(d) /\ Weight(d) <= Weight(d)'
    <3>1. Weight(d)' = Weight(d)
      <4>1. CASE d = c
        BY <1>1, <1>2, <4>1, WeightNew, WeightIdle
      <4>2. CASE d # c
        <5>1. call'[d] = call[d] /\ SamePlace(d)
          BY <1>2, <4>2, ProcsFacts DEF SamePlace
        <5> QED
          BY <1>2, <5>1, WeightSame
      <4> QED
        BY <4>1, <4>2
    <3>2. Weight(d) \in Nat
      BY <1>1, WeightTyped
    <3> QED
      BY <3>1, <3>2
  <2>2. NoFatal' => NoFatal
    BY <1>1, <1>2, ProcsFacts DEF NoFatal
  <2>3. Executed' = Executed
    BY <1>2 DEF Executed
  <2> QED
    BY <1>1, <1>2, <1>3, <1>5, <2>1, <2>2, <2>3, PutCountKept
<1> QED
  BY <1>4, <1>6 DEF PutInv, PutState

LEMMA PutPutPut ==
    ASSUME Basic, PutInv, Answers, NEW c \in Clients, PutPut(c)
    PROVE  PutInv' /\ Moves(c, "get")
<1>1. /\ TypeOK /\ TypeOK' /\ Phases /\ Ends(c) /\ UNCHANGED <<params, iter, ver, res, tester>>
      /\ pc[c] = "put" /\ fn = "put" /\ c \in Procs /\ c # Tester /\ Tester \in Procs
  BY PutPutBasic, ProcsFacts DEF Basic
<1>2. PutState /\ PutCount
  BY <1>1, PutInvParts
<1>3. /\ PutState' /\ Moves(c, "get") /\ err'[c] = Err(c) /\ \A d \in Clients \ {c} : err'[d] = err[d]
  BY <1>2, PutPutState
<1>4. /\ UNCHANGED <<fn, reliable, forgot, kv, res, total>> /\ call[c].reply # NoReply
      /\ pc'[c] = "get" /\ \A q \in Procs \ {c} : pc'[q] = pc[q] /\ call'[q] = call[q]
      /\ call'[c].reply = NoReply /\ call'[c].resent = FALSE
  BY <1>1, <1>3 DEF Ends, NewCall, Moves, Returns, params, tester
<1>5. pc[Tester] \in {"sleep", "signal"} /\ pc'[Tester] \in {"sleep", "signal"}
  BY <1>1, <1>4, ClientRuns
<1>6. PutCount'
  <2>1. ASSUME NEW d \in Clients, d # c PROVE Weight(d)' = Weight(d) /\ Weight(d) <= Weight(d)'
    <3>1. call'[d] = call[d] /\ SamePlace(d)
      BY <1>4, <2>1, ProcsFacts DEF SamePlace
    <3>2. Weight(d)' = Weight(d)
      BY <1>3, <1>4, <2>1, <3>1, WeightSame
    <3>3. Weight(d) \in Nat
      BY <1>1, WeightTyped
    <3> QED
      BY <3>2, <3>3
  <2>2. Weight(c) <= Weight(c)' /\ (reliable => Weight(c)' = Weight(c))
    <3>1. /\ (Err(c) = "OK" <=> AckedCall(c)) /\ call[c].reply.err \in {"OK", "ErrVersion"}
          /\ Err(c) = "ErrMaybe" <=> call[c].reply.err = "ErrVersion" /\ call[c].resent
      BY <1>1, <1>2, <1>4, PutAnswered
    <3>2. reliable => ~ call[c].resent
      BY <1>1 DEF Phases
    <3>3. Uncounted(c)' <=> Err(c) \in {"OK", "ErrMaybe"}
      BY <1>3, <1>4, NoCallFacts DEF Uncounted, AckedCall
    <3>4. Uncounted(c) => Err(c) \in {"OK", "ErrMaybe"}
      <4>1. ASSUME call[c].resent, ~ AckedCall(c) PROVE Err(c) = "ErrMaybe"
        <5>1. call[c].op = "put"
          BY <1>1, InCall
        <5>2. call[c].reply.err = "ErrVersion"
          BY <3>1, <4>1, <5>1 DEF AckedCall
        <5> QED
          BY <3>1, <4>1, <5>2
      <4> QED
        BY <1>1, <3>1, <4>1 DEF Uncounted
    <3>5. reliable => (Err(c) \in {"OK", "ErrMaybe"} => Uncounted(c))
      BY <3>1, <3>2 DEF Uncounted
    <3>6. res[c].nok \in Nat /\ res[c].nmaybe \in Nat
      BY <1>1, PutTypes
    <3> QED
      BY <1>4, <3>3, <3>4, <3>5, <3>6 DEF Weight
  <2>3. \A d \in Clients : Weight(d) <= Weight(d)' /\ (reliable => Weight(d)' = Weight(d))
    BY <2>1, <2>2
  <2>4. NoFatal' => NoFatal
    BY <1>1, <1>4, ProcsFacts DEF NoFatal
  <2>5. Executed' = Executed
    BY <1>4 DEF Executed
  <2> QED
    BY <1>1, <1>2, <1>4, <1>5, <2>3, <2>4, <2>5, PutCountKept
<1> QED
  BY <1>3, <1>6 DEF PutInv, PutState

LEMMA PutPutGot ==
    ASSUME Basic, PutInv, NEW c \in Clients, PutGot(c)
    PROVE  PutInv' /\ (forgot # "once" => pc'[c] # "fatal")
<1>1. /\ TypeOK /\ TypeOK' /\ Phases /\ Ends(c) /\ UNCHANGED <<params, err, tester>>
      /\ pc[c] = "get" /\ fn = "put" /\ c \in Procs /\ c # Tester /\ Tester \in Procs
      /\ \/ Moves(c, "fatal") /\ UNCHANGED <<iter, ver, res>>
         \/ /\ err[c] \in {"OK", "ErrMaybe"}
            /\ \A d \in Clients \ {c} : res'[d] = res[d]
            /\ res'[c].nok = res[c].nok + IF err[c] = "OK" THEN 1 ELSE 0
            /\ res'[c].nmaybe = res[c].nmaybe + IF err[c] = "OK" THEN 0 ELSE 1
            /\ Moves(c, "head")
         \/ err[c] \notin {"OK", "ErrMaybe"} /\ UNCHANGED <<iter, res>> /\ Moves(c, "put")
  BY PutGotBasic, ProcsFacts DEF Basic
<1>2. PutState /\ PutCount
  BY <1>1, PutInvParts
<1>3. PutState' /\ (forgot # "once" => pc'[c] # "fatal")
  BY <1>2, PutGotState
<1>4. /\ UNCHANGED <<fn, reliable, forgot, kv, total, err>> /\ NewCall(c)
      /\ pc'[c] \in {"fatal", "head", "put"} /\ (\A d \in Clients \ {c} : res'[d] = res[d])
      /\ \A q \in Procs \ {c} : pc'[q] = pc[q] /\ call'[q] = call[q]
  BY <1>1 DEF Ends, NewCall, Moves, params, tester
<1>5. pc[Tester] \in {"sleep", "signal"} /\ pc'[Tester] \in {"sleep", "signal"}
  BY <1>1, <1>4, ClientRuns
<1>6. PutCount'
  <2>1. ASSUME NEW d \in Clients, NoFatal' PROVE Weight(d)' = Weight(d) /\ Weight(d) <= Weight(d)'
    <3>1. Weight(d)' = Weight(d)
      <4>1. CASE d = c
        <5>1. pc'[c] # "fatal"
          BY <2>1 DEF NoFatal
        <5>2. Weight(c)' = res'[c].nok + res'[c].nmaybe
          BY <1>1, <1>4, WeightNew
        <5>3. call[c].op = "get"
          BY <1>1, InCall
        <5>4. Uncounted(c) <=> err[c] \in {"OK", "ErrMaybe"}
          BY <1>1, <5>3 DEF Uncounted, AckedCall
        <5>5. res[c].nok \in Nat /\ res[c].nmaybe \in Nat
          BY <1>1, PutTypes
        <5>6. CASE err[c] \in {"OK", "ErrMaybe"}
          <6>1. /\ res'[c].nok = res[c].nok + IF err[c] = "OK" THEN 1 ELSE 0
                /\ res'[c].nmaybe = res[c].nmaybe + IF err[c] = "OK" THEN 0 ELSE 1
            BY <1>1, <5>1, <5>6 DEF Moves
          <6> QED
            BY <4>1, <5>2, <5>4, <5>5, <5>6, <6>1 DEF Weight
        <5>7. CASE err[c] \notin {"OK", "ErrMaybe"}
          <6>1. res' = res
            BY <1>1, <5>1, <5>7 DEF Moves
          <6> QED
            BY <4>1, <5>2, <5>4, <5>5, <5>7, <6>1 DEF Weight
        <5> QED
          BY <5>6, <5>7
      <4>2. CASE d # c
        <5>1. call'[d] = call[d] /\ SamePlace(d)
          BY <1>4, <4>2, ProcsFacts DEF SamePlace
        <5> QED
          BY <1>4, <4>2, <5>1, WeightSame
      <4> QED
        BY <4>1, <4>2
    <3>2. Weight(d) \in Nat
      BY <1>1, WeightTyped
    <3> QED
      BY <3>1, <3>2
  <2>2. NoFatal' => NoFatal
    BY <1>1, <1>4, ProcsFacts DEF NoFatal
  <2>3. Executed' = Executed
    BY <1>4 DEF Executed
  <2> QED
    BY <1>1, <1>2, <1>4, <1>5, <2>1, <2>2, <2>3, PutCountKept
<1> QED
  BY <1>3, <1>6 DEF PutInv, PutState

\* All that was executed has been counted when the tester has every client's result.
LEMMA PutCollect ==
    ASSUME Basic, PutInv, Collect
    PROVE  PutInv'
<1>1. /\ TypeOK /\ TypeOK' /\ Begins(Tester) /\ UNCHANGED <<params, local, round, verdict>>
      /\ pc[Tester] = "signal" /\ (\A c \in Clients : pc[c] = "result") /\ pc'[Tester] = "get"
      /\ (\A c \in Clients : pc'[c] = "end") /\ total' = Counts
  BY CollectBasic DEF Basic
<1>2. /\ UNCHANGED <<fn, reliable, forgot, kv, ver, err, iter, res>>
      /\ \A c \in Clients : call'[c] = call[c]
  BY <1>1, ProcsFacts DEF Begins, NewCall, params, local
<1>3. SUFFICES ASSUME fn = "put" PROVE PutState' /\ PutCount'
  BY <1>2 DEF PutInv, PutState
<1>4. PutState /\ PutCount
  BY <1>3, PutInvParts
<1>5. PutState'
  <2>1. forgot # "once" => kv.ver >= 1
    BY <1>1, <1>4 DEF PutState, PutReads
  <2>2. \A c \in Clients : call'[c] = call[c] /\ SamePlace(c)
    BY <1>1, <1>2 DEF SamePlace
  <2> QED
    BY <1>2, <1>4, <2>1, <2>2, PutIdle
<1>6. PICK f, g, h : /\ f = [c \in Clients |-> res[c].nok] /\ g = [c \in Clients |-> res[c].nmaybe]
                     /\ h = Weights
  OBVIOUS
<1>7. f \in [Clients -> Nat] /\ g \in [Clients -> Nat] /\ h \in [Clients -> Nat]
  BY <1>1, <1>6, CountsTyped, WeightTyped
<1>8. \A c \in Clients : h[c] = f[c] + g[c]
  <2>1. ASSUME NEW c \in Clients PROVE h[c] = f[c] + g[c]
    <3>1. h[c] = Weight(c) /\ f[c] = res[c].nok /\ g[c] = res[c].nmaybe
      BY <1>6 DEF Weights
    <3> QED
      BY <1>1, <3>1, WeightIdle
  <2> QED
    BY <2>1
<1>9. Sum(h) = Sum(f) + Sum(g) /\ Sum(f) \in Nat /\ Sum(g) \in Nat
  BY <1>7, <1>8, SumAdd, UnitsFinite
<1>10. total'.nok = total.nok + Sum(f) /\ total'.nmaybe = total.nmaybe + Sum(g)
  <2>1. total' = [nok |-> total.nok + Sum(f), nmaybe |-> total.nmaybe + Sum(g)]
    BY <1>1, <1>6 DEF Counts
  <2> QED
    BY <2>1
<1>11. reliable => Sum(g) = 0
  <2>1. ASSUME reliable PROVE \A c \in Clients : g[c] = 0
    BY <1>4, <1>6, <2>1 DEF PutState, PutCalls, PutCall
  <2> QED
    BY <1>7, <2>1, SumZero
<1>12. total.nok \in Nat /\ total.nmaybe \in Nat /\ (reliable => total.nmaybe = 0)
  BY <1>1, <1>4, WeightTyped DEF PutCount
<1>13. NoFatal /\ Executed' = Executed /\ Executed \in Nat
  BY <1>1, <1>2, WeightTyped DEF NoFatal, Executed
<1>14. AllCounted = total.nok + total.nmaybe + Sum(h)
  BY <1>1, <1>6 DEF AllCounted
<1>15. AllCounted' = total'.nok + total'.nmaybe
  <2>1. total'.nok \in Nat /\ total'.nmaybe \in Nat
    BY <1>9, <1>10, <1>12
  <2> QED
    BY <1>1, <2>1 DEF AllCounted
<1>16. AllCounted' = AllCounted
  BY <1>9, <1>10, <1>12, <1>14, <1>15
<1>17. reliable' => total'.nmaybe = 0
  BY <1>2, <1>10, <1>11, <1>12
<1>18. pc'[Tester] # "passed"
  BY <1>1
<1>19. PutCount'
  BY <1>2, <1>4, <1>13, <1>16, <1>17, <1>18 DEF PutCount
<1> QED
  BY <1>5, <1>19

\* A Put that the service has lost is missing from the version, and CheckPutConcurrent tells.
LEMMA PutCheck ==
    ASSUME Basic, TesterReads, PutInv, Check
    PROVE  PutInv'
<1>1. /\ TypeOK /\ Phases /\ Ends(Tester) /\ UNCHANGED <<params, local, total, round>>
      /\ pc[Tester] = "get" /\ fn # "atleastonce" /\ Tester \in Procs
      /\ \/ Moves(Tester, "passed") /\ (fn = "put" => CheckPutConcurrent(call[Tester].reply.ver))
         \/ Moves(Tester, "fatal")
  BY CheckBasic, ProcsFacts DEF Basic
<1>2. /\ UNCHANGED <<fn, reliable, forgot, kv, ver, err, iter, res>> /\ call[Tester].reply # NoReply
      /\ pc'[Tester] \in {"passed", "fatal"} /\ UNCHANGED total
      /\ \A c \in Clients : call'[c] = call[c] /\ pc'[c] = pc[c]
  BY <1>1, ProcsFacts DEF Ends, NewCall, Moves, Returns, params, local
<1>3. SUFFICES ASSUME fn = "put" PROVE PutState' /\ PutCount'
  BY <1>2 DEF PutInv, PutState
<1>4. PutState /\ PutCount
  BY <1>3, PutInvParts
<1>5. PutState'
  <2>1. forgot # "once" => kv.ver >= 1
    BY <1>1, <1>4 DEF PutState, PutReads
  <2>2. \A c \in Clients : call'[c] = call[c] /\ SamePlace(c)
    BY <1>2 DEF SamePlace
  <2> QED
    BY <1>2, <1>4, <2>1, <2>2, PutIdle
<1>6. total.nok \in Nat /\ total.nmaybe \in Nat /\ kv.ver \in Nat
  BY <1>1, WeightTyped
<1>7. AllCounted = total.nok + total.nmaybe /\ AllCounted' = AllCounted /\ Executed' = Executed
  BY <1>1, <1>2, <1>6 DEF AllCounted, Executed
<1>8. NoFatal
  BY <1>1 DEF NoFatal, Phases
<1>9. ASSUME pc'[Tester] = "passed" PROVE forgot # "once"
  <2>1. SUFFICES ASSUME forgot = "once" PROVE FALSE
    OBVIOUS
  <2>2. reliable /\ total.nmaybe = 0 /\ Executed = AllCounted
    BY <1>1, <1>4, <1>8, <2>1 DEF Phases, PutCount
  <2>3. call[Tester].reply.ver = kv.ver
    BY <1>1, <1>2 DEF TesterReads
  <2>4. kv.ver = total.nok
    BY <1>1, <1>3, <1>9, <2>2, <2>3 DEF CheckPutConcurrent, Moves
  <2>5. Executed = kv.ver + 1
    BY <2>1 DEF Executed
  <2> QED
    BY <1>6, <1>7, <2>2, <2>4, <2>5
<1>10. PutCount'
  BY <1>2, <1>4, <1>7, <1>8, <1>9 DEF PutCount
<1> QED
  BY <1>5, <1>10

\* CheckPutConcurrent accepts what a service that keeps its promises has executed.
LEMMA PutsAccepted ==
    ASSUME Basic, PutInv, fn = "put", pc[Tester] = "get", forgot = "never"
    PROVE  CheckPutConcurrent(kv.ver) /\ kv.ver >= 1
<1>1. PutState /\ PutCount
  BY PutInvParts
<1>2. NoFatal
  BY DEF Basic, NoFatal, Phases
<1>3. total.nok \in Nat /\ total.nmaybe \in Nat /\ kv.ver \in Nat
  BY WeightTyped DEF Basic
<1>4. AllCounted = total.nok + total.nmaybe /\ Executed = kv.ver
  BY <1>3 DEF AllCounted, Executed
<1>5. kv.ver <= total.nok + total.nmaybe /\ (reliable => kv.ver = total.nok)
  BY <1>1, <1>2, <1>3, <1>4 DEF PutCount
<1>6. kv.ver >= 1
  BY <1>1 DEF PutState, PutReads
<1> QED
  BY <1>5, <1>6 DEF CheckPutConcurrent

LEMMA PutNextRound ==
    ASSUME Basic, PutInv, NextRound
    PROVE  PutInv'
<1>1. /\ TypeOK /\ TypeOK' /\ Still /\ fn = "put" /\ pc[Tester] = "passed" /\ pc'[Tester] = "sleep"
      /\ (\A c \in Clients : pc'[c] = "head" /\ res'[c] = NoRes)
      /\ (\A p \in Procs : call[p] = NoCall) /\ UNCHANGED <<params, err, total>>
  BY NextRoundBasic DEF Basic
<1>2. UNCHANGED <<fn, reliable, forgot, kv, call, total>>
  BY <1>1 DEF Still, params
<1>3. PutState /\ PutCount
  BY <1>1, PutInvParts
<1>4. PutState'
  BY <1>3, PutNextRoundState
<1>5. PICK f : f = Weights'
  OBVIOUS
<1>6. f \in [Clients -> Nat]
  BY <1>1, <1>5, WeightTypedNext
<1>7. \A c \in Clients : f[c] = 0
  <2>1. ASSUME NEW c \in Clients PROVE f[c] = 0
    <3>1. f[c] = Weight(c)'
      BY <1>5 DEF Weights
    <3>2. call'[c] = NoCall /\ pc'[c] = "head"
      BY <1>1, <1>2, ProcsFacts
    <3>3. ~ Uncounted(c)'
      BY <3>2, NoCallFacts DEF Uncounted, AckedCall
    <3>4. res'[c].nok = 0 /\ res'[c].nmaybe = 0
      BY <1>1 DEF NoRes
    <3> QED
      BY <3>1, <3>3, <3>4 DEF Weight
  <2> QED
    BY <2>1
<1>8. Sum(f) = 0
  BY <1>6, <1>7, SumZero
<1>9. total.nok \in Nat /\ total.nmaybe \in Nat
  BY <1>1, WeightTyped
<1>10. AllCounted' = total.nok + total.nmaybe + Sum(f)
  BY <1>1, <1>2, <1>5 DEF AllCounted, Sum
<1>11. AllCounted = total.nok + total.nmaybe
  BY <1>1, <1>9 DEF AllCounted
<1>12. AllCounted' = AllCounted /\ Executed' = Executed
  BY <1>2, <1>8, <1>9, <1>10, <1>11 DEF Executed
<1>13. NoFatal
  BY <1>1 DEF NoFatal, Basic, Phases
<1>14. PutCount'
  BY <1>1, <1>2, <1>3, <1>12, <1>13 DEF PutCount
<1> QED
  BY <1>4, <1>14 DEF PutInv, PutState

\* A Put that was executed and is sent again still counts, as it may return with ErrMaybe.
LEMMA PutLose ==
    ASSUME Basic, Acked, PutInv, NEW p \in Procs, Lose(p)
    PROVE  PutInv'
<1>1. /\ UNCHANGED <<fn, reliable, forgot, kv, pc, ver, err, res, iter, total>> /\ call[p].op = "put"
      /\ (\A q \in Procs \ {p} : call'[q] = call[q]) /\ ~ reliable
      /\ call'[p].ver = call[p].ver /\ call'[p].resent = TRUE
  BY LoseFacts DEF Basic, service, local, params, tester
<1>2. SUFFICES ASSUME fn = "put" PROVE PutState' /\ PutCount'
  BY <1>1 DEF PutInv, PutState
<1>3. PutState /\ PutCount
  BY <1>2, PutInvParts
<1>4. PutState'
  BY <1>2, <1>3, PutLoseState
<1>5. TypeOK /\ TypeOK' /\ Phases
  BY LoseBasic DEF Basic
<1>6. pc[p] = "put" /\ p \in Clients
  <2>1. pc[p] = "put"
    BY <1>1, <1>5, InCall
  <2> QED
    BY <1>2, <1>5, <2>1, ProcsFacts DEF Phases
<1>7. ASSUME NEW c \in Clients PROVE Weight(c) <= Weight(c)'
  <2>1. Uncounted(c) => Uncounted(c)'
    <3>1. CASE c = p
      <4>1. forgot # "once"
        BY <1>1, <1>5 DEF Phases
      <4>2. AckedCall(p) => call[p].ver < kv.ver
        BY <4>1 DEF Acked
      <4> QED
        BY <1>1, <1>6, <3>1, <4>2 DEF Uncounted
    <3>2. CASE c # p
      BY <1>1, <3>2, ProcsFacts DEF Uncounted, AckedCall
    <3> QED
      BY <3>1, <3>2
  <2>2. res[c].nok \in Nat /\ res[c].nmaybe \in Nat
    BY <1>5, PutTypes
  <2> QED
    BY <1>1, <2>1, <2>2 DEF Weight
<1>8. pc[Tester] \in {"sleep", "signal"}
  BY <1>1, <1>5, <1>6, ClientRuns
<1>9. Executed' = Executed /\ (NoFatal' => NoFatal)
  BY <1>1 DEF Executed, NoFatal
<1>10. PutCount'
  BY <1>1, <1>3, <1>5, <1>7, <1>8, <1>9, PutCountKept
<1> QED
  BY <1>4, <1>10

\* The server's step adds to the weight what it adds to the versions.
LEMMA PutServe ==
    ASSUME Basic, PutInv, NEW p \in Procs, Serve(p)
    PROVE  PutInv'
<1>1. /\ SameCall(p) /\ UNCHANGED <<params, pc, local, tester, oplog>>
      /\ Reads(p) \/ Executes(p) \/ Forgets(p) \/ Refuses(p)
  BY ServeCases DEF Basic
<1>2. /\ UNCHANGED <<fn, reliable, pc, ver, err, res, iter, total>>
      /\ (\A q \in Procs \ {p} : call'[q] = call[q]) /\ call[p].reply = NoReply
      /\ call'[p].op = call[p].op /\ call'[p].ver = call[p].ver /\ call'[p].resent = call[p].resent
  BY <1>1 DEF SameCall, local, params, tester
<1>3. SUFFICES ASSUME fn = "put" PROVE PutState' /\ PutCount'
  BY <1>2 DEF PutInv, PutState
<1>4. PutState /\ PutCount
  BY <1>3, PutInvParts
<1>5. PutState'
  BY <1>3, <1>4, PutServeState
<1>6. TypeOK /\ TypeOK' /\ Phases
  BY ServeBasic DEF Basic
<1>7. CASE Reads(p) \/ Refuses(p)
  <2>1. UNCHANGED <<kv, forgot>> /\ ~ AckedCall(p)'
    <3>1. CASE Reads(p)
      BY <1>2, <3>1 DEF Reads, AckedCall
    <3>2. CASE Refuses(p)
      <4>1. call'[p].reply.err # "OK"
        BY <3>2, ReplyFacts
      <4> QED
        BY <3>2, <4>1 DEF Refuses, AckedCall
    <3> QED
      BY <1>7, <3>1, <3>2
  <2>2. ASSUME NEW c \in Clients PROVE Weight(c) <= Weight(c)' /\ Weight(c)' = Weight(c)
    <3>1. Uncounted(c) <=> Uncounted(c)'
      <4>1. ~ AckedCall(p)
        BY <1>2, NoCallFacts DEF AckedCall
      <4>2. CASE c = p
        BY <1>2, <2>1, <4>1, <4>2 DEF Uncounted
      <4>3. CASE c # p
        BY <1>2, <2>1, <4>3, ProcsFacts DEF Uncounted, AckedCall
      <4> QED
        BY <4>2, <4>3
    <3>2. Weight(c) = Weight(c)'
      BY <1>2, <3>1 DEF Weight
    <3>3. Weight(c) \in Nat
      BY <1>6, WeightTyped
    <3> QED
      BY <3>2, <3>3
  <2>3. Executed' = Executed /\ (NoFatal' <=> NoFatal)
    BY <1>2, <2>1 DEF Executed, NoFatal
  <2>4. CASE pc[Tester] \in {"sleep", "signal"}
    BY <1>2, <1>4, <1>5, <1>6, <2>2, <2>3, <2>4, PutCountKept
  <2>5. CASE pc[Tester] \notin {"sleep", "signal"}
    <3>1. AllCounted' = AllCounted
      BY <1>2, <2>5 DEF AllCounted
    <3> QED
      BY <1>2, <1>4, <1>5, <2>1, <2>3, <3>1 DEF PutCount
  <2> QED
    BY <2>4, <2>5
<1>8. CASE Executes(p) \/ Forgets(p)
  <2>1. call[p].op = "put" /\ call[p].ver = kv.ver
    BY <1>8 DEF Executes, Forgets
  <2>2. pc[p] = "put" /\ p \in Clients
    <3>1. pc[p] = "put"
      BY <1>6, <2>1, InCall
    <3> QED
      BY <1>3, <1>6, <3>1, ProcsFacts DEF Phases
  <2>3. pc[Tester] \in {"sleep", "signal"}
    BY <1>6, <2>1, <2>2, ClientRuns
  <2>4. kv.ver \in Nat /\ \A c \in Clients : call[c].ver \in Nat
    BY <1>6, <2>2, PutTypes
  <2>5. Executed' = Executed + 1 /\ (kv' = kv \/ kv'.ver = kv.ver + 1)
    <3>1. CASE Executes(p)
      <4>1. kv'.ver = kv.ver + 1 /\ forgot' = forgot
        BY <3>1 DEF Executes
      <4>2. CASE forgot = "once"
        BY <2>4, <4>1, <4>2 DEF Executed
      <4>3. CASE forgot # "once"
        BY <2>4, <4>1, <4>3 DEF Executed
      <4> QED
        BY <4>1, <4>2, <4>3
    <3>2. CASE Forgets(p)
      <4>1. kv' = kv /\ forgot = "not yet" /\ forgot' = "once"
        BY <3>2 DEF Forgets
      <4>2. Executed = kv.ver + 0 /\ Executed' = kv'.ver + 1
        BY <4>1 DEF Executed
      <4>3. kv'.ver = kv.ver
        BY <4>1
      <4>4. kv.ver + 1 = (kv.ver + 0) + 1
        BY <2>4
      <4> QED
        BY <4>1, <4>2, <4>3, <4>4
    <3> QED
      BY <1>8, <3>1, <3>2
  <2>6. Weight(p)' = Weight(p) + 1
    <3>1. ~ Uncounted(p)
      BY <1>2, <2>1, <2>2, <2>4, NoCallFacts DEF Uncounted, AckedCall
    <3>2. Uncounted(p)'
      BY <1>2, <1>8, <2>1, ReplyFacts DEF Uncounted, AckedCall
    <3>3. res[p].nok \in Nat /\ res[p].nmaybe \in Nat
      BY <1>6, <2>2, PutTypes
    <3> QED
      BY <1>2, <3>1, <3>2, <3>3 DEF Weight
  <2>7. ASSUME NEW c \in Clients \ {p}
        PROVE  Weight(c) <= Weight(c)' /\ (reliable => Weight(c)' = Weight(c))
    <3>1. c \in Procs /\ call'[c] = call[c] /\ call[c].ver \in Nat
      BY <1>2, <2>4, ProcsFacts
    <3>2. call[c].ver < kv.ver => call[c].ver < kv'.ver
      BY <2>4, <2>5, <3>1
    <3>3. Uncounted(c) => Uncounted(c)'
      BY <1>2, <3>1, <3>2 DEF Uncounted, AckedCall
    <3>4. reliable => (Uncounted(c)' => Uncounted(c))
      BY <1>2, <1>6, <3>1 DEF Uncounted, AckedCall, Phases
    <3>5. res[c].nok \in Nat /\ res[c].nmaybe \in Nat
      BY <1>6, PutTypes
    <3> QED
      BY <1>2, <3>3, <3>4, <3>5 DEF Weight
  <2>8. PutCount'
    BY <1>2, <1>4, <1>6, <2>2, <2>3, <2>5, <2>6, <2>7, PutCountOneMore
  <2> QED
    BY <1>5, <2>8
<1> QED
  BY <1>1, <1>7, <1>8

-----------------------------------------------------------------------------
(* The tester alone *)

\* The call of a Put, as AloneInv has it: not executed, executed, or forgotten.
PutPending(l)   == kv.ver = l.ver /\ l.reply = NoReply /\ forgot # "once"
PutExecuted(l)  == /\ kv.ver = l.ver + 1 /\ kv.val = l.val /\ forgot # "once"
                   /\ l.reply.err = "OK" \/ (l.resent /\ l.reply.err \in {"none", "ErrVersion"})
PutForgotten(l) == kv.ver = l.ver /\ l.reply.err = "OK" /\ forgot = "once"

\* AloneInv by the place of the tester.
LEMMA AloneParts ==
    AloneInv <=>
        (fn = "atleastonce" =>
            /\ pc[Tester] = "start" => ver[Tester] = kv.ver /\ forgot # "once"
            /\ pc[Tester] = "passed" => forgot # "once"
            /\ pc[Tester] = "put" =>
                  /\ call[Tester].val = <<Entry(Tester, round)>> /\ call[Tester].ver = ver[Tester]
                  /\ PutPending(call[Tester]) \/ PutExecuted(call[Tester]) \/ PutForgotten(call[Tester])
            /\ pc[Tester] = "get" =>
                  IF forgot = "once" THEN ver[Tester] = kv.ver + 1
                  ELSE ver[Tester] = kv.ver /\ kv.ver >= 1 /\ kv.val = <<Entry(Tester, round)>>)
  BY DEF AloneInv, PutPending, PutExecuted, PutForgotten

LEMMA AloneTypes ==
    ASSUME TypeOK
    PROVE  /\ ver[Tester] \in Nat /\ kv.ver \in Nat /\ kv \in States /\ round \in Nat
           /\ call[Tester].ver \in Nat /\ call[Tester].reply \in Replies
<1>1. ver[Tester] \in Nat /\ kv \in States /\ round \in Nat /\ call[Tester] \in CallRecs
  BY ProcsFacts DEF TypeOK
<1> QED
  BY <1>1 DEF States, CallRecs

\* PutAtLeastOnce starts with the version of the key.
LEMMA AloneAtLeastOncePut ==
    ASSUME Basic, AloneInv, AtLeastOncePut
    PROVE  AloneInv'
<1>1. /\ Begins(Tester) /\ Moves(Tester, "put") /\ fn = "atleastonce" /\ pc[Tester] = "start"
      /\ call'[Tester].val = <<Entry(Tester, round)>> /\ call'[Tester].ver = ver[Tester]
      /\ UNCHANGED <<params, local, tester>>
  BY AtLeastOncePutBasic
<1>2. UNCHANGED <<fn, ver, round, kv, forgot>> /\ pc'[Tester] = "put" /\ call'[Tester].reply = NoReply
  BY <1>1 DEF params, local, tester, Begins, NewCall, Moves
<1>3. ver[Tester] = kv.ver /\ forgot # "once"
  BY <1>1, AloneParts
<1>4. PutPending(call[Tester])'
  BY <1>1, <1>2, <1>3 DEF PutPending
<1> QED
  BY <1>1, <1>2, <1>4 DEF AloneInv, PutPending

\* PutAtLeastOnce has OK, and goes on to CheckGet, or ErrMaybe, and puts again with the version
\* that its first attempt has made.
LEMMA AloneAtLeastOncePutDone ==
    ASSUME Basic, Answers, AloneInv, AtLeastOncePutDone
    PROVE  AloneInv' /\ pc'[Tester] # "fatal"
<1>1. /\ Ends(Tester) /\ pc[Tester] = "put" /\ fn = "atleastonce"
      /\ UNCHANGED <<params, iter, err, res, tester>>
      /\ ver'[Tester] = NextVersion(ver[Tester], Err(Tester))
      /\ \/ Err(Tester) = "OK" /\ Moves(Tester, "get") /\ call'[Tester].op = "get"
         \/ /\ Err(Tester) \in {"ErrMaybe", "ErrVersion"} \/ ver'[Tester] = 0
            /\ Err(Tester) # "OK"
            /\ Moves(Tester, "put") /\ call'[Tester].op = "put"
            /\ call'[Tester].val = call[Tester].val /\ call'[Tester].ver = ver'[Tester]
         \/ /\ Err(Tester) \notin {"OK", "ErrMaybe", "ErrVersion"}
            /\ Moves(Tester, "fatal") /\ call'[Tester] = NoCall
  BY AtLeastOncePutDoneBasic
<1>2. /\ UNCHANGED <<fn, round, kv, forgot>> /\ call'[Tester].reply = NoReply
      /\ call[Tester].reply # NoReply
  BY <1>1 DEF params, tester, Ends, NewCall, Returns
<1>3. call[Tester].op = "put" /\ call[Tester].reply.err # "none"
  BY <1>1, <1>2, InCall, ProcsFacts DEF Answers, Basic
<1>4. /\ call[Tester].val = <<Entry(Tester, round)>> /\ call[Tester].ver = ver[Tester]
      /\ PutPending(call[Tester]) \/ PutExecuted(call[Tester]) \/ PutForgotten(call[Tester])
  BY <1>1, AloneParts
<1>5. ver[Tester] \in Nat /\ kv.ver \in Nat
  BY AloneTypes DEF Basic
<1>6. CASE PutExecuted(call[Tester])
  <2>1. kv.ver = ver[Tester] + 1 /\ kv.val = <<Entry(Tester, round)>> /\ forgot # "once"
    BY <1>4, <1>6 DEF PutExecuted
  <2>2. CASE call[Tester].reply.err = "OK"
    <3>1. Err(Tester) = "OK"
      BY <2>2 DEF Err
    <3>2. ver'[Tester] = ver[Tester] + 1 /\ pc'[Tester] = "get"
      BY <1>1, <3>1 DEF NextVersion, Moves
    <3>3. ver'[Tester] = kv'.ver /\ kv'.ver >= 1 /\ kv'.val = <<Entry(Tester, round')>>
          /\ forgot' # "once"
      BY <1>2, <1>5, <2>1, <3>2
    <3> QED
      BY <3>2, <3>3 DEF AloneInv
  <2>3. CASE call[Tester].reply.err # "OK"
    <3>1. Err(Tester) = "ErrMaybe"
      BY <1>3, <1>6, <2>3 DEF Err, PutExecuted
    <3>2. ver'[Tester] = ver[Tester] + 1 /\ pc'[Tester] = "put"
          /\ call'[Tester].val = call[Tester].val /\ call'[Tester].ver = ver'[Tester]
      BY <1>1, <3>1 DEF NextVersion, Moves
    <3>3. PutPending(call[Tester])'
      BY <1>2, <1>5, <2>1, <3>2 DEF PutPending
    <3> QED
      BY <1>2, <1>4, <3>2, <3>3 DEF AloneInv, PutPending
  <2> QED
    BY <2>2, <2>3
<1>7. CASE PutForgotten(call[Tester])
  <2>1. kv.ver = ver[Tester] /\ forgot = "once" /\ call[Tester].reply.err = "OK"
    BY <1>4, <1>7 DEF PutForgotten
  <2>2. Err(Tester) = "OK"
    BY <2>1 DEF Err
  <2>3. ver'[Tester] = ver[Tester] + 1 /\ pc'[Tester] = "get"
    BY <1>1, <2>2 DEF NextVersion, Moves
  <2>4. ver'[Tester] = kv'.ver + 1 /\ forgot' = "once"
    BY <1>2, <2>1, <2>3
  <2> QED
    BY <2>3, <2>4 DEF AloneInv
<1> QED
  BY <1>2, <1>4, <1>6, <1>7 DEF PutPending

\* CheckGet accepts what PutAtLeastOnce has put, unless the Put was forgotten.
LEMMA AloneCheckGet ==
    ASSUME Basic, TesterReads, AloneInv, CheckGet
    PROVE  AloneInv' /\ (forgot # "once" => pc'[Tester] # "fatal")
<1>1. /\ Ends(Tester) /\ pc[Tester] = "get" /\ fn = "atleastonce"
      /\ UNCHANGED <<params, local, total, verdict>>
      /\ LET good == /\ Err(Tester) = "OK"
                     /\ call[Tester].reply.val = <<Entry(Tester, round)>>
                     /\ call[Tester].reply.ver = ver[Tester]
         IN  (Moves(Tester, "start") /\ good) \/ (Moves(Tester, "fatal") /\ ~ good)
  BY CheckGetBasic
<1>2. UNCHANGED <<fn, ver, kv, forgot>> /\ call[Tester].reply # NoReply
  BY <1>1 DEF params, local, Ends, Returns
<1>3. /\ call[Tester].reply.val = kv.val /\ call[Tester].reply.ver = kv.ver
      /\ call[Tester].reply.err = IF kv.ver = 0 THEN "ErrNoKey" ELSE "OK"
  BY <1>1, <1>2 DEF TesterReads
<1>4. Err(Tester) = call[Tester].reply.err
  <2>1. call[Tester].op = "get"
    BY <1>1, InCall, ProcsFacts DEF Basic
  <2> QED
    BY <2>1 DEF Err
<1>5. ver[Tester] \in Nat /\ kv.ver \in Nat
  BY AloneTypes DEF Basic
<1>6. CASE forgot = "once"
  <2>1. ver[Tester] = kv.ver + 1
    BY <1>1, <1>6, AloneParts
  <2>2. call[Tester].reply.ver # ver[Tester]
    BY <1>3, <1>5, <2>1
  <2>3. pc'[Tester] = "fatal"
    BY <1>1, <2>2 DEF Moves
  <2> QED
    BY <1>6, <2>3 DEF AloneInv
<1>7. CASE forgot # "once"
  <2>1. ver[Tester] = kv.ver /\ kv.ver >= 1 /\ kv.val = <<Entry(Tester, round)>>
    BY <1>1, <1>7, AloneParts
  <2>2. Err(Tester) = "OK"
    BY <1>3, <1>4, <1>5, <2>1
  <2>3. pc'[Tester] = "start"
    BY <1>1, <1>3, <2>1, <2>2 DEF Moves
  <2> QED
    BY <1>2, <1>7, <2>1, <2>3 DEF AloneInv
<1> QED
  BY <1>6, <1>7

LEMMA AloneAtLeastOnceEnd ==
    ASSUME Basic, AloneInv, AtLeastOnceEnd
    PROVE  AloneInv'
<1>1. Still /\ pc[Tester] = "start" /\ fn = "atleastonce"
      /\ (Moves(Tester, "passed") \/ Moves(Tester, "fatal"))
  BY AtLeastOnceEndBasic
<1>2. forgot # "once" /\ forgot' = forgot /\ pc'[Tester] \in {"passed", "fatal"}
  BY <1>1, AloneParts DEF Still, Moves
<1> QED
  BY <1>2 DEF AloneInv

\* The only call is the tester's.
LEMMA AloneCaller ==
    ASSUME Phases, fn = "atleastonce", NEW p \in Procs, call[p].op # "none"
    PROVE  p = Tester /\ pc[Tester] \in {"get", "put"} /\ call[Tester].op = pc[Tester]
<1>1. pc[p] \in {"get", "put"} /\ call[p].op = pc[p]
  BY InCall
<1>2. p = Tester
  BY <1>1, ProcsFacts DEF Phases
<1> QED
  BY <1>1, <1>2

\* A Put that is sent again finds its own version, and is refused.
LEMMA AloneServe ==
    ASSUME Basic, AloneInv, NEW p \in Procs, Serve(p)
    PROVE  AloneInv'
<1>1. /\ SameCall(p) /\ UNCHANGED <<params, pc, local, tester, oplog>>
      /\ Reads(p) \/ Executes(p) \/ Forgets(p) \/ Refuses(p)
  BY ServeCases DEF Basic
<1>2. UNCHANGED <<fn, pc, ver, round>>
  BY <1>1 DEF params, local, tester
<1>3. SUFFICES ASSUME fn = "atleastonce" PROVE AloneInv'
  BY <1>2 DEF AloneInv
<1>4. p = Tester /\ pc[Tester] \in {"get", "put"} /\ call[Tester].op = pc[Tester]
  BY <1>1, <1>3, AloneCaller DEF Basic, SameCall
<1>5. /\ call[Tester].reply = NoReply /\ call[Tester].reply.err = "none"
      /\ call'[Tester].val = call[Tester].val /\ call'[Tester].ver = call[Tester].ver
      /\ call'[Tester].resent = call[Tester].resent
  BY <1>1, <1>4, NoCallFacts DEF SameCall
<1>6. kv.ver \in Nat /\ ver[Tester] \in Nat /\ call[Tester].ver \in Nat
  BY AloneTypes DEF Basic
<1>7. CASE pc[Tester] = "get"
  <2>1. UNCHANGED <<kv, forgot>>
    BY <1>1, <1>4, <1>7 DEF Reads, Executes, Forgets, Refuses
  <2> QED
    BY <1>2, <1>7, <2>1 DEF AloneInv
<1>8. CASE pc[Tester] = "put"
  <2>1. /\ call[Tester].val = <<Entry(Tester, round)>> /\ call[Tester].ver = ver[Tester]
        /\ PutPending(call[Tester]) \/ PutExecuted(call[Tester])
    BY <1>3, <1>5, <1>8, AloneParts DEF PutForgotten
  <2>2. CASE PutPending(call[Tester])
    <3>1. kv.ver = call[Tester].ver /\ forgot # "once"
      BY <2>2 DEF PutPending
    <3>2. CASE Executes(p)
      <4>1. kv'.ver = kv.ver + 1 /\ kv'.val = call[Tester].val /\ forgot' = forgot
        BY <1>4, <3>2 DEF Executes
      <4>2. call'[Tester].reply.err = "OK"
        BY <1>4, <3>2, ReplyFacts
      <4>3. PutExecuted(call[Tester])'
        BY <1>5, <3>1, <4>1, <4>2 DEF PutExecuted
      <4> QED
        BY <1>2, <1>5, <1>8, <2>1, <4>3 DEF AloneInv, PutExecuted
    <3>3. CASE Forgets(p)
      <4>1. kv' = kv /\ forgot' = "once" /\ call'[Tester].reply.err = "OK"
        BY <1>4, <3>3, ReplyFacts DEF Forgets
      <4>2. PutForgotten(call[Tester])'
        BY <1>5, <3>1, <4>1 DEF PutForgotten
      <4> QED
        BY <1>2, <1>5, <1>8, <2>1, <4>2 DEF AloneInv, PutForgotten
    <3> QED
      BY <1>1, <1>4, <1>8, <3>1, <3>2, <3>3 DEF Reads, Refuses
  <2>3. CASE PutExecuted(call[Tester])
    <3>1. kv.ver = call[Tester].ver + 1 /\ forgot # "once" /\ call[Tester].resent
      BY <1>5, <2>3 DEF PutExecuted
    <3>2. kv.ver # call[Tester].ver /\ kv.ver # 0
      BY <1>6, <3>1
    <3>3. Refuses(p)
      BY <1>1, <1>4, <1>8, <3>2 DEF Reads, Executes, Forgets
    <3>4. UNCHANGED <<kv, forgot>> /\ call'[Tester].reply.err = "ErrVersion"
      BY <1>4, <3>2, <3>3, ReplyFacts DEF Refuses
    <3>5. PutExecuted(call[Tester])'
      BY <1>5, <2>3, <3>1, <3>4 DEF PutExecuted
    <3> QED
      BY <1>2, <1>5, <1>8, <2>1, <3>5 DEF AloneInv, PutExecuted
  <2> QED
    BY <2>1, <2>2, <2>3
<1> QED
  BY <1>4, <1>7, <1>8

\* A Put whose request or reply is lost is sent again; it was executed or not.
LEMMA AloneLose ==
    ASSUME Basic, AloneInv, NEW p \in Procs, Lose(p)
    PROVE  AloneInv'
<1>1. /\ UNCHANGED <<params, service, pc, local, tester, oplog>>
      /\ ~ reliable /\ call[p].op = "put"
      /\ call'[p].val = call[p].val /\ call'[p].ver = call[p].ver
      /\ call'[p].resent = TRUE /\ call'[p].reply = NoReply
  BY LoseFacts DEF Basic
<1>2. UNCHANGED <<fn, pc, ver, round, kv, forgot>>
  BY <1>1 DEF params, local, tester, service
<1>3. SUFFICES ASSUME fn = "atleastonce" PROVE AloneInv'
  BY <1>2 DEF AloneInv
<1>4. p = Tester /\ pc[Tester] = "put"
  BY <1>1, <1>3, AloneCaller DEF Basic
<1>5. forgot = "never"
  BY <1>1 DEF Basic, Phases
<1>6. /\ call[Tester].val = <<Entry(Tester, round)>> /\ call[Tester].ver = ver[Tester]
      /\ PutPending(call[Tester]) \/ PutExecuted(call[Tester])
  BY <1>3, <1>4, <1>5, AloneParts DEF PutForgotten
<1>7. PutPending(call[Tester])' \/ PutExecuted(call[Tester])'
  BY <1>1, <1>2, <1>4, <1>5, <1>6, NoCallFacts DEF PutPending, PutExecuted
<1> QED
  BY <1>1, <1>2, <1>4, <1>6, <1>7 DEF AloneInv, PutPending, PutExecuted

-----------------------------------------------------------------------------
(* No alarm for a service that keeps its promises *)

\* Whoever reads finds a key, and whoever puts has a version that the key has had.
LEMMA AllTimely ==
    ASSUME Basic, AppendInv, PutInv, AloneInv, NEW p \in Procs, call[p].op # "none"
    PROVE  Timely(p)
<1>1. SUFFICES ASSUME forgot = "never"
      PROVE  (call[p].op = "get" => kv.ver >= 1) /\ (call[p].op = "put" => call[p].ver <= kv.ver)
  BY DEF Timely
<1>2. pc[p] \in {"get", "put"} /\ call[p].op = pc[p] /\ TypeOK /\ Phases
  BY InCall DEF Basic
<1>3. CASE fn = "append"
  <2>1. AppendState
    BY <1>3, AppendInvParts
  <2>2. kv.ver >= 1
    <3>1. kv.val \in Seq(Entries) /\ kv.ver = Len(kv.val) + 1
      BY <2>1 DEF AppendState, AppendList
    <3>2. Len(kv.val) \in Nat
      BY <3>1
    <3> QED
      BY <3>1, <3>2
  <2>3. ASSUME pc[p] = "put" PROVE call[p].ver <= kv.ver
    <3>1. p \in Clients
      BY <1>2, <1>3, <2>3, ProcsFacts DEF Phases
    <3> QED
      BY <2>1, <2>3, <3>1 DEF AppendState, AppendCalls, AppendCall
  <2> QED
    BY <1>2, <2>2, <2>3
<1>4. CASE fn = "put"
  <2>1. PutState
    BY <1>4, PutInvParts
  <2>2. ASSUME pc[p] = "get" PROVE kv.ver >= 1
    <3>1. CASE p = Tester
      BY <1>1, <2>1, <2>2, <3>1 DEF PutState, PutReads
    <3>2. CASE p \in Clients
      BY <1>1, <2>1, <2>2, <3>2 DEF PutState, PutReads, PutRead
    <3> QED
      BY <3>1, <3>2, ProcsFacts
  <2>3. ASSUME pc[p] = "put" PROVE call[p].ver <= kv.ver
    <3>1. p \in Clients
      BY <1>2, <1>4, <2>3, ProcsFacts DEF Phases
    <3> QED
      BY <2>1, <2>3, <3>1 DEF PutState, PutCalls, PutCall
  <2> QED
    BY <1>2, <2>2, <2>3
<1>5. CASE fn = "atleastonce"
  <2>1. p = Tester
    BY <1>2, <1>5, AloneCaller
  <2>2. ASSUME pc[p] = "get" PROVE kv.ver >= 1
    BY <1>1, <1>5, <2>1, <2>2, AloneParts
  <2>3. ASSUME pc[p] = "put" PROVE call[p].ver <= kv.ver
    <3>1. PutPending(call[Tester]) \/ PutExecuted(call[Tester])
      BY <1>1, <1>5, <2>1, <2>3, AloneParts DEF PutForgotten
    <3>2. call[Tester].ver \in Nat /\ (kv.ver = call[Tester].ver \/ kv.ver = call[Tester].ver + 1)
      BY <1>2, <3>1, AloneTypes DEF PutPending, PutExecuted
    <3> QED
      BY <2>1, <3>2
  <2> QED
    BY <1>2, <2>2, <2>3
<1> QED
  BY <1>2, <1>3, <1>4, <1>5 DEF TypeOK

\* Only the process that moves can raise an alarm.
LEMMA NoAlarm ==
    ASSUME NoFalseAlarm, forgot' = forgot, NEW p \in Procs,
           \A q \in Procs \ {p} : pc'[q] = pc[q], forgot = "never" => pc'[p] # "fatal"
    PROVE  NoFalseAlarm'
  BY DEF NoFalseAlarm

\* When nobody is in a call, porcupine finds an order.
LEMMA QuietLinearizable ==
    ASSUME TypeOK', Times', Linearized', forgot' = "never", \A p \in Procs : call'[p].op = "none"
    PROVE  Linearizable(oplog')
<1>1. PICK log, cl, s : log = oplog' /\ cl = call' /\ s = kv'
  OBVIOUS
<1>2. log \in SUBSET Ops /\ IsFiniteSet(log)
  BY <1>1 DEF TypeOK, Times
<1>3. Ordered(log, cl, s) /\ \A p \in Procs : cl[p].op = "none"
  BY <1>1 DEF Linearized
<1>4. Linearizable(log)
  BY <1>2, <1>3, OrderedLinearizable
<1> QED
  BY <1>1, <1>4

\* The tester's checks accept what a service that keeps its promises has.
LEMMA CheckAccepts ==
    ASSUME Basic, TesterReads, AppendInv, PutInv, TypeOK', Times', Linearized', Check,
           forgot = "never"
    PROVE  pc'[Tester] # "fatal"
<1>1. /\ Ends(Tester) /\ pc[Tester] = "get" /\ fn # "atleastonce" /\ call'[Tester] = NoCall
      /\ \/ Moves(Tester, "passed")
         \/ /\ Moves(Tester, "fatal")
            /\ \/ Err(Tester) # "OK"
               \/ fn = "put" /\ ~ CheckPutConcurrent(call[Tester].reply.ver)
               \/ fn # "put" /\ ~ CheckAppends(call[Tester].reply.val, call[Tester].reply.ver)
               \/ CheckPorcupine /\ verdict' = "illegal"
  BY CheckBasic
<1>2. TypeOK /\ Phases /\ kv.ver \in Nat
  BY AloneTypes DEF Basic
<1>3. \A c \in Clients : pc[c] = "end"
  BY <1>1, <1>2 DEF Phases
<1>4. /\ call[Tester].reply.val = kv.val /\ call[Tester].reply.ver = kv.ver
      /\ call[Tester].reply.err = IF kv.ver = 0 THEN "ErrNoKey" ELSE "OK"
  BY <1>1 DEF TesterReads, Ends, Returns
<1>5. kv.ver >= 1
  <2>1. AloneInv
    BY <1>1 DEF AloneInv
  <2>2. call[Tester].op = "get"
    BY <1>1, <1>2, InCall, ProcsFacts
  <2> QED
    BY <2>1, <2>2, AllTimely, ProcsFacts DEF Timely
<1>6. Err(Tester) = "OK"
  <2>1. call[Tester].reply.err = "OK"
    BY <1>2, <1>4, <1>5
  <2> QED
    BY <2>1 DEF Err
<1>7. fn = "put" => CheckPutConcurrent(call[Tester].reply.ver)
  BY <1>1, <1>4, PutsAccepted
<1>8. fn # "put" => CheckAppends(call[Tester].reply.val, call[Tester].reply.ver)
  <2>1. SUFFICES ASSUME fn # "put" PROVE CheckAppends(call[Tester].reply.val, call[Tester].reply.ver)
    OBVIOUS
  <2>2. fn = "append"
    BY <1>1, <1>2, <2>1 DEF TypeOK
  <2>3. AppendState
    BY <2>2, AppendInvParts
  <2>4. PICK es, v : es = call[Tester].reply.val /\ v = call[Tester].reply.ver
    OBVIOUS
  <2>5. CheckAppends(es, v)
    BY <1>2, <1>3, <1>4, <2>3, <2>4, AppendsAccepted
  <2> QED
    BY <2>4, <2>5
<1>9. ~ (CheckPorcupine /\ verdict' = "illegal")
  <2>1. ASSUME NEW q \in Procs PROVE call'[q].op = "none"
    <3>1. CASE q = Tester
      BY <1>1, <3>1, NoCallFacts
    <3>2. CASE q \in Clients
      <4>1. call[q].op = "none"
        BY <1>2, <1>3, <3>2, InCall, ProcsFacts
      <4>2. call'[q] = call[q]
        BY <1>1, <3>2, ProcsFacts DEF Ends, NewCall
      <4> QED
        BY <4>1, <4>2
    <3> QED
      BY <3>1, <3>2, ProcsFacts
  <2>2. forgot' = "never"
    BY <1>1 DEF Ends
  <2>3. Linearizable(oplog')
    BY <2>1, <2>2, QuietLinearizable
  <2> QED
    BY <2>3, PorcupineOk
<1> QED
  BY <1>1, <1>6, <1>7, <1>8, <1>9 DEF Moves

\* porcupine accepts the log of a tester that was alone.
LEMMA EndAccepts ==
    ASSUME Basic, TypeOK', Times', Linearized', AtLeastOnceEnd, forgot = "never"
    PROVE  pc'[Tester] # "fatal"
<1>1. /\ Still /\ pc[Tester] = "start" /\ fn = "atleastonce" /\ CheckPorcupine
      /\ Moves(Tester, "passed") \/ (Moves(Tester, "fatal") /\ verdict' = "illegal")
  BY AtLeastOnceEndBasic
<1>2. ASSUME NEW q \in Procs PROVE call'[q].op = "none"
  BY <1>1, AloneCaller DEF Basic, Still
<1>3. Linearizable(oplog')
  BY <1>1, <1>2, QuietLinearizable DEF Still
<1> QED
  BY <1>1, <1>3, PorcupineOk DEF Moves

-----------------------------------------------------------------------------
(* Every step keeps the invariant *)

\* The invariant by its parts: those every kind of test has, and those of each kind.
LEMMA InvParts ==
    Inv <=> Basic /\ Common /\ AppendInv /\ PutInv /\ AloneInv /\ NoFalseAlarm
  BY DEF Inv, Basic, Common

LEMMA InvPartsNext ==
    TypeOK' /\ Phases' /\ Common' /\ AppendInv' /\ PutInv' /\ AloneInv' /\ NoFalseAlarm' => Inv'
  BY DEF Inv, Common

\* Nothing is said of the kinds of test that are not run.
LEMMA OtherKinds ==
    /\ fn' # "append" => AppendInv'
    /\ fn' # "put" => PutInv'
    /\ fn' # "atleastonce" => AloneInv'
  BY DEF AppendInv, PutInv, AloneInv

\* Each action: its effect on the calls, then the part of every kind, then that of its own kind.
LEMMA TakeDoneKeeps ==
    ASSUME Inv, NEW c \in Clients, TakeDone(c)
    PROVE  Inv'
<1>1. Basic /\ Common /\ AppendInv /\ PutInv /\ NoFalseAlarm /\ TypeOK
  BY InvParts DEF Basic
<1>2. /\ TypeOK' /\ Phases' /\ Still /\ Moves(c, "result") /\ fn # "atleastonce" /\ fn' = fn
      /\ pc[Tester] = "signal"
  BY <1>1, TakeDoneBasic DEF params
<1>3. /\ pc'[Tester] # "get" /\ pc'[c] # "fatal" /\ forgot' = forgot /\ c \in Procs
      /\ \A q \in Procs \ {c} : pc'[q] = pc[q]
  BY <1>2, ProcsFacts DEF Moves, Still
<1>4. Common' /\ AppendInv' /\ PutInv'
  BY <1>1, <1>2, <1>3, StillCommon, AppendTakeDone, PutTakeDone
<1>5. NoFalseAlarm'
  BY <1>1, <1>3, NoAlarm
<1> QED
  BY <1>2, <1>4, <1>5, OtherKinds, InvPartsNext

LEMMA AppendIterKeeps ==
    ASSUME Inv, NEW c \in Clients, AppendIter(c)
    PROVE  Inv'
<1>1. Basic /\ Common /\ AppendInv /\ NoFalseAlarm /\ TypeOK /\ Phases
  BY InvParts DEF Basic
<1>2. /\ TypeOK' /\ Phases' /\ Begins(c) /\ Moves(c, "get") /\ fn = "append" /\ fn' = fn
      /\ pc[c] = "head"
  BY <1>1, AppendIterBasic DEF params
<1>3. /\ pc'[Tester] # "get" /\ pc'[c] # "fatal" /\ forgot' = forgot /\ c \in Procs
      /\ \A q \in Procs \ {c} : pc'[q] = pc[q]
  BY <1>1, <1>2, ClientRuns, ProcsFacts DEF Moves, Begins
<1>4. Common' /\ AppendInv'
  BY <1>1, <1>2, <1>3, BeginsCommon, AppendAppendIter
<1>5. NoFalseAlarm'
  BY <1>1, <1>3, NoAlarm
<1> QED
  BY <1>2, <1>4, <1>5, OtherKinds, InvPartsNext

LEMMA AppendGotKeeps ==
    ASSUME Inv, NEW c \in Clients, AppendGot(c)
    PROVE  Inv'
<1>1. Basic /\ Common /\ AppendInv /\ NoFalseAlarm /\ TypeOK /\ Phases
  BY InvParts DEF Basic
<1>2. /\ TypeOK' /\ Phases' /\ Ends(c) /\ Moves(c, "put") /\ fn = "append" /\ fn' = fn
      /\ pc[c] = "get"
  BY <1>1, AppendGotBasic DEF params
<1>3. /\ pc'[Tester] # "get" /\ pc'[c] # "fatal" /\ forgot' = forgot /\ c \in Procs
      /\ \A q \in Procs \ {c} : pc'[q] = pc[q]
  BY <1>1, <1>2, ClientRuns, ProcsFacts DEF Moves, Ends
<1>4. Common' /\ AppendInv'
  BY <1>1, <1>2, <1>3, EndsCommon, AppendAppendGot
<1>5. NoFalseAlarm'
  BY <1>1, <1>3, NoAlarm
<1> QED
  BY <1>2, <1>4, <1>5, OtherKinds, InvPartsNext

LEMMA AppendPutKeeps ==
    ASSUME Inv, NEW c \in Clients, AppendPut(c)
    PROVE  Inv'
<1>1. Basic /\ Common /\ Answers /\ AppendInv /\ NoFalseAlarm /\ TypeOK /\ Phases
  BY InvParts DEF Basic, Common
<1>2. /\ TypeOK' /\ Phases' /\ Ends(c) /\ fn = "append" /\ fn' = fn /\ pc[c] = "put"
      /\ Moves(c, "head") \/ Moves(c, "get")
  BY <1>1, AppendPutBasic DEF params
<1>3. /\ pc'[Tester] # "get" /\ pc'[c] # "fatal" /\ forgot' = forgot /\ c \in Procs
      /\ \A q \in Procs \ {c} : pc'[q] = pc[q]
  BY <1>1, <1>2, ClientRuns, ProcsFacts DEF Moves, Ends
<1>4. Common' /\ AppendInv'
  BY <1>1, <1>2, <1>3, EndsCommon, AppendAppendPut
<1>5. NoFalseAlarm'
  BY <1>1, <1>3, NoAlarm
<1> QED
  BY <1>2, <1>4, <1>5, OtherKinds, InvPartsNext

LEMMA PutIterKeeps ==
    ASSUME Inv, NEW c \in Clients, PutIter(c)
    PROVE  Inv'
<1>1. Basic /\ Common /\ PutInv /\ NoFalseAlarm /\ TypeOK /\ Phases
  BY InvParts DEF Basic
<1>2. /\ TypeOK' /\ Phases' /\ Begins(c) /\ Moves(c, "put") /\ fn = "put" /\ fn' = fn
      /\ pc[c] = "head"
  BY <1>1, PutIterBasic DEF params
<1>3. /\ pc'[Tester] # "get" /\ pc'[c] # "fatal" /\ forgot' = forgot /\ c \in Procs
      /\ \A q \in Procs \ {c} : pc'[q] = pc[q]
  BY <1>1, <1>2, ClientRuns, ProcsFacts DEF Moves, Begins
<1>4. Common' /\ PutInv'
  BY <1>1, <1>2, <1>3, BeginsCommon, PutPutIter
<1>5. NoFalseAlarm'
  BY <1>1, <1>3, NoAlarm
<1> QED
  BY <1>2, <1>4, <1>5, OtherKinds, InvPartsNext

LEMMA PutPutKeeps ==
    ASSUME Inv, NEW c \in Clients, PutPut(c)
    PROVE  Inv'
<1>1. Basic /\ Common /\ Answers /\ PutInv /\ NoFalseAlarm /\ TypeOK /\ Phases
  BY InvParts DEF Basic, Common
<1>2. TypeOK' /\ Phases' /\ Ends(c) /\ fn = "put" /\ fn' = fn /\ pc[c] = "put"
  BY <1>1, PutPutBasic DEF params
<1>3. PutInv' /\ Moves(c, "get")
  BY <1>1, PutPutPut
<1>4. /\ pc'[Tester] # "get" /\ pc'[c] # "fatal" /\ forgot' = forgot /\ c \in Procs
      /\ \A q \in Procs \ {c} : pc'[q] = pc[q]
  BY <1>1, <1>2, <1>3, ClientRuns, ProcsFacts DEF Moves, Ends
<1>5. Common'
  BY <1>1, <1>2, <1>4, EndsCommon
<1>6. NoFalseAlarm'
  BY <1>1, <1>4, NoAlarm
<1> QED
  BY <1>2, <1>3, <1>5, <1>6, OtherKinds, InvPartsNext

LEMMA PutGotKeeps ==
    ASSUME Inv, NEW c \in Clients, PutGot(c)
    PROVE  Inv'
<1>1. Basic /\ Common /\ PutInv /\ NoFalseAlarm /\ TypeOK /\ Phases
  BY InvParts DEF Basic
<1>2. /\ TypeOK' /\ Phases' /\ Ends(c) /\ fn = "put" /\ fn' = fn /\ pc[c] = "get"
      /\ \A q \in Procs \ {c} : pc'[q] = pc[q]
  BY <1>1, PutGotBasic DEF params, Moves
<1>3. PutInv' /\ (forgot # "once" => pc'[c] # "fatal")
  BY <1>1, PutPutGot
<1>4. pc'[Tester] # "get" /\ forgot' = forgot /\ c \in Procs
  BY <1>1, <1>2, ClientRuns, ProcsFacts DEF Ends
<1>5. Common'
  BY <1>1, <1>2, <1>4, EndsCommon
<1>6. NoFalseAlarm'
  BY <1>1, <1>2, <1>3, <1>4, NoAlarm
<1> QED
  BY <1>2, <1>3, <1>5, <1>6, OtherKinds, InvPartsNext

LEMMA SignalKeeps ==
    ASSUME Inv, Signal
    PROVE  Inv'
<1>1. Basic /\ Common /\ AppendInv /\ PutInv /\ NoFalseAlarm /\ TypeOK /\ Phases
  BY InvParts DEF Basic
<1>2. TypeOK' /\ Phases' /\ Still /\ Moves(Tester, "signal") /\ fn' = fn /\ pc[Tester] = "sleep"
  BY <1>1, SignalBasic DEF params
<1>3. /\ pc'[Tester] = "signal" /\ forgot' = forgot /\ fn # "atleastonce"
      /\ \A q \in Procs \ {Tester} : pc'[q] = pc[q]
  BY <1>1, <1>2 DEF Moves, Still, Phases
<1>4. Common' /\ AppendInv' /\ PutInv'
  BY <1>1, <1>2, <1>3, StillCommon, AppendSignal, PutSignal
<1>5. NoFalseAlarm'
  BY <1>1, <1>3, NoAlarm, ProcsFacts
<1> QED
  BY <1>2, <1>3, <1>4, <1>5, OtherKinds, InvPartsNext

LEMMA CollectKeeps ==
    ASSUME Inv, Collect
    PROVE  Inv'
<1>1. Basic /\ Common /\ AppendInv /\ PutInv /\ TypeOK
  BY InvParts DEF Basic
<1>2. /\ TypeOK' /\ Phases' /\ Begins(Tester) /\ fn # "atleastonce" /\ fn' = fn
      /\ pc'[Tester] = "get" /\ (\A c \in Clients : pc'[c] = "end")
      /\ call'[Tester].start = Cardinality(oplog')
  BY <1>1, CollectBasic DEF params
<1>3. Common' /\ AppendInv' /\ PutInv'
  BY <1>1, <1>2, BeginsCommon, AppendCollect, PutCollect, ProcsFacts
<1>4. NoFalseAlarm'
  BY <1>2, ProcsFacts DEF NoFalseAlarm
<1> QED
  BY <1>2, <1>3, <1>4, OtherKinds, InvPartsNext

LEMMA CheckKeeps ==
    ASSUME Inv, Check
    PROVE  Inv'
<1>1. /\ Basic /\ Common /\ TesterReads /\ AppendInv /\ PutInv /\ NoFalseAlarm /\ TypeOK
  BY InvParts DEF Basic, Common
<1>2. /\ TypeOK' /\ Phases' /\ Ends(Tester) /\ fn # "atleastonce" /\ fn' = fn
      /\ Moves(Tester, "passed") \/ Moves(Tester, "fatal")
  BY <1>1, CheckBasic DEF params
<1>3. /\ pc'[Tester] # "get" /\ forgot' = forgot /\ \A q \in Procs \ {Tester} : pc'[q] = pc[q]
  BY <1>2 DEF Moves, Ends
<1>4. Common' /\ Times' /\ Linearized'
  BY <1>1, <1>2, <1>3, EndsCommon, ProcsFacts DEF Common
<1>5. AppendInv' /\ PutInv'
  BY <1>1, <1>4, AppendCheck, PutCheck
<1>6. forgot = "never" => pc'[Tester] # "fatal"
  BY <1>1, <1>2, <1>4, CheckAccepts
<1>7. NoFalseAlarm'
  BY <1>1, <1>3, <1>6, NoAlarm, ProcsFacts
<1> QED
  BY <1>2, <1>4, <1>5, <1>7, OtherKinds, InvPartsNext

LEMMA NextRoundKeeps ==
    ASSUME Inv, NextRound
    PROVE  Inv'
<1>1. Basic /\ Common /\ PutInv /\ TypeOK
  BY InvParts DEF Basic
<1>2. /\ TypeOK' /\ Phases' /\ Still /\ fn = "put" /\ fn' = fn
      /\ pc'[Tester] = "sleep" /\ (\A c \in Clients : pc'[c] = "head")
  BY <1>1, NextRoundBasic DEF params
<1>3. Common' /\ PutInv'
  BY <1>1, <1>2, StillCommon, PutNextRound
<1>4. NoFalseAlarm'
  BY <1>2, ProcsFacts DEF NoFalseAlarm
<1> QED
  BY <1>2, <1>3, <1>4, OtherKinds, InvPartsNext

LEMMA AtLeastOncePutKeeps ==
    ASSUME Inv, AtLeastOncePut
    PROVE  Inv'
<1>1. Basic /\ Common /\ AloneInv /\ NoFalseAlarm /\ TypeOK
  BY InvParts DEF Basic
<1>2. TypeOK' /\ Phases' /\ Begins(Tester) /\ Moves(Tester, "put") /\ fn = "atleastonce" /\ fn' = fn
  BY <1>1, AtLeastOncePutBasic DEF params
<1>3. pc'[Tester] = "put" /\ forgot' = forgot /\ \A q \in Procs \ {Tester} : pc'[q] = pc[q]
  BY <1>2 DEF Moves, Begins
<1>4. Common' /\ AloneInv'
  BY <1>1, <1>2, <1>3, BeginsCommon, AloneAtLeastOncePut, ProcsFacts
<1>5. NoFalseAlarm'
  BY <1>1, <1>3, NoAlarm, ProcsFacts
<1> QED
  BY <1>2, <1>4, <1>5, OtherKinds, InvPartsNext

LEMMA AtLeastOncePutDoneKeeps ==
    ASSUME Inv, AtLeastOncePutDone
    PROVE  Inv'
<1>1. Basic /\ Common /\ Answers /\ AloneInv /\ NoFalseAlarm /\ TypeOK
  BY InvParts DEF Basic, Common
<1>2. /\ TypeOK' /\ Phases' /\ Ends(Tester) /\ fn = "atleastonce" /\ fn' = fn
      /\ \A q \in Procs \ {Tester} : pc'[q] = pc[q]
  BY <1>1, AtLeastOncePutDoneBasic DEF params, Moves
<1>3. AloneInv' /\ pc'[Tester] # "fatal" /\ forgot' = forgot
  BY <1>1, <1>2, AloneAtLeastOncePutDone DEF Ends
<1>4. Common'
  BY <1>1, <1>2, EndsCommon, ProcsFacts
<1>5. NoFalseAlarm'
  BY <1>1, <1>2, <1>3, NoAlarm, ProcsFacts
<1> QED
  BY <1>2, <1>3, <1>4, <1>5, OtherKinds, InvPartsNext

LEMMA CheckGetKeeps ==
    ASSUME Inv, CheckGet
    PROVE  Inv'
<1>1. Basic /\ Common /\ TesterReads /\ AloneInv /\ NoFalseAlarm /\ TypeOK
  BY InvParts DEF Basic, Common
<1>2. /\ TypeOK' /\ Phases' /\ Ends(Tester) /\ fn = "atleastonce" /\ fn' = fn
      /\ \A q \in Procs \ {Tester} : pc'[q] = pc[q]
  BY <1>1, CheckGetBasic DEF params, Moves
<1>3. AloneInv' /\ (forgot # "once" => pc'[Tester] # "fatal") /\ forgot' = forgot
  BY <1>1, <1>2, AloneCheckGet DEF Ends
<1>4. Common'
  BY <1>1, <1>2, EndsCommon, ProcsFacts
<1>5. NoFalseAlarm'
  BY <1>1, <1>2, <1>3, NoAlarm, ProcsFacts
<1> QED
  BY <1>2, <1>3, <1>4, <1>5, OtherKinds, InvPartsNext

LEMMA AtLeastOnceEndKeeps ==
    ASSUME Inv, AtLeastOnceEnd
    PROVE  Inv'
<1>1. Basic /\ Common /\ AloneInv /\ NoFalseAlarm /\ TypeOK
  BY InvParts DEF Basic
<1>2. /\ TypeOK' /\ Phases' /\ Still /\ fn = "atleastonce" /\ fn' = fn
      /\ Moves(Tester, "passed") \/ Moves(Tester, "fatal")
  BY <1>1, AtLeastOnceEndBasic DEF params
<1>3. /\ pc'[Tester] # "get" /\ forgot' = forgot /\ \A q \in Procs \ {Tester} : pc'[q] = pc[q]
  BY <1>2 DEF Moves, Still
<1>4. Common' /\ Times' /\ Linearized' /\ AloneInv'
  BY <1>1, <1>2, <1>3, StillCommon, AloneAtLeastOnceEnd DEF Common
<1>5. forgot = "never" => pc'[Tester] # "fatal"
  BY <1>1, <1>2, <1>4, EndAccepts
<1>6. NoFalseAlarm'
  BY <1>1, <1>3, <1>5, NoAlarm, ProcsFacts
<1> QED
  BY <1>2, <1>4, <1>6, OtherKinds, InvPartsNext

LEMMA ServeKeeps ==
    ASSUME Inv, NEW p \in Procs, Serve(p)
    PROVE  Inv'
<1>1. Basic /\ Common /\ AppendInv /\ PutInv /\ AloneInv /\ NoFalseAlarm /\ TypeOK /\ Phases
  BY InvParts DEF Basic
<1>2. /\ SameCall(p) /\ pc' = pc
      /\ Reads(p) \/ Executes(p) \/ Forgets(p) \/ Refuses(p)
  BY <1>1, ServeCases
<1>3. forgot' = "never" => forgot = "never"
  BY <1>2 DEF Reads, Executes, Forgets, Refuses
<1>4. Timely(p)
  BY <1>1, <1>2, AllTimely DEF SameCall
<1>5. TypeOK' /\ Phases' /\ Common' /\ AppendInv' /\ PutInv' /\ AloneInv'
  BY <1>1, <1>4, ServeBasic, ServeCommon, AppendServe, PutServe, AloneServe
<1>6. NoFalseAlarm'
  BY <1>1, <1>2, <1>3 DEF NoFalseAlarm
<1> QED
  BY <1>5, <1>6, InvPartsNext

LEMMA LoseKeeps ==
    ASSUME Inv, NEW p \in Procs, Lose(p)
    PROVE  Inv'
<1>1. /\ Basic /\ Common /\ Acked /\ AppendInv /\ PutInv /\ AloneInv /\ NoFalseAlarm /\ TypeOK
      /\ Phases
  BY InvParts DEF Basic, Common
<1>2. TypeOK' /\ Phases' /\ Common' /\ AppendInv' /\ PutInv' /\ AloneInv'
  BY <1>1, LoseBasic, LoseCommon, AppendServe, PutLose, AloneLose
<1>3. NoFalseAlarm'
  BY <1>1, LoseFacts DEF NoFalseAlarm, service
<1> QED
  BY <1>2, <1>3, InvPartsNext

-----------------------------------------------------------------------------
(* The initial state, and the theorems *)

\* A step that changes nothing.
LEMMA Stutters ==
    ASSUME Inv, UNCHANGED vars
    PROVE  Inv'
<1>1. /\ UNCHANGED <<fn, reliable, forgot, kv, pc, call, iter, ver, err, res, total, round>>
      /\ UNCHANGED <<oplog, verdict>>
  BY DEF vars, params, service, local, tester
<1>2. TypeOK' /\ Phases' /\ NoFalseAlarm'
  BY <1>1 DEF Inv, TypeOK, Phases, NoFalseAlarm
<1>3. Times' /\ TesterReads' /\ Answers'
  BY <1>1 DEF Inv, Times, TesterReads, Answers
<1>4. Acked'
  BY <1>1 DEF Inv, Acked, AckedPuts, AckedCall
<1>5. Linearized'
  BY <1>1 DEF Inv, Linearized
<1>6. AppendInv'
  <2>1. AppendList' /\ AppendCalls' <=> AppendList /\ AppendCalls
    BY <1>1 DEF AppendList, ListRead, AppendCalls, AppendCall
  <2>2. EntriesInOrder' /\ AppendCount' <=> EntriesInOrder /\ AppendCount
    BY <1>1 DEF EntriesInOrder, InOrder, AppendCount, Enough, AckedCall, Mine
  <2>3. AppendLog' /\ AppendPassed' <=> AppendLog /\ AppendPassed
    BY <1>1 DEF AppendLog, AppendPassed, AckedPuts
  <2> QED
    BY <1>1, <2>1, <2>2, <2>3 DEF Inv, AppendInv
<1>7. PutInv'
  <2>1. PutCalls' /\ PutReads' <=> PutCalls /\ PutReads
    BY <1>1 DEF PutCalls, PutCall, PutReads, PutRead, AckedCall, OwnValue
  <2>2. \A c \in Clients : Weight(c)' = Weight(c)
    BY <1>1 DEF Weight, Uncounted, AckedCall
  <2>3. Weights' = Weights
    BY <2>2 DEF Weights
  <2>4. PutCount' <=> PutCount
    BY <1>1, <2>3 DEF PutCount, NoFatal, Executed, AllCounted
  <2> QED
    BY <1>1, <2>1, <2>4 DEF Inv, PutInv
<1>8. AloneInv'
  BY <1>1 DEF Inv, AloneInv
<1> QED
  BY <1>2, <1>3, <1>4, <1>5, <1>6, <1>7, <1>8 DEF Inv

\* Where everyone is at the start.
LEMMA InitState ==
    ASSUME Init
    PROVE  /\ \A p \in Procs : call[p] = NoCall
           /\ \A c \in Clients : pc[c] = "head" /\ iter[c] = 0 /\ err[c] = "none" /\ res[c] = NoRes
           /\ \A p \in Procs : ver[p] = 0
           /\ pc[Tester] = IF fn = "atleastonce" THEN "start" ELSE "sleep"
           /\ total = NoRes /\ round = 1 /\ verdict = "none"
           /\ forgot \in {"never", "not yet"} /\ (forgot # "never" => reliable)
           /\ fn \in {"append", "put", "atleastonce"}
  BY ProcsFacts DEF Init

LEMMA FirstPutOp == FirstPut \in Ops /\ FirstPut.start = 0 /\ FirstPut.end = 1
<1>1. <<>> \in Vals /\ None \in Vals
  BY DEF Vals
<1> QED
  BY <1>1 DEF FirstPut, Ops, Errs

LEMMA InitTyped ==
    ASSUME Init
    PROVE  TypeOK
<1>1. kv \in States
  <2>1. <<>> \in Vals /\ None \in Vals
    BY DEF Vals
  <2>2. [val |-> <<>>, ver |-> 1] \in States /\ [val |-> None, ver |-> 0] \in States
    BY <2>1 DEF States
  <2> QED
    BY <2>2 DEF Init
<1>2. oplog \subseteq Ops
  BY FirstPutOp DEF Init, FirstPut
<1>3. pc \in [Procs -> Places]
  BY DEF Init, Places
<1>4. call \in [Procs -> CallRecs]
  BY NoCallFacts DEF Init
<1>5. NoRes \in Results
  BY DEF NoRes, Results
<1>6. res \in [Clients -> Results] /\ total \in Results
  BY <1>5 DEF Init
<1>7. iter \in [Clients -> Nat] /\ ver \in [Procs -> Nat] /\ err \in [Clients -> Errs] /\ round \in Nat
  BY DEF Init, Errs
<1> QED
  BY <1>1, <1>2, <1>3, <1>4, <1>6, <1>7, InitState DEF TypeOK, Init

\* The parts of every kind hold at the start.
LEMMA InitBasic ==
    ASSUME Init
    PROVE  Basic /\ TesterReads /\ Answers /\ Acked
<1>1. TypeOK
  BY InitTyped
<1>2. Phases
  BY InitState, NoCallFacts, ProcsFacts DEF Phases
<1>3. pc[Tester] # "get" /\ \A p \in Procs : call[p] = NoCall
  BY InitState
<1>4. Times
  <2>1. CASE fn = "append"
    <3>1. oplog = {FirstPut}
      BY <2>1 DEF Init, FirstPut
    <3>2. IsFiniteSet(oplog) /\ Cardinality(oplog) = 1
      BY <3>1, FS_Singleton
    <3> QED
      BY <1>3, <3>1, <3>2, FirstPutOp, NoCallFacts DEF Times
  <2>2. CASE fn # "append"
    <3>1. oplog = {}
      BY <2>2 DEF Init
    <3>2. IsFiniteSet(oplog) /\ Cardinality(oplog) = 0
      BY <3>1, FS_EmptySet
    <3> QED
      BY <1>3, <3>1, <3>2, NoCallFacts DEF Times
  <2> QED
    BY <2>1, <2>2
<1>5. TesterReads /\ Answers
  BY <1>3, NoCallFacts DEF TesterReads, Answers
<1>6. Acked
  <2>1. \A p \in Procs : ~ AckedCall(p)
    BY <1>3, NoCallFacts DEF AckedCall
  <2>2. CASE fn = "append"
    <3>1. oplog = {FirstPut} /\ kv.ver = 1
      BY <2>2 DEF Init, FirstPut
    <3>2. FirstPut.ver = 0
      BY DEF FirstPut
    <3> QED
      BY <2>1, <3>1, <3>2 DEF Acked, AckedPuts
  <2>3. CASE fn # "append"
    <3>1. AckedPuts = {}
      BY <2>3 DEF Init, AckedPuts
    <3> QED
      BY <2>1, <3>1 DEF Acked
  <2> QED
    BY <2>2, <2>3
<1> QED
  BY <1>1, <1>2, <1>4, <1>5, <1>6 DEF Basic

\* No call has been executed, or the one that has put the empty list.
LEMMA OrderedNothing ==
    ASSUME NEW cl, \A p \in Procs : cl[p] = NoCall
    PROVE  Ordered({}, cl, KvInit)
<1>1. PICK L, at, st : L = [k \in 1..0 |-> FirstPut] /\ at = [p \in Procs |-> 0]
                       /\ st = [k \in 0..0 |-> KvInit]
  OBVIOUS
<1>2. KvInit \in States
  BY DEF KvInit, States, Vals
<1>3. Runs(0, L, st, KvInit)
  <2>1. L \in [1..0 -> Ops] /\ st \in [0..0 -> States] /\ st[0] = KvInit
    BY <1>1, <1>2
  <2> QED
    BY <2>1 DEF Runs
<1>4. Placed(0, at)
  BY <1>1 DEF Placed
<1>5. Logged(0, L, at, {})
  BY DEF Logged
<1>6. \A p \in Procs : Waiting(cl[p], at[p], L, st, KvInit)
  BY <1>1, NoCallFacts DEF Waiting
<1>7. Explains(0, L, at, st, {}, cl, KvInit)
  BY <1>3, <1>4, <1>5, <1>6 DEF Explains
<1> QED
  BY <1>7 DEF Ordered

LEMMA OrderedFirst ==
    ASSUME NEW cl, \A p \in Procs : cl[p] = NoCall, NEW s, s = [val |-> <<>>, ver |-> 1]
    PROVE  Ordered({FirstPut}, cl, s)
<1>1. PICK L, at, st : L = [k \in 1..1 |-> FirstPut] /\ at = [p \in Procs |-> 0]
                       /\ st = [k \in 0..1 |-> IF k = 0 THEN KvInit ELSE s]
  OBVIOUS
<1>2. KvInit \in States /\ s \in States
  BY DEF KvInit, States, Vals
<1>3. Step(KvInit, FirstPut) = [ok |-> TRUE, state |-> s]
  <2>1. /\ FirstPut.op = "put" /\ FirstPut.val = <<>> /\ FirstPut.ver = 0 /\ FirstPut.err = "OK"
        /\ KvInit.ver = 0
    BY DEF FirstPut, KvInit
  <2>2. Step(KvInit, FirstPut)
            = [ok |-> "OK" \in {"OK", "ErrMaybe"}, state |-> [val |-> <<>>, ver |-> 0 + 1]]
    BY <2>1 DEF Step
  <2>3. ("OK" \in {"OK", "ErrMaybe"}) = TRUE /\ 0 + 1 = 1
    OBVIOUS
  <2> QED
    BY <2>2, <2>3
<1>4. Runs(1, L, st, s)
  <2>1. L \in [1..1 -> Ops] /\ st \in [0..1 -> States] /\ st[0] = KvInit /\ st[1] = s /\ L[1] = FirstPut
    BY <1>1, <1>2, FirstPutOp
  <2>2. \A k \in 1..1 : k = 1 /\ k - 1 = 0
    OBVIOUS
  <2> QED
    BY <1>3, <2>1, <2>2 DEF Runs
<1>5. Placed(1, at)
  BY <1>1 DEF Placed
<1>6. Logged(1, L, at, {FirstPut})
  <2>1. \A k \in 1..1 : k = 1 /\ L[k] = FirstPut /\ Free(at, k)
    BY <1>1 DEF Free
  <2> QED
    BY <2>1, FirstPutOp DEF Logged
<1>7. \A p \in Procs : Waiting(cl[p], at[p], L, st, s)
  BY <1>1, NoCallFacts DEF Waiting
<1>8. Explains(1, L, at, st, {FirstPut}, cl, s)
  BY <1>4, <1>5, <1>6, <1>7 DEF Explains
<1> QED
  BY <1>8 DEF Ordered

\* At the start no call has been executed, or one that is in the log.
LEMMA InitLinearized ==
    ASSUME Init
    PROVE  Linearized
<1>1. PICK cl, s : cl = call /\ s = kv
  OBVIOUS
<1>2. \A p \in Procs : cl[p] = NoCall
  BY <1>1, InitState
<1>3. CASE fn = "append"
  <2>1. oplog = {FirstPut} /\ s = [val |-> <<>>, ver |-> 1]
    BY <1>1, <1>3 DEF Init, FirstPut
  <2> QED
    BY <1>1, <1>2, <2>1, OrderedFirst DEF Linearized
<1>4. CASE fn # "append"
  <2>1. oplog = {} /\ kv = KvInit
    BY <1>4 DEF Init, KvInit
  <2> QED
    BY <1>1, <1>2, <2>1, OrderedNothing DEF Linearized
<1> QED
  BY <1>3, <1>4

LEMMA InitAppend ==
    ASSUME Init
    PROVE  AppendInv
<1>1. SUFFICES ASSUME fn = "append" PROVE AppendInv
  BY DEF AppendInv
<1>2. /\ kv.val = <<>> /\ kv.ver = 1 /\ oplog = {FirstPut} /\ pc[Tester] = "sleep"
      /\ (\A p \in Procs : call[p] = NoCall /\ pc[p] \notin {"get", "put", "passed"})
      /\ (\A c \in Clients : iter[c] = 0 /\ res[c].nok = 0 /\ res[c].nmaybe = 0)
  <2>1. kv = [val |-> <<>>, ver |-> 1] /\ oplog = {FirstPut}
    BY <1>1 DEF Init, FirstPut
  <2>2. NoRes.nok = 0 /\ NoRes.nmaybe = 0
    BY DEF NoRes
  <2> QED
    BY <1>1, <2>1, <2>2, InitState, ProcsFacts
<1>3. AppendList
  BY <1>2 DEF AppendList, ListRead
<1>4. AppendCalls
  BY <1>2, ProcsFacts DEF AppendCalls, AppendCall
<1>5. \A c \in Clients : Mine(c) = {}
  BY <1>2 DEF Mine
<1>6. EntriesInOrder
  BY <1>2, <1>5 DEF EntriesInOrder, InOrder
<1>7. AppendCount
  <2>1. ASSUME NEW c \in Clients PROVE Enough(c)
    <3>1. ~ AckedCall(c)
      BY <1>2, NoCallFacts, ProcsFacts DEF AckedCall
    <3>2. Cardinality(Mine(c)) = 0
      BY <1>5, FS_EmptySet
    <3> QED
      BY <1>2, <3>1, <3>2 DEF Enough
  <2> QED
    BY <2>1 DEF AppendCount
<1>8. AppendLog
  <2>1. FirstPut.op = "put"
    BY DEF FirstPut
  <2> QED
    BY <1>2, <2>1 DEF AppendLog
<1>9. AppendPassed
  BY <1>2 DEF AppendPassed
<1> QED
  BY <1>3, <1>4, <1>6, <1>7, <1>8, <1>9 DEF AppendInv

LEMMA InitPut ==
    ASSUME Init
    PROVE  PutInv
<1>1. SUFFICES ASSUME fn = "put" PROVE PutInv
  BY DEF PutInv
<1>2. /\ kv.ver = 0 /\ pc[Tester] = "sleep" /\ forgot # "once"
      /\ (\A p \in Procs : call[p] = NoCall /\ pc[p] \notin {"get", "put", "passed"} /\ ver[p] = 0)
      /\ (\A c \in Clients : iter[c] = 0 /\ res[c].nok = 0 /\ res[c].nmaybe = 0)
      /\ total.nok = 0 /\ total.nmaybe = 0
  <2>1. kv.ver = 0
    BY <1>1 DEF Init
  <2>2. NoRes.nok = 0 /\ NoRes.nmaybe = 0
    BY DEF NoRes
  <2> QED
    BY <1>1, <2>1, <2>2, InitState, ProcsFacts
<1>3. \A c \in Clients : ~ AckedCall(c)
  BY <1>2, NoCallFacts, ProcsFacts DEF AckedCall
<1>4. PutCalls
  BY <1>2, ProcsFacts DEF PutCalls, PutCall
<1>5. PutReads
  BY <1>2, <1>3, ProcsFacts DEF PutReads, PutRead
<1>6. PutCount
  <2>1. \A c \in Clients : Weight(c) = 0
    BY <1>2, <1>3, ProcsFacts DEF Weight, Uncounted
  <2>2. PICK f : f = Weights
    OBVIOUS
  <2>3. f \in [Clients -> Nat] /\ \A c \in Clients : f[c] = 0
    BY <2>1, <2>2 DEF Weights
  <2>4. Sum(f) = 0
    BY <2>3, SumZero
  <2>5. AllCounted = 0
    BY <1>2, <2>2, <2>4 DEF AllCounted
  <2>6. Executed = 0
    BY <1>2 DEF Executed
  <2> QED
    BY <1>2, <2>5, <2>6 DEF PutCount
<1> QED
  BY <1>4, <1>5, <1>6 DEF PutInv

LEMMA InitInv ==
    ASSUME Init
    PROVE  Inv
<1>1. AloneInv
  <2>1. SUFFICES ASSUME fn = "atleastonce" PROVE AloneInv
    BY DEF AloneInv
  <2>2. kv.ver = 0 /\ ver[Tester] = 0 /\ pc[Tester] = "start" /\ forgot # "once"
    BY <2>1, InitState, ProcsFacts DEF Init
  <2> QED
    BY <2>2 DEF AloneInv
<1>2. NoFalseAlarm
  BY InitState, ProcsFacts DEF NoFalseAlarm
<1> QED
  BY <1>1, <1>2, InitBasic, InitLinearized, InitAppend, InitPut DEF Inv, Basic

\* Every step keeps the invariant.
LEMMA InvNext ==
    ASSUME Inv, [Next]_vars
    PROVE  Inv'
<1>1. CASE TesterStep
  BY <1>1, SignalKeeps, CollectKeeps, CheckKeeps, NextRoundKeeps, AtLeastOncePutKeeps,
     AtLeastOncePutDoneKeeps, CheckGetKeeps, AtLeastOnceEndKeeps DEF TesterStep
<1>2. ASSUME NEW c \in Clients, ClientStep(c) PROVE Inv'
  BY <1>2, TakeDoneKeeps, AppendIterKeeps, AppendGotKeeps, AppendPutKeeps, PutIterKeeps,
     PutPutKeeps, PutGotKeeps DEF ClientStep
<1>3. ASSUME NEW p \in Procs, Serve(p) \/ Lose(p) PROVE Inv'
  BY <1>3, ServeKeeps, LoseKeeps
<1>4. CASE UNCHANGED vars
  BY <1>4, Stutters
<1> QED
  BY <1>1, <1>2, <1>3, <1>4 DEF Next

\* The invariant holds throughout.
LEMMA InvAlways == Spec => []Inv
  BY InitInv, InvNext, PTL DEF Spec

\* A service that keeps its promises passes the tests, for any number of clients, iterations,
\* rounds and lost replies: no client finds a value that is not its own, the tester's counts
\* and the list agree with the key, and porcupine has an order to find.
THEOREM NoFalseAlarms == Spec => []NoFalseAlarm
<1>1. Inv => NoFalseAlarm
  BY DEF Inv
<1> QED
  BY <1>1, InvAlways, PTL

\* Each acknowledged Put has a version of its own.
LEMMA OwnVersions ==
    ASSUME NEW S, IsFiniteSet(S), \A o, q \in S : o.ver = q.ver => o = q
    PROVE  Cardinality({o.ver : o \in S}) = Cardinality(S)
<1>1. PICK T, f : T = {o.ver : o \in S} /\ f = [o \in S |-> o.ver]
  OBVIOUS
<1>2. f \in Bijection(S, T)
  BY <1>1 DEF Bijection, Injection, Surjection, IsInjective
<1> QED
  BY <1>1, <1>2, FS_Bijection DEF ExistsBijection

\* No test that passes, with a verdict of porcupine, hides an acknowledged Put that the service
\* has lost: the counts tell it apart in the Put tests, CheckGet where the tester is alone, and
\* porcupine's order of the calls in the append tests.
THEOREM LostPutsAreReported == Spec => []LostPutsReported
<1>1. ASSUME Inv, pc[Tester] = "passed", verdict = "ok"
      PROVE  /\ \A o \in AckedPuts : o.ver < kv.ver
             /\ \A o, q \in AckedPuts : o.ver = q.ver => o = q
             /\ fn = "append" => \A o \in AckedPuts : o.val # <<>> =>
                   \E k \in DOMAIN kv.val : kv.val[k] = o.val[Len(o.val)]
  <2>1. CASE fn = "append"
    BY <1>1, <2>1 DEF Inv, AppendInv, AppendPassed
  <2>2. CASE fn # "append"
    <3>1. forgot # "once"
      BY <1>1, <2>2 DEF Inv, TypeOK, PutInv, PutCount, AloneInv
    <3> QED
      BY <1>1, <2>2, <3>1 DEF Inv, Acked
  <2> QED
    BY <2>1, <2>2
<1>2. ASSUME Inv PROVE LostPutsReported
  <2>1. SUFFICES ASSUME pc[Tester] = "passed", verdict = "ok" PROVE LostPutsReported
    BY DEF LostPutsReported
  <2>2. PICK S : S = AckedPuts
    OBVIOUS
  <2>3. S = {o \in oplog : o.op = "put" /\ o.err = "OK"}
    BY <2>2 DEF AckedPuts
  <2>4. IsFiniteSet(S)
    BY <1>2, <2>3, FS_Subset DEF Inv, Times
  <2>5. Cardinality({o.ver : o \in S}) = Cardinality(S)
    BY <1>1, <1>2, <2>1, <2>2, <2>4, OwnVersions
  <2> QED
    BY <1>1, <1>2, <2>1, <2>2, <2>3, <2>5 DEF LostPutsReported
<1> QED
  BY <1>2, InvAlways, PTL
=============================================================================
