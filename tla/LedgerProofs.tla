--------------------------- MODULE LedgerProofs ---------------------------
(***************************************************************************)
(* Proofs about the file ledger, for any number of processes, events and   *)
(* appends.  The lock theorem holds in every configuration; the others     *)
(* hold when no batch is rolled back (NoRollback), which is how the        *)
(* commands use the ledger.                                                *)
(***************************************************************************)
EXTENDS Ledger, SequenceTheorems, TLAPS

Labels == {"idle", "listing", "reading", "acquire"} \cup Critical

(* The lock invariant: a process that is past the creation of the lock     *)
(* file is alone there, and knows which operation it executes.             *)
LockInv ==
    /\ pc \in [Procs -> Labels]
    /\ op \in [Procs -> Ops \cup {"none"}]
    /\ \A p \in Procs : pc[p] \in {"acquire"} \cup Critical => op[p] \in Ops
    /\ MutualExclusion

LEMMA LockInit == Init => LockInv
BY DEF Init, LockInv, MutualExclusion, Labels, Critical

LEMMA LockStep == LockInv /\ [Next]_vars => LockInv'
<1> SUFFICES ASSUME LockInv, [Next]_vars PROVE LockInv'
  OBVIOUS
<1> USE LedgerAssumption DEF LockInv, MutualExclusion, Labels, Critical, Goto, Return,
        reading, writing
<1>1. CASE UNCHANGED vars
  BY <1>1 DEF vars
<1>2. ASSUME NEW p \in Procs, OpenDir(p) PROVE LockInv'
  BY <1>2 DEF OpenDir
<1>3. ASSUME NEW p \in Procs, EndList(p) PROVE LockInv'
  BY <1>3 DEF EndList
<1>4. ASSUME NEW p \in Procs, ReadEvent(p) PROVE LockInv'
  BY <1>4 DEF ReadEvent
<1>5. ASSUME NEW p \in Procs, EndRead(p) PROVE LockInv'
  BY <1>5 DEF EndRead
<1>6. ASSUME NEW p \in Procs, Call(p) PROVE LockInv'
  BY <1>6 DEF Call
<1>7. ASSUME NEW p \in Procs, TryAcquire(p) PROVE LockInv'
  BY <1>7 DEF TryAcquire
<1>8. ASSUME NEW p \in Procs, AcquireTimeout(p) PROVE LockInv'
  BY <1>8 DEF AcquireTimeout
<1>9. ASSUME NEW p \in Procs, WriteMeta(p) PROVE LockInv'
  BY <1>9 DEF WriteMeta
<1>10. ASSUME NEW p \in Procs, Sequence(p) PROVE LockInv'
  BY <1>10 DEF Sequence
<1>11. ASSUME NEW p \in Procs, WriteTemp(p) PROVE LockInv'
  BY <1>11 DEF WriteTemp
<1>12. ASSUME NEW p \in Procs, Rename(p) PROVE LockInv'
  <2>1. /\ pc[p] = "rename" /\ op' = op /\ lockFile' = lockFile
        /\ pc' = pc \/ pc' = [pc EXCEPT ![p] = "release"]
    BY <1>12 DEF Rename
  <2> QED
    BY <2>1
<1>13. ASSUME NEW p \in Procs, RenameFails(p) PROVE LockInv'
  BY <1>13 DEF RenameFails
<1>14. ASSUME NEW p \in Procs, Rollback(p) PROVE LockInv'
  <2>1. /\ pc[p] = "rollback" /\ op' = op /\ lockFile' = lockFile
        /\ pc' = pc \/ pc' = [pc EXCEPT ![p] = "release"]
    BY <1>14 DEF Rollback
  <2> QED
    BY <2>1
<1>15. ASSUME NEW p \in Procs, Release(p) PROVE LockInv'
  BY <1>15 DEF Release
<1>16. ASSUME NEW p \in Procs, Crash(p) PROVE LockInv'
  BY <1>16 DEF Crash
<1>17. QED
  BY <1>1, <1>2, <1>3, <1>4, <1>5, <1>6, <1>7, <1>8, <1>9, <1>10, <1>11, <1>12, <1>13,
     <1>14, <1>15, <1>16 DEF Next, Load, Acquire, Write

(* At any time at most one process is between the creation of ledger.lock  *)
(* and its removal, whatever crashes or fails: the code never breaks a     *)
(* lock it does not hold.                                                  *)
THEOREM LedgerMutualExclusion == Spec => []MutualExclusion
<1>1. LockInv => MutualExclusion
  BY DEF LockInv
<1>2. QED
  BY LockInit, LockStep, <1>1, PTL DEF Spec

---------------------------------------------------------------------------
(* The log invariant, for ledgers that never roll back.                    *)

(* The directory is a function on 1 .. n, that is, a sequence.             *)
Contiguous == files \in Seq(Events)

(* The locals of an append: a single event unless it is a batch; from the  *)
(* choice of the sequence number to the last rename the next number to be  *)
(* written is the one that follows the last file; what has been renamed is *)
(* in the directory.                                                       *)
WriterInv ==
    \A p \in Procs :
        /\ pc[p] \in {"acquire"} \cup Critical =>
             Len(evs[p]) >= 1 /\ (op[p] # "batch" => Len(evs[p]) = 1)
        /\ pc[p] \in {"temp", "rename"} =>
             /\ start[p] >= 1
             /\ start[p] + renamed[p] = Len(files) + 1
             /\ renamed[p] < Len(evs[p])
             /\ op[p] = "cas" => Len(view[p]) = Len(files)
             /\ \A i \in 1 .. renamed[p] : files[start[p] + i - 1] = evs[p][i]
        /\ pc[p] = "temp" => renamed[p] = 0
        /\ pc[p] = "rollback" => renamed[p] = 0
        /\ pc[p] \in {"acquire", "meta", "sequence", "temp", "rename"} => res[p] = "none"
        /\ pc[p] = "rollback" => res[p] = "error"

LogInv ==
    /\ TypeOK
    /\ LockInv
    /\ Contiguous
    /\ WriterInv
    /\ ViewIsPrefix
    /\ AckedIsLogged

(* The largest number in the directory is the length of the log.           *)
LEMMA NextSequenceIsLength ==
    ASSUME files \in Seq(Events)
    PROVE  NextSequence = Len(files) + 1
<1>1. Len(files) \in Nat /\ DOMAIN files = 1 .. Len(files)
  OBVIOUS
<1> DEFINE S == {0} \cup DOMAIN files
<1>2. Len(files) \in S /\ S \subseteq Nat /\ \A y \in S : Len(files) >= y
  BY <1>1
<1> HIDE DEF S
<1>3. Max(S) \in S /\ \A y \in S : Max(S) >= y
  <2>1. \E x \in S : \A y \in S : x >= y
    BY <1>2
  <2> QED
    BY <2>1 DEF Max
<1>4. Max(S) = Len(files)
  <2>1. Max(S) \in Nat /\ Max(S) >= Len(files) /\ Len(files) >= Max(S)
    BY <1>1, <1>2, <1>3
  <2> QED
    BY <1>1, <2>1
<1>5. QED
  BY <1>4 DEF NextSequence, S

(* Renaming the next event onto its number is an Append to the log.        *)
LEMMA RenameIsAppend ==
    ASSUME NEW f \in Seq(Events), NEW e \in Events, NEW s \in Nat, s = Len(f) + 1
    PROVE  [i \in DOMAIN f \cup {s} |-> IF i = s THEN e ELSE f[i]] = Append(f, e)
<1> DEFINE g == [i \in DOMAIN f \cup {s} |-> IF i = s THEN e ELSE f[i]]
<1>1. DOMAIN f = 1 .. Len(f) /\ Len(f) \in Nat
  OBVIOUS
<1>2. DOMAIN f \cup {s} = 1 .. s
  BY <1>1
<1>3. g \in Seq(Events) /\ Len(g) = s
  <2>1. \A i \in 1 .. s : (IF i = s THEN e ELSE f[i]) \in Events
    BY <1>1
  <2>2. g = [i \in 1 .. s |-> IF i = s THEN e ELSE f[i]]
    BY <1>2
  <2>3. g \in [1 .. s -> Events]
    BY <2>1, <2>2
  <2> HIDE DEF g
  <2>4. g \in Seq(Events)
    BY <2>3
  <2> QED
    BY <2>3, <2>4
<1>4. \A i \in 1 .. s : g[i] = Append(f, e)[i]
  BY <1>1, <1>2, <1>3
<1>5. Append(f, e) \in Seq(Events) /\ Len(Append(f, e)) = s
  BY <1>1
<1> HIDE DEF g
<1>6. g = Append(f, e)
  BY <1>3, <1>4, <1>5, SeqEqual
<1> QED
  BY <1>6 DEF g

LEMMA LogInit == Init => LogInv
<1> SUFFICES ASSUME Init PROVE LogInv
  OBVIOUS
<1>1. files \in Seq(Events) /\ DOMAIN files = {}
  BY DEF Init
<1>2. TypeOK
  BY <1>1, LedgerAssumption DEF Init, TypeOK, Critical, Results
<1>3. QED
  BY <1>1, <1>2, LockInit
     DEF Init, LogInv, Contiguous, WriterInv, ViewIsPrefix, AckedIsLogged, Critical

(* What each step does to the log invariant when nothing is rolled back.   *)
LEMMA LogStep == ASSUME NoRollback PROVE LogInv /\ [Next]_vars => LogInv'
<1> SUFFICES ASSUME LogInv, [Next]_vars PROVE LogInv'
  OBVIOUS
<1>inv. TypeOK /\ LockInv /\ Contiguous /\ WriterInv /\ ViewIsPrefix /\ AckedIsLogged
  BY DEF LogInv
<1>lock. LockInv'
  BY LockStep DEF LogInv
<1>dom. Len(files) \in Nat /\ DOMAIN files = 1 .. Len(files)
  BY <1>inv DEF Contiguous
<1>next. NextSequence = Len(files) + 1
  BY <1>inv, NextSequenceIsLength DEF Contiguous
<1> USE DEF Goto, Return, reading, writing
<1>1. CASE UNCHANGED vars
  <2>1. TypeOK'
    BY <1>1, <1>inv DEF vars, TypeOK
  <2>2. Contiguous' /\ ViewIsPrefix' /\ AckedIsLogged'
    BY <1>1, <1>inv DEF vars, Contiguous, ViewIsPrefix, AckedIsLogged
  <2>3. WriterInv'
    BY <1>1, <1>inv DEF vars, WriterInv
  <2>4. QED
    BY <1>lock, <2>1, <2>2, <2>3 DEF LogInv
<1>2. ASSUME NEW p \in Procs, OpenDir(p) PROVE LogInv'
  <2>1. TypeOK'
    BY <1>2, <1>inv, <1>dom, LedgerAssumption DEF OpenDir, TypeOK, Critical, Results, LockInv
  <2>2. Contiguous' /\ ViewIsPrefix'
    BY <1>2, <1>inv, <1>dom DEF OpenDir, Contiguous, ViewIsPrefix, TypeOK
  <2>3. WriterInv'
    BY <1>2, <1>inv, <1>dom DEF OpenDir, WriterInv, TypeOK, Critical
  <2>4. AckedIsLogged'
    BY <1>2, <1>inv DEF OpenDir, AckedIsLogged, TypeOK
  <2>5. QED
    BY <1>lock, <2>1, <2>2, <2>3, <2>4 DEF LogInv
<1>3. ASSUME NEW p \in Procs, EndList(p) PROVE LogInv'
  <2>1. TypeOK'
    BY <1>3, <1>inv, <1>dom, LedgerAssumption, SMTT(30) DEF EndList, TypeOK, Critical, Results, LockInv
  <2>2. Contiguous' /\ ViewIsPrefix'
    BY <1>3, <1>inv, <1>dom DEF EndList, Contiguous, ViewIsPrefix, TypeOK
  <2>3. WriterInv'
    BY <1>3, <1>inv, <1>dom DEF EndList, WriterInv, TypeOK, Critical
  <2>4. AckedIsLogged'
    BY <1>3, <1>inv DEF EndList, AckedIsLogged, TypeOK
  <2>5. QED
    BY <1>lock, <2>1, <2>2, <2>3, <2>4 DEF LogInv
<1>4. ASSUME NEW p \in Procs, ReadEvent(p) PROVE LogInv'
  <2> DEFINE s == Min(list[p])
  <2>0. /\ UNCHANGED <<files, lockFile, extra, writing>>
        /\ pc[p] = "reading"
        /\ \/ /\ s \in DOMAIN files /\ s = Len(view[p]) + 1
              /\ view' = [view EXCEPT ![p] = Append(view[p], files[s])]
              /\ list' = [list EXCEPT ![p] = list[p] \ {s}]
              /\ UNCHANGED pc
           \/ /\ view' = [view EXCEPT ![p] = <<>>]
              /\ list' = [list EXCEPT ![p] = {}]
              /\ pc' = [pc EXCEPT ![p] = "idle"]
    BY <1>4 DEF ReadEvent
  <2> HIDE DEF s
  <2> DEFINE longer == Append(view[p], files[s])
             more == s \in DOMAIN files /\ s = Len(view[p]) + 1
  <2>v. view \in [Procs -> Seq(Events)]
    BY <1>inv DEF TypeOK
  <2>a. more => /\ longer \in Seq(Events)
                /\ \A i \in 1 .. Len(longer) : i \in DOMAIN files /\ longer[i] = files[i]
    <3> SUFFICES ASSUME more
                 PROVE  /\ longer \in Seq(Events)
                        /\ \A i \in 1 .. Len(longer) : i \in DOMAIN files /\ longer[i] = files[i]
      OBVIOUS
    <3>1. files[s] \in Events /\ view[p] \in Seq(Events)
      BY <1>inv DEF TypeOK
    <3>2. \A i \in 1 .. Len(view[p]) : i \in DOMAIN files /\ view[p][i] = files[i]
      BY <1>inv DEF ViewIsPrefix
    <3>3. QED
      BY <3>1, <3>2, AppendProperties
  <2>d. \/ more /\ view' = [view EXCEPT ![p] = longer]
        \/ view' = [view EXCEPT ![p] = <<>>]
    BY <2>0
  <2> HIDE DEF longer, more
  <2>b. /\ view' \in [Procs -> Seq(Events)]
        /\ \A q \in Procs : \/ view'[q] = view[q]
                            \/ view'[q] = <<>>
                            \/ more /\ view'[q] = longer
    <3>1. <<>> \in Seq(Events)
      OBVIOUS
    <3>2. QED
      BY <2>a, <2>d, <2>v, <3>1
  <2>c. \A q \in Procs : /\ pc'[q] = pc[q] \/ pc'[q] = "idle"
                         /\ pc[q] # "reading" => view'[q] = view[q]
    BY <2>0, <1>inv DEF TypeOK
  <2>1. TypeOK'
    <3>1. /\ pc' \in [Procs -> {"idle", "listing", "reading", "acquire"} \cup Critical]
          /\ list' \in [Procs -> SUBSET (Nat \ {0})]
      BY <2>0, <1>inv DEF TypeOK
    <3>2. QED
      BY <2>0, <2>b, <3>1, <1>inv DEF TypeOK
  <2>2. Contiguous' /\ ViewIsPrefix'
    <3>1. \A q \in Procs : \A i \in 1 .. Len(view'[q]) : i \in DOMAIN files /\ view'[q][i] = files[i]
      BY <2>a, <2>b, <1>inv DEF ViewIsPrefix
    <3>2. QED
      BY <2>0, <3>1, <1>inv DEF Contiguous, ViewIsPrefix
  <2>3. WriterInv'
    BY <2>0, <2>c, <1>inv DEF WriterInv, Critical
  <2>4. AckedIsLogged'
    BY <2>0, <2>c, <1>inv DEF AckedIsLogged
  <2>5. QED
    BY <1>lock, <2>1, <2>2, <2>3, <2>4 DEF LogInv
<1>5. ASSUME NEW p \in Procs, EndRead(p) PROVE LogInv'
  <2>1. TypeOK'
    BY <1>5, <1>inv, <1>dom, LedgerAssumption DEF EndRead, TypeOK, Critical, Results, LockInv
  <2>2. Contiguous' /\ ViewIsPrefix'
    BY <1>5, <1>inv, <1>dom DEF EndRead, Contiguous, ViewIsPrefix, TypeOK
  <2>3. WriterInv'
    BY <1>5, <1>inv, <1>dom DEF EndRead, WriterInv, TypeOK, Critical
  <2>4. AckedIsLogged'
    BY <1>5, <1>inv DEF EndRead, AckedIsLogged, TypeOK
  <2>5. QED
    BY <1>lock, <2>1, <2>2, <2>3, <2>4 DEF LogInv
<1>6. ASSUME NEW p \in Procs, Call(p) PROVE LogInv'
  <2>o. PICK o \in Ops :
          /\ op' = [op EXCEPT ![p] = o]
          /\ \E es \in [1 .. (IF o = "batch" THEN BatchSize ELSE 1) -> Events] :
                evs' = [evs EXCEPT ![p] = es]
    BY <1>6 DEF Call
  <2>0. PICK es \in [1 .. (IF o = "batch" THEN BatchSize ELSE 1) -> Events] :
          evs' = [evs EXCEPT ![p] = es]
    BY <2>o
  <2>es. es \in Seq(Events) /\ Len(es) >= 1 /\ (o # "batch" => Len(es) = 1)
    BY LedgerAssumption
  <2>1. TypeOK'
    BY <1>6, <2>o, <2>0, <2>es, <1>inv DEF Call, TypeOK, Critical, Results
  <2>2. Contiguous' /\ ViewIsPrefix'
    BY <1>6, <1>inv DEF Call, Contiguous, ViewIsPrefix, TypeOK
  <2>3. WriterInv'
    BY <1>6, <2>o, <2>0, <2>es, <1>inv DEF Call, WriterInv, TypeOK, Critical
  <2>4. AckedIsLogged'
    BY <1>6, <1>inv DEF Call, AckedIsLogged, TypeOK
  <2>5. QED
    BY <1>lock, <2>1, <2>2, <2>3, <2>4 DEF LogInv
<1>7. ASSUME NEW p \in Procs, TryAcquire(p) PROVE LogInv'
  <2>1. TypeOK'
    BY <1>7, <1>inv, <1>dom, LedgerAssumption DEF TryAcquire, TypeOK, Critical, Results, LockInv
  <2>2. Contiguous' /\ ViewIsPrefix'
    BY <1>7, <1>inv, <1>dom DEF TryAcquire, Contiguous, ViewIsPrefix, TypeOK
  <2>3. WriterInv'
    <3>1. /\ UNCHANGED <<files, op, evs, start, renamed, view, res>>
          /\ \A q \in Procs : pc'[q] = pc[q] \/ (pc[q] = "acquire" /\ pc'[q] = "meta")
      BY <1>7, <1>inv DEF TryAcquire, TypeOK
    <3>2. QED
      BY <3>1, <1>inv DEF WriterInv, Critical
  <2>4. AckedIsLogged'
    BY <1>7, <1>inv DEF TryAcquire, AckedIsLogged, TypeOK
  <2>5. QED
    BY <1>lock, <2>1, <2>2, <2>3, <2>4 DEF LogInv
<1>8. ASSUME NEW p \in Procs, AcquireTimeout(p) PROVE LogInv'
  <2>1. TypeOK'
    BY <1>8, <1>inv, <1>dom, LedgerAssumption DEF AcquireTimeout, TypeOK, Critical, Results, LockInv
  <2>2. Contiguous' /\ ViewIsPrefix'
    BY <1>8, <1>inv, <1>dom DEF AcquireTimeout, Contiguous, ViewIsPrefix, TypeOK
  <2>3. WriterInv'
    BY <1>8, <1>inv, <1>dom DEF AcquireTimeout, WriterInv, TypeOK, Critical
  <2>4. AckedIsLogged'
    BY <1>8, <1>inv DEF AcquireTimeout, AckedIsLogged, TypeOK
  <2>5. QED
    BY <1>lock, <2>1, <2>2, <2>3, <2>4 DEF LogInv
<1>9. ASSUME NEW p \in Procs, WriteMeta(p) PROVE LogInv'
  <2>0. op[p] \in Ops
    BY <1>9, <1>inv DEF WriteMeta, LockInv, Critical
  <2>1. TypeOK'
    BY <1>9, <2>0, <1>inv DEF WriteMeta, TypeOK, Critical
  <2>2. Contiguous' /\ ViewIsPrefix'
    BY <1>9, <1>inv, <1>dom DEF WriteMeta, Contiguous, ViewIsPrefix, TypeOK
  <2>a. /\ UNCHANGED <<files, op, evs, start, renamed, view, res>>
        /\ \A q \in Procs : \/ pc'[q] = pc[q]
                            \/ pc[q] = "meta" /\ pc'[q] \in {"sequence", "acquire"}
    BY <1>9, <1>inv DEF WriteMeta, TypeOK
  <2>3. WriterInv'
    BY <2>a, <1>inv DEF WriterInv, Critical
  <2>4. AckedIsLogged'
    <3>1. \A q \in Procs : pc'[q] = "release" => pc[q] = "release"
      BY <2>a
    <3>2. QED
      BY <2>a, <3>1, <1>inv DEF AckedIsLogged
  <2>5. QED
    BY <1>lock, <2>1, <2>2, <2>3, <2>4 DEF LogInv
<1>10. ASSUME NEW p \in Procs, Sequence(p) PROVE LogInv'
  <2>0. /\ pc[p] = "sequence"
        /\ start' = [start EXCEPT ![p] = Len(files) + 1]
        /\ renamed' = [renamed EXCEPT ![p] = 0]
        /\ \/ /\ pc' = [pc EXCEPT ![p] = "release"]
              /\ res' = [res EXCEPT ![p] = "mismatch"]
           \/ /\ op[p] = "cas" => Len(files) = Len(view[p])
              /\ pc' = [pc EXCEPT ![p] = "temp"] /\ res' = res
        /\ UNCHANGED <<files, lockFile, op, evs, ops, reading>>
    <3>1. CASE op[p] = "cas" /\ NextSequence - 1 # Len(view[p])
      BY <1>10, <3>1, <1>next DEF Sequence
    <3>2. CASE ~(op[p] = "cas" /\ NextSequence - 1 # Len(view[p]))
      <4>1. op[p] = "cas" => Len(files) = Len(view[p])
        BY <3>2, <1>next, <1>dom
      <4>2. QED
        BY <1>10, <3>2, <4>1, <1>next DEF Sequence
    <3>3. QED
      BY <3>1, <3>2
  <2>1. TypeOK'
    <3>1. /\ pc' \in [Procs -> {"idle", "listing", "reading", "acquire"} \cup Critical]
          /\ res' \in [Procs -> Results]
          /\ start' \in [Procs -> Nat] /\ renamed' \in [Procs -> Nat]
      <4>1. /\ pc \in [Procs -> {"idle", "listing", "reading", "acquire"} \cup Critical]
            /\ res \in [Procs -> Results]
            /\ start \in [Procs -> Nat] /\ renamed \in [Procs -> Nat]
        BY <1>inv DEF TypeOK
      <4>2. start' \in [Procs -> Nat] /\ renamed' \in [Procs -> Nat]
        BY <2>0, <4>1, <1>dom
      <4>3. pc' \in [Procs -> {"idle", "listing", "reading", "acquire"} \cup Critical]
        BY <2>0, <4>1 DEF Critical
      <4>4. res' \in [Procs -> Results]
        BY <2>0, <4>1 DEF Results
      <4>5. QED
        BY <4>2, <4>3, <4>4
    <3>2. QED
      BY <2>0, <3>1, <1>inv DEF TypeOK
  <2>2. Contiguous' /\ ViewIsPrefix'
    BY <2>0, <1>inv DEF Contiguous, ViewIsPrefix
  <2>a. /\ \A q \in Procs \ {p} : /\ pc'[q] = pc[q] /\ res'[q] = res[q]
                                 /\ start'[q] = start[q] /\ renamed'[q] = renamed[q]
        /\ start'[p] = Len(files) + 1 /\ renamed'[p] = 0
        /\ \/ pc'[p] = "release" /\ res'[p] = "mismatch"
           \/ pc'[p] = "temp" /\ res'[p] = res[p] /\ (op[p] = "cas" => Len(files) = Len(view[p]))
    BY <2>0, <1>inv DEF TypeOK
  <2>3. WriterInv'
    BY <2>0, <2>a, <1>inv, <1>dom DEF WriterInv, Critical
  <2>4. AckedIsLogged'
    BY <2>0, <2>a, <1>inv DEF AckedIsLogged
  <2>5. QED
    BY <1>lock, <2>1, <2>2, <2>3, <2>4 DEF LogInv
<1>11. ASSUME NEW p \in Procs, WriteTemp(p) PROVE LogInv'
  <2>1. TypeOK'
    BY <1>11, <1>inv, <1>dom, LedgerAssumption DEF WriteTemp, TypeOK, Critical, Results, LockInv
  <2>2. Contiguous' /\ ViewIsPrefix'
    BY <1>11, <1>inv, <1>dom DEF WriteTemp, Contiguous, ViewIsPrefix, TypeOK
  <2>3. WriterInv'
    <3>1. /\ UNCHANGED <<files, op, evs, start, renamed, view>>
          /\ \A q \in Procs : \/ pc'[q] = pc[q] /\ res'[q] = res[q]
                              \/ pc[q] = "temp" /\ pc'[q] = "rename" /\ res'[q] = res[q]
                              \/ pc[q] = "temp" /\ pc'[q] = "release"
      BY <1>11, <1>inv DEF WriteTemp, TypeOK
    <3>2. QED
      BY <3>1, <1>inv DEF WriterInv, Critical
  <2>a. \A q \in Procs : \/ pc'[q] # "release"
                         \/ pc'[q] = pc[q] /\ res'[q] = res[q]
                         \/ res'[q] = "error"
    BY <1>11, <1>inv DEF WriteTemp, TypeOK
  <2>4. AckedIsLogged'
    BY <1>11, <2>a, <1>inv DEF WriteTemp, AckedIsLogged
  <2>5. QED
    BY <1>lock, <2>1, <2>2, <2>3, <2>4 DEF LogInv
<1>12. ASSUME NEW p \in Procs, Rename(p) PROVE LogInv'
  <2> DEFINE e == evs[p][renamed[p] + 1]
             s == start[p] + renamed[p]
  <2>0. /\ s = Len(files) + 1 /\ start[p] \in Nat \ {0} /\ renamed[p] \in Nat
        /\ renamed[p] < Len(evs[p]) /\ evs[p] \in Seq(Events) /\ e \in Events
    BY <1>12, <1>inv, <1>dom DEF Rename, WriterInv, TypeOK
  <2>a. files' = Append(files, e)
    <3>1. files' = [i \in DOMAIN files \cup {s} |-> IF i = s THEN e ELSE files[i]]
      BY <1>12 DEF Rename
    <3>2. s \in Nat
      BY <2>0
    <3>3. QED
      BY <2>0, <3>1, <3>2, <1>inv, RenameIsAppend DEF Contiguous
  <2>b. /\ files' \in Seq(Events) /\ Len(files') = Len(files) + 1
        /\ \A i \in 1 .. Len(files) : files'[i] = files[i]
        /\ files'[Len(files) + 1] = e
        /\ DOMAIN files' = 1 .. Len(files) + 1
    BY <2>0, <2>a, <1>inv, <1>dom, AppendProperties DEF Contiguous
  <2>c. \A q \in Procs \ {p} : pc[q] \notin Critical /\ pc'[q] = pc[q] /\ view'[q] = view[q]
    BY <1>12, <1>inv DEF Rename, LockInv, MutualExclusion, Critical, TypeOK
  <2> HIDE DEF e, s
  <2>d. op[p] = "cas" => /\ Len(evs[p]) = 1 /\ renamed[p] = 0 /\ evs[p][1] = e
                         /\ Len(view[p]) = Len(files)
    <3>1. pc[p] = "rename"
      BY <1>12 DEF Rename
    <3>2. op[p] = "cas" => Len(evs[p]) = 1 /\ Len(view[p]) = Len(files)
      BY <3>1, <1>inv DEF WriterInv, Critical
    <3>3. QED
      BY <3>2, <2>0 DEF e
  <2>v. /\ view' \in [Procs -> Seq(Events)]
        /\ view'[p] = IF op[p] = "cas" THEN Append(view[p], e) ELSE view[p]
    <3>1. view \in [Procs -> Seq(Events)]
      BY <1>inv DEF TypeOK
    <3>2. op[p] = "cas" => view' = [view EXCEPT ![p] = Append(view[p], e)]
      BY <1>12, <2>d DEF Rename
    <3>3. op[p] # "cas" => view' = view
      BY <1>12 DEF Rename
    <3>4. Append(view[p], e) \in Seq(Events)
      BY <3>1, <2>0
    <3>5. QED
      BY <3>1, <3>2, <3>3, <3>4
  <2>w. /\ renamed'[p] = renamed[p] + 1
        /\ UNCHANGED <<evs, start, op>>
        /\ \/ renamed[p] + 1 = Len(evs[p]) /\ pc'[p] = "release" /\ res'[p] = "ok"
           \/ renamed[p] + 1 # Len(evs[p]) /\ pc'[p] = "rename" /\ res'[p] = res[p]
        /\ \A q \in Procs \ {p} : renamed'[q] = renamed[q] /\ res'[q] = res[q]
    BY <1>12, <1>inv DEF Rename, TypeOK
  <2>x. \A i \in 1 .. renamed[p] + 1 :
          start[p] + i - 1 \in DOMAIN files' /\ files'[start[p] + i - 1] = evs[p][i]
    <3>1. \A i \in 1 .. renamed[p] : files[start[p] + i - 1] = evs[p][i]
      BY <1>12, <1>inv DEF Rename, WriterInv
    <3>2. \A i \in 1 .. renamed[p] : start[p] + i - 1 \in 1 .. Len(files)
      BY <2>0, <1>dom DEF s
    <3>3. start[p] + (renamed[p] + 1) - 1 = Len(files) + 1
      BY <2>0, <1>dom DEF s
    <3>4. TAKE i \in 1 .. renamed[p] + 1
    <3>5. CASE i = renamed[p] + 1
      BY <3>3, <3>5, <2>b, <1>dom DEF e
    <3>6. CASE i # renamed[p] + 1
      <4>1. i \in 1 .. renamed[p]
        BY <3>6, <2>0
      <4>2. QED
        BY <4>1, <3>1, <3>2, <2>b, <1>dom
    <3>7. QED
      BY <3>5, <3>6
  <2>1. TypeOK'
    <3>1. files' \in [DOMAIN files' -> Events] /\ DOMAIN files' \subseteq Nat \ {0}
      BY <2>b, <1>dom
    <3>2. extra' \in [Procs -> SUBSET (Nat \ {0})]
      <4>1. extra' = Touched(s) /\ s \in Nat \ {0}
        BY <1>12, <2>0, <1>dom DEF Rename, s
      <4>2. QED
        BY <4>1, <1>inv DEF Touched, TypeOK
    <3>3. /\ pc' \in [Procs -> {"idle", "listing", "reading", "acquire"} \cup Critical]
          /\ res' \in [Procs -> Results] /\ renamed' \in [Procs -> Nat]
      <4>1. /\ pc \in [Procs -> {"idle", "listing", "reading", "acquire"} \cup Critical]
            /\ res \in [Procs -> Results] /\ renamed \in [Procs -> Nat]
        BY <1>inv DEF TypeOK
      <4>2. QED
        BY <1>12, <4>1 DEF Rename, Critical, Results
    <3>4. UNCHANGED <<lockFile, list, op, evs, start, ops>>
      BY <1>12 DEF Rename
    <3>5. QED
      BY <3>1, <3>2, <3>3, <3>4, <2>v, <1>inv DEF TypeOK
  <2>2. Contiguous' /\ ViewIsPrefix'
    <3>1. \A q \in Procs : \A i \in 1 .. Len(view[q]) : i \in 1 .. Len(files) /\ view[q][i] = files'[i]
      BY <2>b, <1>inv, <1>dom DEF ViewIsPrefix
    <3>2. \A i \in 1 .. Len(view'[p]) : i \in DOMAIN files' /\ view'[p][i] = files'[i]
      <4>1. CASE op[p] # "cas"
        BY <4>1, <2>v, <2>b, <3>1, <1>dom
      <4>2. CASE op[p] = "cas"
        <5>1. view[p] \in Seq(Events)
          BY <1>inv DEF TypeOK
        <5>2. QED
          BY <4>2, <5>1, <2>0, <2>v, <2>b, <2>d, <3>1, <1>dom, AppendProperties
      <4>3. QED
        BY <4>1, <4>2
    <3>3. QED
      BY <3>1, <3>2, <2>b, <2>c, <1>dom DEF Contiguous, ViewIsPrefix
  <2>3. WriterInv'
    <3>1. ASSUME NEW q \in Procs, q # p PROVE pc'[q] \notin Critical /\ pc'[q] = pc[q]
      BY <3>1, <2>c
    <3>2. pc[p] = "rename" /\ res[p] = "none"
      BY <1>12, <1>inv DEF Rename, WriterInv
    <3>4. op[p] = "cas" => pc'[p] = "release"
      <4> SUFFICES ASSUME op[p] = "cas" PROVE pc'[p] = "release"
        OBVIOUS
      <4>1. renamed[p] = 0 /\ Len(evs[p]) = 1
        BY <2>d
      <4>2. renamed[p] + 1 = Len(evs[p])
        BY <4>1
      <4>3. QED
        BY <4>2, <2>w
    <3>5. Len(evs[p]) >= 1 /\ (op[p] # "batch" => Len(evs[p]) = 1)
      BY <3>2, <1>inv DEF WriterInv, Critical
    <3>6. start[p] + (renamed[p] + 1) = Len(files') + 1 /\ (renamed[p] + 1 # Len(evs[p]) => renamed[p] + 1 < Len(evs[p]))
      BY <2>0, <2>b, <1>dom DEF s
    <3>7. QED
      <4>2. pc'[p] \in {"rename", "release"}
        BY <2>w
      <4>3. pc'[p] = "rename" =>
              /\ start'[p] >= 1 /\ start'[p] + renamed'[p] = Len(files') + 1
              /\ renamed'[p] < Len(evs'[p]) /\ op'[p] # "cas" /\ res'[p] = "none"
              /\ \A i \in 1 .. renamed'[p] : files'[start'[p] + i - 1] = evs'[p][i]
        BY <3>2, <3>4, <3>6, <2>0, <2>w, <2>x
      <4>4. Len(evs'[p]) >= 1 /\ (op'[p] # "batch" => Len(evs'[p]) = 1)
        BY <3>5, <2>w
      <4>5. ASSUME NEW q \in Procs, q # p
            PROVE  /\ res'[q] = res[q] /\ evs'[q] = evs[q] /\ op'[q] = op[q]
                   /\ pc'[q] \notin Critical /\ pc'[q] = pc[q]
        BY <4>5, <2>w, <3>1
      <4>6. QED
        BY <4>2, <4>3, <4>4, <4>5, <1>inv DEF WriterInv, Critical
  <2>4. AckedIsLogged'
    <3>1. ASSUME NEW q \in Procs, q # p PROVE pc'[q] # "release"
      BY <3>1, <2>c DEF Critical
    <3>3. QED
      BY <3>1, <2>w, <2>x, <2>0 DEF AckedIsLogged
  <2>5. QED
    BY <1>lock, <2>1, <2>2, <2>3, <2>4 DEF LogInv
<1>13. ASSUME NEW p \in Procs, RenameFails(p) PROVE LogInv'
  <2>1. TypeOK'
    BY <1>13, <1>inv, <1>dom, LedgerAssumption DEF RenameFails, TypeOK, Critical, Results, LockInv
  <2>2. Contiguous' /\ ViewIsPrefix'
    BY <1>13, <1>inv, <1>dom DEF RenameFails, Contiguous, ViewIsPrefix, TypeOK
  <2>a. pc[p] = "rename" /\ op[p] # "batch" /\ op[p] \in Ops
    BY <1>13, <1>inv DEF RenameFails, NoRollback, LockInv, Critical
  <2>b. renamed[p] = 0
    <3>1. renamed[p] \in Nat
      BY <1>inv DEF TypeOK
    <3>2. Len(evs[p]) = 1 /\ renamed[p] < Len(evs[p])
      BY <2>a, <1>inv DEF WriterInv, Critical
    <3>3. QED
      BY <3>1, <3>2
  <2>c. /\ pc'[p] = "rollback" /\ res'[p] = "error"
        /\ \A q \in Procs \ {p} : pc'[q] = pc[q] /\ res'[q] = res[q]
        /\ UNCHANGED <<files, op, evs, start, renamed, view>>
    BY <1>13, <1>inv DEF RenameFails, TypeOK
  <2>3. WriterInv'
    BY <2>a, <2>b, <2>c, <1>inv DEF WriterInv, Critical
  <2>4. AckedIsLogged'
    BY <1>13, <1>inv DEF RenameFails, AckedIsLogged, TypeOK
  <2>5. QED
    BY <1>lock, <2>1, <2>2, <2>3, <2>4 DEF LogInv
<1>14. ASSUME NEW p \in Procs, Rollback(p) PROVE LogInv'
  <2>0. /\ pc[p] = "rollback" /\ pc' = [pc EXCEPT ![p] = "release"]
        /\ UNCHANGED <<files, start, renamed, reading, lockFile, op, evs, res, ops>>
        /\ res[p] = "error"
    BY <1>14, <1>inv DEF Rollback, WriterInv
  <2>1. TypeOK'
    BY <2>0, <1>inv DEF TypeOK, Critical
  <2>2. Contiguous' /\ ViewIsPrefix'
    BY <2>0, <1>inv DEF Contiguous, ViewIsPrefix
  <2>3. WriterInv'
    BY <2>0, <1>inv DEF WriterInv, TypeOK, Critical
  <2>4. AckedIsLogged'
    BY <2>0, <1>inv DEF AckedIsLogged, TypeOK
  <2>5. QED
    BY <1>lock, <2>1, <2>2, <2>3, <2>4 DEF LogInv
<1>15. ASSUME NEW p \in Procs, Release(p) PROVE LogInv'
  <2>1. TypeOK'
    BY <1>15, <1>inv, <1>dom, LedgerAssumption DEF Release, TypeOK, Critical, Results, LockInv
  <2>2. Contiguous' /\ ViewIsPrefix'
    BY <1>15, <1>inv, <1>dom DEF Release, Contiguous, ViewIsPrefix, TypeOK
  <2>3. WriterInv'
    BY <1>15, <1>inv, <1>dom DEF Release, WriterInv, TypeOK, Critical
  <2>4. AckedIsLogged'
    BY <1>15, <1>inv DEF Release, AckedIsLogged, TypeOK
  <2>5. QED
    BY <1>lock, <2>1, <2>2, <2>3, <2>4 DEF LogInv
<1>16. ASSUME NEW p \in Procs, Crash(p) PROVE LogInv'
  <2>1. TypeOK'
    BY <1>16, <1>inv, <1>dom, LedgerAssumption DEF Crash, TypeOK, Critical, Results, LockInv
  <2>2. Contiguous' /\ ViewIsPrefix'
    BY <1>16, <1>inv, <1>dom DEF Crash, Contiguous, ViewIsPrefix, TypeOK
  <2>3. WriterInv'
    BY <1>16, <1>inv, <1>dom DEF Crash, WriterInv, TypeOK, Critical
  <2>4. AckedIsLogged'
    BY <1>16, <1>inv DEF Crash, AckedIsLogged, TypeOK
  <2>5. QED
    BY <1>lock, <2>1, <2>2, <2>3, <2>4 DEF LogInv
<1>17. QED
  BY <1>1, <1>2, <1>3, <1>4, <1>5, <1>6, <1>7, <1>8, <1>9, <1>10, <1>11, <1>12, <1>13,
     <1>14, <1>15, <1>16 DEF Next, Load, Acquire, Write

---------------------------------------------------------------------------
(* The consequences of the log invariant.                                  *)

LEMMA CasView == LogInv => CasDecidesOnWholeLog
<1> SUFFICES ASSUME LogInv, NEW p \in Procs, pc[p] = "rename", op[p] = "cas"
             PROVE  view[p] = files
  BY DEF CasDecidesOnWholeLog
<1>1. files \in Seq(Events) /\ view[p] \in Seq(Events)
  BY DEF LogInv, Contiguous, TypeOK
<1>2. Len(view[p]) = Len(files)
  BY DEF LogInv, WriterInv
<1>3. \A i \in 1 .. Len(view[p]) : view[p][i] = files[i]
  BY DEF LogInv, ViewIsPrefix
<1>4. QED
  BY <1>1, <1>2, <1>3, SeqEqual

LEMMA SafeLog ==
    LogInv => TypeOK /\ GapFree /\ ViewIsPrefix /\ AckedIsLogged /\ CasDecidesOnWholeLog
<1> SUFFICES ASSUME LogInv
             PROVE  TypeOK /\ GapFree /\ ViewIsPrefix /\ AckedIsLogged /\ CasDecidesOnWholeLog
  OBVIOUS
<1>1. DOMAIN files = 1 .. Len(files) /\ Len(files) \in Nat
  BY DEF LogInv, Contiguous
<1>2. GapFree
  BY <1>1 DEF GapFree
<1>3. QED
  BY <1>2, CasView DEF LogInv

(* The ledger written by Append and AppendIfSequence is always a gap-free  *)
(* sequence of events; readers, which take no lock, only ever see prefixes *)
(* of it; an append that returns success is in it; and AppendIfSequence    *)
(* writes only when its caller has seen all of it.                         *)
THEOREM LedgerSafety ==
    ASSUME NoRollback
    PROVE  Spec => [](TypeOK /\ GapFree /\ ViewIsPrefix /\ AckedIsLogged /\ CasDecidesOnWholeLog)
<1>1. Init => LogInv
  BY LogInit
<1>2. LogInv /\ [Next]_vars => LogInv'
  BY LogStep
<1>3. LogInv => TypeOK /\ GapFree /\ ViewIsPrefix /\ AckedIsLogged /\ CasDecidesOnWholeLog
  BY SafeLog
<1>4. QED
  BY <1>1, <1>2, <1>3, PTL DEF Spec

(* What a step does to the log: nothing, or it appends one event; an event *)
(* appended by AppendIfSequence also extends the view of the process.      *)
LEMMA FilesStep ==
    ASSUME NoRollback, LogInv, [Next]_vars
    PROVE  \/ files' = files
           \/ \E p \in Procs : /\ Rename(p)
                               /\ evs[p][renamed[p] + 1] \in Events
                               /\ files' = Append(files, evs[p][renamed[p] + 1])
<1>1. ASSUME NEW p \in Procs, Rename(p)
      PROVE  evs[p][renamed[p] + 1] \in Events /\ files' = Append(files, evs[p][renamed[p] + 1])
  <2>1. Len(files) \in Nat
    BY DEF LogInv, Contiguous
  <2>2. /\ start[p] + renamed[p] = Len(files) + 1 /\ renamed[p] < Len(evs[p])
        /\ renamed[p] \in Nat /\ evs[p] \in Seq(Events)
    BY <1>1 DEF Rename, LogInv, WriterInv, TypeOK
  <2>3. evs[p][renamed[p] + 1] \in Events
    BY <2>2
  <2>4. QED
    BY <1>1, <2>1, <2>2, <2>3, RenameIsAppend DEF Rename, LogInv, Contiguous
<1>2. ASSUME NEW p \in Procs, Rollback(p) PROVE files' = files
  BY <1>2 DEF Rollback, LogInv, WriterInv
<1>3. QED
  BY <1>1, <1>2 DEF Next, vars, Load, OpenDir, EndList, ReadEvent, EndRead, Call, Acquire,
     TryAcquire, AcquireTimeout, Write, WriteMeta, Sequence, WriteTemp, RenameFails,
     Release, Crash

(* No step removes or rewrites an event.                                   *)
THEOREM LedgerAppendOnly == ASSUME NoRollback PROVE Spec => AppendOnly
<1>1. ASSUME LogInv, [Next]_vars
      PROVE  \A s \in DOMAIN files : s \in DOMAIN files' /\ files'[s] = files[s]
  <2>1. files \in Seq(Events) /\ DOMAIN files = 1 .. Len(files) /\ Len(files) \in Nat
    BY <1>1 DEF LogInv, Contiguous
  <2>2. CASE files' = files
    BY <2>2
  <2>3. ASSUME NEW e \in Events, files' = Append(files, e)
        PROVE  \A s \in DOMAIN files : s \in DOMAIN files' /\ files'[s] = files[s]
    BY <2>1, <2>3, AppendProperties
  <2>4. QED
    BY <1>1, <2>2, <2>3, FilesStep
<1>2. Init => LogInv
  BY LogInit
<1>3. LogInv /\ [Next]_vars => LogInv'
  BY LogStep
<1>4. QED
  BY <1>1, <1>2, <1>3, PTL DEF Spec, AppendOnly

(* A prefix of the log followed by its next event is a longer prefix.      *)
LEMMA LongerPrefix ==
    ASSUME NEW f \in Seq(Events), NEW v \in Seq(Events),
           \A i \in 1 .. Len(v) : i \in DOMAIN f /\ v[i] = f[i],
           Len(v) + 1 \in DOMAIN f
    PROVE  Append(v, f[Len(v) + 1]) = SubSeq(f, 1, Len(v) + 1)
<1> DEFINE n == Len(v) + 1
           a == Append(v, f[n])
           b == SubSeq(f, 1, n)
<1>1. n \in Nat /\ n <= Len(f) /\ \A i \in 1 .. n : f[i] \in Events
  OBVIOUS
<1>2. a \in Seq(Events) /\ Len(a) = n /\ \A i \in 1 .. n : a[i] = f[i]
  BY <1>1, AppendProperties
<1>3. b \in Seq(Events) /\ Len(b) = n /\ \A i \in 1 .. n : b[i] = f[i]
  BY <1>1, SubSeqProperties
<1> HIDE DEF a, b
<1>4. a = b
  BY <1>2, <1>3, SeqEqual
<1>5. QED
  BY <1>4 DEF a, b

LEMMA RefinesStep ==
    ASSUME NoRollback, LogInv, [Next]_vars
    PROVE  Abstract!Next \/ UNCHANGED <<files, view>>
<1> USE DEF reading
<1>1. ASSUME NEW p \in Procs, OpenDir(p) PROVE Abstract!Forget(p)
  BY <1>1 DEF OpenDir, Abstract!Forget
<1>2. ASSUME NEW p \in Procs, Crash(p) PROVE Abstract!Forget(p)
  BY <1>2 DEF Crash, Abstract!Forget
<1>3. ASSUME NEW p \in Procs, ReadEvent(p) PROVE Abstract!Load(p) \/ Abstract!Forget(p)
  <2> DEFINE s == Min(list[p])
  <2>1. CASE s \in DOMAIN files /\ s = Len(view[p]) + 1
    <3>1. files' = files /\ view' = [view EXCEPT ![p] = Append(view[p], files[s])]
      BY <1>3, <2>1 DEF ReadEvent
    <3> HIDE DEF s
    <3>2. files \in Seq(Events) /\ view[p] \in Seq(Events)
      BY DEF LogInv, Contiguous, TypeOK
    <3>3. \A i \in 1 .. Len(view[p]) : i \in DOMAIN files /\ view[p][i] = files[i]
      BY DEF LogInv, ViewIsPrefix
    <3>4. Append(view[p], files[s]) = SubSeq(files, 1, s)
      BY <2>1, <3>2, <3>3, LongerPrefix
    <3>5. s \in 0 .. Len(files)
      BY <2>1, <3>2
    <3>6. QED
      BY <3>1, <3>4, <3>5 DEF Abstract!Load
  <2>2. CASE ~(s \in DOMAIN files /\ s = Len(view[p]) + 1)
    BY <1>3, <2>2 DEF ReadEvent, Abstract!Forget
  <2>3. QED
    BY <2>1, <2>2
<1>4. ASSUME NEW p \in Procs, Rename(p)
      PROVE  \E e \in Events : Abstract!Append_(p, e) \/ Abstract!AppendIfSequence(p, e)
  <2> DEFINE e == evs[p][renamed[p] + 1]
  <2>1. e \in Events /\ files' = Append(files, e)
    <3>1. Len(files) \in Nat
      BY DEF LogInv, Contiguous
    <3>2. /\ start[p] + renamed[p] = Len(files) + 1 /\ renamed[p] < Len(evs[p])
          /\ renamed[p] \in Nat /\ evs[p] \in Seq(Events)
      BY <1>4 DEF Rename, LogInv, WriterInv, TypeOK
    <3>3. e \in Events
      BY <3>2
    <3>4. QED
      BY <1>4, <3>1, <3>2, <3>3, RenameIsAppend DEF Rename, LogInv, Contiguous
  <2>2. CASE op[p] = "cas"
    <3>1. view[p] = files
      BY <1>4, <2>2, CasView DEF CasDecidesOnWholeLog, Rename
    <3>2. Len(evs[p]) = 1 /\ renamed[p] < Len(evs[p]) /\ renamed[p] \in Nat
      BY <1>4, <2>2 DEF Rename, LogInv, WriterInv, TypeOK, Critical
    <3>3. renamed[p] + 1 = 1
      BY <3>2
    <3>4. view' = [view EXCEPT ![p] = Append(files, e)]
      BY <1>4, <2>2, <3>1, <3>3 DEF Rename
    <3>5. Abstract!AppendIfSequence(p, e)
      BY <2>1, <3>1, <3>4 DEF Abstract!AppendIfSequence
    <3>6. QED
      BY <2>1, <3>5
  <2>3. CASE op[p] # "cas"
    <3>1. Abstract!Append_(p, e)
      BY <1>4, <2>1, <2>3 DEF Rename, Abstract!Append_
    <3>2. QED
      BY <2>1, <3>1
  <2>4. QED
    BY <2>2, <2>3
<1>5. ASSUME NEW p \in Procs, Rollback(p) PROVE UNCHANGED <<files, view>>
  BY <1>5 DEF Rollback, LogInv, WriterInv
<1>6. QED
  BY <1>1, <1>2, <1>3, <1>4, <1>5 DEF Abstract!Next, Next, vars, Load, EndList, EndRead,
     Call, Acquire, TryAcquire, AcquireTimeout, Write, WriteMeta, Sequence, WriteTemp,
     RenameFails, Release

(* The files, locks, listings and crashes of the ledger implement the      *)
(* append-only log: every behaviour of the directory is a behaviour of     *)
(* AbstractLedger.                                                         *)
THEOREM LedgerRefines == ASSUME NoRollback PROVE Spec => Refines
<1>1. Init => Abstract!Init
  BY DEF Init, Abstract!Init
<1>2. LogInv /\ [Next]_vars => Abstract!Next \/ UNCHANGED <<files, view>>
  BY RefinesStep
<1>3. Init => LogInv
  BY LogInit
<1>4. LogInv /\ [Next]_vars => LogInv'
  BY LogStep
<1>5. LogInv /\ [Next]_vars => [Abstract!Next]_(Abstract!vars)
  BY <1>2 DEF Abstract!vars
<1>6. QED
  BY <1>1, <1>3, <1>4, <1>5, PTL DEF Spec, Refines, Abstract!Spec
===========================================================================
